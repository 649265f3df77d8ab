--------------------------- MODULE RegisterDrivers ---------------------------
(***************************************************************************)
(* The four pieces of code that reach the NPU through registers: the       *)
(* bare-metal program on npu_driver.c, the bare-metal uCA driver,          *)
(* NpuMmio's programs and the DataMover channels. Each belongs to another  *)
(* build of the board's software; what runs is one of them.                *)
(***************************************************************************)
EXTENDS BareMetal, UcaDriver, UioAccess, DataMover

VARIABLE user  \* which of them runs

allVars == <<vars, driverVars, uioVars, dmaVars, user>>

\* Only the program's own image matters to anyone.
RegistersInit ==
  /\ user \in {"gemma", "uca", "uio", "dma"}
  /\ Init /\ DriverInit /\ UioInit /\ DmaInit
  /\ user # "gemma" => build = CHOOSE b \in Builds : TRUE

GemmaStep == user = "gemma" /\ CpuStep /\ UNCHANGED <<driverVars, uioVars, dmaVars, user>>

RegistersNext ==
  \/ GemmaStep
  \/ user = "gemma" /\ NpuCompletes /\ UNCHANGED <<driverVars, uioVars, dmaVars, user>>
  \/ user = "uca" /\ DriverNext /\ UNCHANGED <<vars, uioVars, dmaVars, user>>
  \/ user = "uio" /\ UioNext /\ UNCHANGED <<vars, driverVars, dmaVars, user>>
  \/ user = "dma" /\ DmaNext /\ UNCHANGED <<vars, driverVars, uioVars, user>>

\* The processor runs nothing but the program.
RegistersSpec == RegistersInit /\ [][RegistersNext]_allVars /\ WF_allVars(GemmaStep)

\* main returns, however long the NPU stays busy.
MainReturns == user = "gemma" ~> at = "returned"
=============================================================================
