----------------------------- MODULE BoardSmoke -----------------------------
(***************************************************************************)
(* The KV260 smoke runner, scripts/kv260/run_gemma3n_e4b_smoke.sh: a host  *)
(* script that validates its inputs, prepares the board over ssh, runs a   *)
(* second script on the board, fetches the result and writes the evidence  *)
(* directory.                                                              *)
(*                                                                         *)
(* Both scripts are modelled step by step, because the evidence they leave *)
(* is shared: PCCX_RUN_ID gives several runs one evidence directory on the *)
(* host and one run directory on the board, and neither script empties     *)
(* them.  When the ssh connection breaks, the board's script keeps running *)
(* (its output goes to files) while the next run is already started.       *)
(*                                                                         *)
(* The host script runs under `set -e`.  Its ssh helper switches errexit   *)
(* off and on again around ssh, so a call that is not the condition of an  *)
(* `if` ends the script when ssh fails: the call that runs the board's     *)
(* script (line 990) is such a call.                                       *)
(***************************************************************************)
EXTENDS Naturals

CONSTANTS
  MaxRuns       \* bound: how often the runner is started

ASSUME RunnerAssumption == MaxRuns \in Nat \ {0}

Runs == 1..MaxRuns

None == [status |-> "none", run |-> 0]

Inputs == {"none", "BLOCKED_BOARD", "BLOCKED_MODEL", "BLOCKED_BITSTREAM", "BLOCKED_RUNTIME"}

(* What a run is started with: the environment and the files of the host.  *)
(* `missing` is the status the first missing variable stands for.          *)
Setups == [dry : BOOLEAN, handoff : {"none", "absent", "invalid", "valid"},
           missing : Inputs, tokensValid : BOOLEAN,
           modelOnHost : BOOLEAN, stageModel : BOOLEAN,
           bitstreamOnHost : BOOLEAN, skipLoad : BOOLEAN]

Statuses == {"PASS_KV260_NPU", "PASS_KV260_FALLBACK", "PASS_DRY_RUN_READY",
             "READY_FOR_BOARD_INPUTS", "BLOCKED_BOARD_INPUTS", "BLOCKED_BOARD",
             "BLOCKED_MODEL", "BLOCKED_BITSTREAM", "BLOCKED_RUNTIME", "BLOCKED_RTL"}

Points == {"idle", "start", "probe", "mkdir", "model", "modelFiles", "bitstream",
           "load", "stageRunner", "remote", "fetch", "evaluate", "ended"}

VARIABLES
  run,        \* the run the host script is in (0 before the first)
  at,         \* where the host script is
  dir,        \* per run: its directory, on the host and on the board
  setup,      \* what the current run was started with
  exit,       \* exit code of the current run
  touched,    \* the current run has opened an ssh connection
  summary,    \* per directory: summary.txt, its status and the run that wrote it
  blocker,    \* per directory: blocker.txt
  fetched,    \* per directory: remote_result.env, the host's copy
  result,     \* per directory: result.env on the board
  remote,     \* per run: where its script on the board is
  npu,        \* per run: what its NPU runner did
  pl          \* the run that last programmed the PL

boardVars == <<result, remote, npu, pl>>
evidence  == <<summary, blocker, fetched>>
smokeVars == <<run, at, dir, setup, exit, touched, evidence, boardVars>>

RemotePoints == {"off", "npu", "transformers", "llama", "passed", "blocked"}
NpuOutcomes  == {"none", "absent", "passed", "failed", "BLOCKED_RTL", "BLOCKED_RUNTIME"}

Dir(r) == dir[r]

SmokeInit ==
  /\ dir = [r \in Runs |-> r]
  /\ run = 0 /\ at = "idle" /\ exit = 0 /\ touched = FALSE
  /\ setup = CHOOSE s \in Setups : TRUE          \* replaced by Start
  /\ summary = [d \in Runs |-> None]
  /\ blocker = [d \in Runs |-> None]
  /\ fetched = [d \in Runs |-> None]
  /\ result  = [d \in Runs |-> None]
  /\ remote = [r \in Runs |-> "off"]
  /\ npu    = [r \in Runs |-> "none"]
  /\ pl = 0

-----------------------------------------------------------------------------
(* How the host script ends.  A conjunct of every action that ends it.     *)

(* finish: summary.txt is written, then the script exits. *)
Finish(status, code) ==
  /\ summary' = [summary EXCEPT ![Dir(run)] = [status |-> status, run |-> run]]
  /\ exit' = code
  /\ at' = "ended"

WriteBlocker(status) ==
  blocker' = [blocker EXCEPT ![Dir(run)] = [status |-> status, run |-> run]]

BlockWith(status) == WriteBlocker(status) /\ Finish(status, 2)

DryRunBlocked == WriteBlocker("BLOCKED_BOARD_INPUTS") /\ Finish("BLOCKED_BOARD_INPUTS", 0)

(* errexit: nothing is written.  42 stands for any nonzero code of ssh. *)
Dies == exit' = 42 /\ at' = "ended" /\ UNCHANGED <<summary, blocker>>

GoTo(p) == at' = p /\ UNCHANGED <<exit, summary, blocker>>

-----------------------------------------------------------------------------
(* Before the board is contacted.                                          *)

(* PCCX_RUN_ID may name the directory of an earlier run.                   *)
Start ==
  /\ at \in {"idle", "ended"}
  /\ run < MaxRuns
  /\ run' = run + 1
  /\ \E d \in 1..run' : dir' = [dir EXCEPT ![run'] = d]
  /\ setup' \in Setups
  /\ touched' = FALSE
  /\ exit' = 0
  /\ at' = "start"
  /\ UNCHANGED <<evidence, boardVars>>

(* --dry-run with a handoff artifact: validated, and never more than that. *)
ValidateRuntimeHandoffDryRun ==
  IF setup.handoff = "valid"
    THEN Finish("READY_FOR_BOARD_INPUTS", 0) /\ UNCHANGED blocker
    ELSE DryRunBlocked

(* The missing variables, then the token count, then the dry run's end. *)
CheckInputs ==
  IF setup.missing # "none" \/ ~setup.tokensValid
    THEN IF setup.dry
           THEN DryRunBlocked
           ELSE BlockWith(IF setup.missing # "none" THEN setup.missing ELSE "BLOCKED_RUNTIME")
    ELSE IF setup.dry
           THEN WriteBlocker("PASS_DRY_RUN_READY") /\ Finish("PASS_DRY_RUN_READY", 0)
           ELSE GoTo("probe")

Validate ==
  /\ at = "start"
  /\ IF setup.dry /\ setup.handoff # "none"
       THEN ValidateRuntimeHandoffDryRun
       ELSE CheckInputs
  /\ UNCHANGED <<run, dir, setup, touched, fetched, boardVars>>

-----------------------------------------------------------------------------
(* Preparing the board.  Every ssh or copy may fail (`ok`).                *)

Probe ==
  /\ at = "probe"
  /\ touched' = TRUE
  /\ \E ok \in BOOLEAN : IF ok THEN GoTo("mkdir") ELSE BlockWith("BLOCKED_BOARD")
  /\ UNCHANGED <<run, dir, setup, fetched, boardVars>>

MakeRunDir ==
  /\ at = "mkdir"
  /\ \E ok \in BOOLEAN : IF ok THEN GoTo("model") ELSE BlockWith("BLOCKED_RUNTIME")
  /\ UNCHANGED <<run, dir, setup, touched, fetched, boardVars>>

(* The model is on the board, or is staged there when that is asked for. *)
FindModel ==
  /\ at = "model"
  /\ \E onBoard, staged \in BOOLEAN :
       IF onBoard \/ (setup.modelOnHost /\ setup.stageModel /\ staged)
         THEN GoTo("modelFiles")
         ELSE BlockWith("BLOCKED_MODEL")
  /\ UNCHANGED <<run, dir, setup, touched, fetched, boardVars>>

CheckModelFiles ==
  /\ at = "modelFiles"
  /\ \E ok \in BOOLEAN : IF ok THEN GoTo("bitstream") ELSE BlockWith("BLOCKED_MODEL")
  /\ UNCHANGED <<run, dir, setup, touched, fetched, boardVars>>

(* A bitstream of the host is copied; otherwise it must be on the board. *)
FindBitstream ==
  /\ at = "bitstream"
  /\ \E copied, onBoard \in BOOLEAN :
       IF (setup.bitstreamOnHost /\ copied) \/ (~setup.bitstreamOnHost /\ onBoard)
         THEN GoTo("load")
         ELSE BlockWith("BLOCKED_BITSTREAM")
  /\ UNCHANGED <<run, dir, setup, touched, fetched, boardVars>>

LoadBitstream ==
  /\ at = "load"
  /\ \/ /\ setup.skipLoad
        /\ GoTo("stageRunner")
        /\ UNCHANGED pl
     \/ /\ ~setup.skipLoad
        /\ \E ok \in BOOLEAN :
             IF ok THEN pl' = run /\ GoTo("stageRunner")
                   ELSE UNCHANGED pl /\ BlockWith("BLOCKED_BITSTREAM")
  /\ UNCHANGED <<run, dir, setup, touched, fetched, result, remote, npu>>

StageRunner ==
  /\ at = "stageRunner"
  /\ \E ok \in BOOLEAN : IF ok THEN GoTo("remote") ELSE BlockWith("BLOCKED_RUNTIME")
  /\ UNCHANGED <<run, dir, setup, touched, fetched, boardVars>>

-----------------------------------------------------------------------------
(* The script on the board.                                                *)

WriteResult(r, status) ==
  result' = [result EXCEPT ![Dir(r)] = [status |-> status, run |-> r]]

(* A step that has not passed goes on to the next runtime, unless the      *)
(* result file, whoever wrote it, says BLOCKED_RUNTIME.                    *)
FallThrough(r, next) ==
  remote' = [remote EXCEPT ![r] =
               IF result'[Dir(r)].status = "BLOCKED_RUNTIME" THEN "blocked" ELSE next]

SshStarts ==
  /\ at = "remote"
  /\ remote[run] = "off"
  /\ remote' = [remote EXCEPT ![run] = "npu"]
  /\ UNCHANGED <<run, at, dir, setup, exit, touched, evidence, result, npu, pl>>

(* run_npu_candidate: a runner that reports a BLOCKED_ status is believed, *)
(* one that fails or reports no token count is BLOCKED_RUNTIME, and a      *)
(* board without a runner leaves the result file alone.                    *)
RunNpuCandidate(r) ==
  /\ remote[r] = "npu"
  /\ \E o \in NpuOutcomes \ {"none"} :
       /\ npu' = [npu EXCEPT ![r] = o]
       /\ \/ /\ o = "passed"
             /\ WriteResult(r, "PASS_KV260_NPU")
             /\ remote' = [remote EXCEPT ![r] = "passed"]
          \/ /\ o = "absent"
             /\ UNCHANGED result
             /\ FallThrough(r, "transformers")
          \/ /\ o \in {"failed", "BLOCKED_RTL", "BLOCKED_RUNTIME"}
             /\ WriteResult(r, IF o = "failed" THEN "BLOCKED_RUNTIME" ELSE o)
             /\ FallThrough(r, "transformers")
  /\ UNCHANGED <<run, at, dir, setup, exit, touched, evidence, pl>>

\* The fallback's result is written under the status of an NPU pass.
RunTransformersFallback_SaysNpu(r) ==
  /\ remote[r] = "transformers"
  /\ WriteResult(r, "PASS_KV260_NPU")
  /\ remote' = [remote EXCEPT ![r] = "passed"]
  /\ UNCHANGED <<run, at, dir, setup, exit, touched, evidence, npu, pl>>

RunTransformersFallback(r) ==
  /\ remote[r] = "transformers"
  /\ \/ /\ UNCHANGED result                       \* no python3 on the board
        /\ FallThrough(r, "llama")
     \/ /\ WriteResult(r, "BLOCKED_RUNTIME")
        /\ FallThrough(r, "llama")
     \/ /\ WriteResult(r, "PASS_KV260_FALLBACK")
        /\ remote' = [remote EXCEPT ![r] = "passed"]
  /\ UNCHANGED <<run, at, dir, setup, exit, touched, evidence, npu, pl>>

(* The last runtime: absent, failing or without a count, all end blocked. *)
RunLlamaFallback(r) ==
  /\ remote[r] = "llama"
  /\ \/ /\ WriteResult(r, "BLOCKED_RUNTIME")
        /\ remote' = [remote EXCEPT ![r] = "blocked"]
     \/ /\ WriteResult(r, "PASS_KV260_FALLBACK")
        /\ remote' = [remote EXCEPT ![r] = "passed"]
  /\ UNCHANGED <<run, at, dir, setup, exit, touched, evidence, npu, pl>>

-----------------------------------------------------------------------------
(* Back on the host.                                                       *)

\* errexit is off around the board's script, and its return code is not looked at.
RemoteSmokeReturns_IgnoresCode ==
  /\ at = "remote"
  /\ remote[run] # "off"
  /\ GoTo("fetch")
  /\ UNCHANGED <<run, dir, setup, touched, fetched, boardVars>>

(* ssh returns 0 only when the board's script did; a nonzero return is     *)
(* errexit's, and so is a connection that breaks, which leaves the board's *)
(* script running.                                                         *)
RemoteSmokeReturns ==
  /\ at = "remote"
  /\ \/ remote[run] = "passed" /\ GoTo("fetch")
     \/ Dies
  /\ UNCHANGED <<run, dir, setup, touched, fetched, boardVars>>

(* A fetch that fails is ignored and leaves the host's copy as it was. *)
FetchResult ==
  /\ at = "fetch"
  /\ \E ok \in BOOLEAN :
       fetched' = [fetched EXCEPT ![Dir(run)] =
                     IF ok /\ result[Dir(run)] # None THEN result[Dir(run)] ELSE @]
  /\ GoTo("evaluate")
  /\ UNCHANGED <<run, dir, setup, touched, boardVars>>

\* A result that was not fetched ends the run like a reported block.
Evaluate ==
  /\ at = "evaluate"
  /\ LET status == fetched[Dir(run)].status IN
       \/ status = "none" /\ BlockWith("BLOCKED_RUNTIME")
       \/ /\ status \in {"PASS_KV260_NPU", "PASS_KV260_FALLBACK"}
          /\ Finish(status, 0)
          /\ UNCHANGED blocker
       \/ /\ status = "BLOCKED_RTL"
          /\ Finish(status, 2)
          /\ UNCHANGED blocker
       \/ status = "BLOCKED_RUNTIME" /\ BlockWith(status)
  /\ UNCHANGED <<run, dir, setup, touched, fetched, boardVars>>

SmokeNext ==
  \/ Start \/ Validate \/ Probe \/ MakeRunDir \/ FindModel \/ CheckModelFiles
  \/ FindBitstream \/ LoadBitstream \/ StageRunner \/ SshStarts
  \/ RemoteSmokeReturns \/ FetchResult \/ Evaluate
  \/ \E r \in Runs : RunNpuCandidate(r) \/ RunTransformersFallback(r) \/ RunLlamaFallback(r)

-----------------------------------------------------------------------------
(* Properties.                                                             *)

\* The exit code is earned by the run that exits. Code 0: a dry run never
\* opened a connection, and any other run's own board script passed, with a
\* model, a valid token count and the PL programmed by this run unless that
\* was skipped. Code 2: the run is blocked and leaves a summary.txt of its
\* own and, in a directory no earlier run used, a blocker.txt of its own with
\* the same status. Files of earlier runs, and board scripts that outlived
\* their connection, cannot stand in for it.
ZeroIsEarned ==
  (at = "ended" /\ exit = 0) =>
    IF setup.dry
      THEN ~touched /\ remote[run] = "off" /\ pl # run
      ELSE /\ remote[run] = "passed"
           /\ setup.missing = "none" /\ setup.tokensValid
           /\ setup.skipLoad \/ pl = run

BlockedIsExplained ==
  (at = "ended" /\ exit = 2) =>
    /\ summary[Dir(run)].run = run
    /\ (\A r \in 1..(run - 1) : Dir(r) # Dir(run)) => blocker[Dir(run)] = summary[Dir(run)]

ExitCodeIsEarned == ZeroIsEarned /\ BlockedIsExplained

\* A summary that claims an NPU pass comes from an NPU runner that passed in
\* a run of this directory: its own, unless PCCX_RUN_ID gave several runs one
\* directory.  No fallback and no failed fetch makes such a claim.
NpuPassWasReported ==
  \A d \in Runs :
    summary[d].status = "PASS_KV260_NPU" =>
      \E r \in Runs : Dir(r) = d /\ npu[r] = "passed"

\* Every run that ends has written its summary.txt.  (Step 10 of the
\* evidence flow in docs/KV260_BRINGUP.md.)
SummaryWritten == at = "ended" => summary[Dir(run)].run = run

=============================================================================
