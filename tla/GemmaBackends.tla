---------------------------- MODULE GemmaBackends ----------------------------
(***************************************************************************)
(* A GemmaInferenceSession resolves its backend once, when it is built,    *)
(* from what was requested and from what npu_core.py finds of the device   *)
(* and of the environment. From then on every generate() takes the NPU's   *)
(* path, NpuTokenRuntime, or the CPU's, GemmaSession.                      *)
(***************************************************************************)
EXTENDS NpuTokenRuntime, GemmaSession

VARIABLE backend  \* GemmaInferenceSession.backend

Environments == [force_fallback : BOOLEAN, sim_backend : BOOLEAN,
                 token_backend : BOOLEAN, device : BOOLEAN]

\* npu_available: the device is a bitstream that is known and a UIO node
\* that opens.
Available(env) == ~env.force_fallback /\ (env.sim_backend \/ env.device)

\* hardware_results of npu_backend_readiness.
HardwareResults(env) == Available(env) /\ (env.token_backend \/ env.sim_backend)

\* _resolve_backend: the backends a request may end with; a strict request
\* for an NPU that is not there raises.
Resolved(requested, env) ==
  CASE requested = "cpu" -> {"cpu"}
    [] requested = "npu" -> IF HardwareResults(env) THEN {"npu"} ELSE {}
    [] requested = "auto" -> {IF HardwareResults(env) THEN "npu" ELSE "cpu"}

BackendsInit ==
  /\ Init /\ GemmaInit
  /\ \E requested \in {"auto", "cpu", "npu"}, env \in Environments :
       backend \in Resolved(requested, env)

BackendsNext ==
  /\ \/ backend = "npu" /\ Next /\ UNCHANGED gemmaVars
     \/ backend = "cpu" /\ GemmaNext /\ UNCHANGED vars
  /\ UNCHANGED backend

BackendsSpec == BackendsInit /\ [][BackendsNext]_<<vars, gemmaVars, backend>>
=============================================================================
