-------------------------- MODULE EvidenceScripts --------------------------
(***************************************************************************)
(* The two scripts that leave evidence of a candidate: the local checks of *)
(* run-local-candidate.sh and the board runs of run_gemma3n_e4b_smoke.sh.  *)
(* They share neither files nor processes: a behaviour runs one of them.   *)
(***************************************************************************)
EXTENDS LocalCandidate, BoardSmoke

VARIABLE script  \* "candidate" or "smoke"

\* The other script has not been started; nothing of its options matters.
ScriptsInit ==
  /\ script \in {"candidate", "smoke"}
  /\ SmokeInit
  /\ CandidateInit
  /\ script = "smoke" => ~tools /\ files.program = Absent
                       /\ options = CHOOSE o \in Options : o.only /\ o.dryRun /\ ~o.full /\ ~o.vivado

ScriptsNext ==
  \/ script = "candidate" /\ CandidateNext /\ UNCHANGED <<script, smokeVars>>
  \/ script = "smoke" /\ SmokeNext /\ UNCHANGED <<script, candidateVars>>

ScriptsSpec == ScriptsInit /\ [][ScriptsNext]_<<script, candidateVars, smokeVars>>
=============================================================================
