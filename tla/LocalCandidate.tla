--------------------------- MODULE LocalCandidate ---------------------------
(***************************************************************************)
(* scripts/v002/run-local-candidate.sh: the local checks of a v002         *)
(* candidate, their verdicts, and the hand-off files for the board.     *)
(*                                                                         *)
(* A check is a command run by run_logged or run_shell; a step is a        *)
(* function run by run_step, and its return code decides whether the step  *)
(* is counted as passed or failed.  The two are kept apart here because    *)
(* the code keeps them apart: both runners read `$?` after the `if` whose  *)
(* condition was the command, where it is 0, so they return 0 whatever the *)
(* command did, and neither run_step nor `|| return` ever sees a failure.  *)
(* The evidence directory is named by --run-id or the environment and may  *)
(* hold the files of an earlier run.                                       *)
(***************************************************************************)
EXTENDS HandoffTools, Sequences

VARIABLES
  options,    \* the effective command line
  tools,      \* which of the optional tools the machine has
  pending,    \* the steps still to run, in order
  check,      \* per check: the "result:" line of summary.txt
  recorded,   \* the checks in failed-commands.txt
  passed,     \* PASSED_STEPS
  failed,     \* FAILED_STEPS
  handoff,    \* RUNTIME_HANDOFF_STATUS
  files,      \* program.json, program.memh and handoff.json
  exitStatus  \* exit_status of the footer, "none" while running

candidateVars == <<options, tools, pending, check, recorded, passed, failed, handoff, files, exitStatus>>

RuntimeChecks == {"runtime_smoke_generate", "runtime_smoke_json",
                  "runtime_handoff_generate", "runtime_handoff_json"}

QuickSims == <<"xsim_list", "xsim_shape_const_ram", "xsim_mem_dispatcher_shape_lookup",
               "xsim_v002_runtime_smoke_program">>
FullSims  == <<"xsim_fmap_staggered_delay", "xsim_full_regression">>
Vivado    == <<"vivado_filelist_compile", "npu_core_wrapper_elab">>

Elements(s) == {s[i] : i \in 1..Len(s)}

SingleChecks == {"bash_syntax"} \cup Elements(QuickSims \o FullSims)
Checks == SingleChecks \cup RuntimeChecks \cup Elements(Vivado)
Steps  == SingleChecks \cup Elements(Vivado) \cup {"runtime_dry_run"}

Options == [full : BOOLEAN, vivado : BOOLEAN, dryRun : BOOLEAN, handoff : BOOLEAN, only : BOOLEAN]

(* What an earlier run may have left: nothing, the files of a shorter      *)
(* program, or what an interrupted run makes of those.                     *)
Earlier ==
  LET words == Front(SmokeWords)
      whole(claims) == [program |-> ProgramJson(words, claims), memh |-> Memh(words),
                        handoff |-> Handoff(words, claims)]
  IN {[f \in {"program", "memh", "handoff"} |-> Absent], whole(FALSE), whole(TRUE),
      [whole(FALSE) EXCEPT !.memh = Memh(SmokeWords), !.program = Torn]}

(* The steps a command line asks for. *)
Plan(o) ==
  IF o.only THEN <<"runtime_dry_run">>
            ELSE <<"bash_syntax", "runtime_dry_run">> \o QuickSims
                 \o (IF o.full THEN FullSims ELSE <<>>) \o Vivado

CandidateInit ==
  /\ options \in {o \in Options : o.only => o.dryRun /\ ~o.full /\ ~o.vivado}
  /\ tools \in BOOLEAN
  /\ pending = Plan(options)
  /\ check = [c \in Checks |-> "none"]
  /\ recorded = {} /\ passed = {} /\ failed = {}
  /\ handoff = "disabled"
  /\ files \in Earlier
  /\ exitStatus = "none"

-----------------------------------------------------------------------------
Verdict(ok) == IF ok THEN "PASS" ELSE "FAIL"

(* A check that failed is in failed-commands.txt.  `verdicts` maps the     *)
(* checks a step ran to how they ended.                                    *)
Logged_OnlyLast(verdicts) ==
  /\ check' = [c \in Checks |-> IF c \in DOMAIN verdicts THEN verdicts[c] ELSE check[c]]
  /\ recorded' = {c \in DOMAIN verdicts : verdicts[c] = "FAIL"}

Logged(verdicts) ==
  /\ check' = [c \in Checks |-> IF c \in DOMAIN verdicts THEN verdicts[c] ELSE check[c]]
  /\ recorded' = recorded \cup {c \in DOMAIN verdicts : verdicts[c] = "FAIL"}

(* run_step with a function that returns `code`. *)
CountStep(code) ==
  /\ pending' = Tail(pending)
  /\ passed' = IF code = 0 THEN passed \cup {Head(pending)} ELSE passed
  /\ failed' = IF code = 0 THEN failed ELSE failed \cup {Head(pending)}

(* What run_logged and run_shell return for a command that ended so. *)
ReturnCode(verdict) == 0

RunCheck ==
  /\ pending # <<>>
  /\ LET step == Head(pending) IN
       /\ step \in SingleChecks
       /\ \E ok \in BOOLEAN :
            /\ Logged([c \in {step} |-> Verdict(ok)])
            /\ CountStep(ReturnCode(Verdict(ok)))
  /\ UNCHANGED <<options, tools, handoff, files, exitStatus>>

(* xvlog and xelab: skipped when switched off or not installed, and then   *)
(* counted as passed.                                                      *)
RunOptional ==
  /\ pending # <<>>
  /\ LET step == Head(pending) IN
       /\ step \in Elements(Vivado)
       /\ \E verdict \in IF options.vivado /\ tools THEN {"PASS", "FAIL"} ELSE {"SKIP"} :
            /\ Logged([c \in {step} |-> verdict])
            /\ CountStep(ReturnCode(verdict))
  /\ UNCHANGED <<options, tools, handoff, files, exitStatus>>

(* run_runtime_dry_run with no part of it enabled. *)
RuntimeDisabled ==
  /\ handoff' = "disabled"
  /\ Logged([c \in {"runtime_smoke_generate"} |-> "SKIP"])
  /\ UNCHANGED files

(* The smoke program and, unless that is switched off, the hand-off made   *)
(* from it. Each command runs whether or not the one before it failed. The *)
(* claims are read last, from the file that is there: if it cannot be      *)
(* read they do not read as "none".                                        *)
RuntimeHandoff ==
  \E smoke \in GenerateSmokeProgram(files) : \E made \in GenerateDriverHandoff(smoke.files) :
    /\ Logged([c \in RuntimeChecks |->
                 Verdict(CASE c = "runtime_smoke_generate"   -> smoke.ok
                           [] c = "runtime_smoke_json"       -> Readable(smoke.files.program)
                           [] c = "runtime_handoff_generate" -> made.ok
                           [] c = "runtime_handoff_json"     -> Readable(made.files.handoff))])
    /\ files' = made.files
    /\ handoff' = IF Readable(files'.handoff) /\ ~files'.handoff.claims
                  THEN "ready" ELSE "unsupported_claims"

RuntimeProgramOnly ==
  \E smoke \in GenerateSmokeProgram(files) :
    /\ Logged([c \in {"runtime_smoke_generate", "runtime_smoke_json"} |->
                 Verdict(IF c = "runtime_smoke_generate" THEN smoke.ok
                         ELSE Readable(smoke.files.program))])
    /\ files' = smoke.files
    /\ handoff' = "disabled"

RunRuntimeDryRun ==
  /\ pending # <<>>
  /\ Head(pending) = "runtime_dry_run"
  /\ \/ ~options.dryRun /\ RuntimeDisabled
     \/ options.dryRun /\ options.handoff /\ RuntimeHandoff
     \/ options.dryRun /\ ~options.handoff /\ RuntimeProgramOnly
  /\ CountStep(0)
  /\ UNCHANGED <<options, tools, exitStatus>>

WriteFooter ==
  /\ pending = <<>>
  /\ exitStatus = "none"
  /\ exitStatus' = IF failed = {} THEN "PASS" ELSE "FAIL"
  /\ UNCHANGED <<options, tools, pending, check, recorded, passed, failed, handoff, files>>

CandidateNext == RunCheck \/ RunOptional \/ RunRuntimeDryRun \/ WriteFooter

-----------------------------------------------------------------------------
(* Properties.                                                             *)

\* failed-commands.txt names exactly the checks with a FAIL line, and every
\* step of the plan has been counted once when the footer is written: with
\* the verdict of the footer wrong, these two files are what is left to read.
FailuresOnRecord ==
  /\ recorded = {c \in Checks : check[c] = "FAIL"}
  /\ exitStatus # "none" =>
       /\ passed \cup failed = Elements(Plan(options))
       /\ passed \cap failed = {}

\* A hand-off reported ready can be read and claims nothing. If this run
\* made it, it writes the words that program.json and program.memh both hold,
\* in order, and then the kick, whatever files were there before and wherever
\* the generators stopped; and if this run made the program, those are the
\* words that the uCA driver would issue. (An earlier hand-off is reported
\* ready too when the generator fails: see FailureFailsTheRun.)
HandoffIsWhole ==
  /\ handoff = "ready" => Readable(files.handoff) /\ ~files.handoff.claims
  /\ check["runtime_handoff_generate"] = "PASS" =>
       /\ files.handoff.writes = RegisterWrites(files.memh.words)
       /\ files.program.words = files.memh.words
       /\ check["runtime_smoke_generate"] = "PASS" => files.memh.words = DriverWords

\* A failed check fails the run.  (docs/SIMULATION.md on the runner the
\* simulation steps call.)
FailureFailsTheRun == (exitStatus = "PASS") => \A c \in Checks : check[c] # "FAIL"

=============================================================================
