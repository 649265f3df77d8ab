------------------------ MODULE EvidenceScriptsProofs ------------------------
(***************************************************************************)
(* Proofs about the evidence scripts, for every number of board runs and   *)
(* every way they share directories.                                       *)
(*                                                                         *)
(* The properties of BoardSmoke speak of the end of a run; what they rest  *)
(* on is what held on the way there.  SmokeInv adds who may have written   *)
(* each of the files of a directory (Claims, Known), what the host script  *)
(* has established at each of its points (Here), what the scripts on the   *)
(* board can have done by then (Untried), and that a run alone in its      *)
(* directory finds nothing there but its own (Fresh).                      *)
(*                                                                         *)
(* CandidateInv is what makes failed-commands.txt complete: a step still   *)
(* to be run waits once and none of its checks has a verdict, so that no   *)
(* verdict is overwritten by a later one.                                  *)
(*                                                                         *)
(* HandoffInv is about the files of the hand-off. Only their types have to *)
(* be added to HandoffIsWhole: that two files of equal length and with the *)
(* same words are equal needs both to be sequences. What is left is that   *)
(* the tools and the driver encode alike, for which nothing but the five   *)
(* opcodes and the field the driver lacks has to be computed.              *)
(***************************************************************************)
EXTENDS EvidenceScripts, SequenceTheorems, TLAPS

-----------------------------------------------------------------------------
(* BoardSmoke. Who wrote what, and where the host script is.               *)

Notes == [status : Statuses \cup {"none"}, run : 0 .. MaxRuns]
Passes == {"PASS_KV260_NPU", "PASS_KV260_FALLBACK"}
Preparing == {"probe", "mkdir", "model", "modelFiles", "bitstream", "load"}
Loaded == {"stageRunner", "remote"}
Back == {"fetch", "evaluate"}

SmokeTypes ==
  /\ run \in 0 .. MaxRuns /\ at \in Points /\ dir \in [Runs -> Runs] /\ setup \in Setups
  /\ summary \in [Runs -> Notes] /\ blocker \in [Runs -> Notes] /\ fetched \in [Runs -> Notes]
  /\ result \in [Runs -> Notes] /\ remote \in [Runs -> RemotePoints] /\ npu \in [Runs -> NpuOutcomes]
  /\ pl \in 0 .. run

\* A run that has not started did nothing, and an NPU that passed ended the
\* script on the board.
Untried ==
  \A r \in Runs : /\ r > run => remote[r] = "off" /\ npu[r] = "none"
                  /\ npu[r] = "passed" => remote[r] = "passed"

\* Every claim of an NPU pass, in whatever file, was reported in its directory.
Reported(note, d) == note.status = "PASS_KV260_NPU" => \E r \in Runs : dir[r] = d /\ npu[r] = "passed"
Claims == \A d \in Runs : Reported(summary[d], d) /\ Reported(fetched[d], d) /\ Reported(result[d], d)

Known == \A d \in Runs : fetched[d] # None => \E r \in 1 .. run : dir[r] = d

\* What the current run relies on at each point.
Here ==
  /\ at # "idle" => run \in Runs
  /\ at = "start" => ~touched /\ remote[run] = "off" /\ pl # run
  /\ at \in Preparing \cup Loaded \cup Back => ~setup.dry /\ setup.missing = "none" /\ setup.tokensValid
  /\ at \in Preparing \cup {"stageRunner"} => remote[run] = "off"
  /\ at \in Loaded \cup Back => setup.skipLoad \/ pl = run
  /\ at \in Back => remote[run] = "passed"

\* In a directory of its own, a run finds nothing but what it made.
Alone == \A r \in 1 .. run - 1 : dir[r] # dir[run]
Fresh ==
  run \in Runs /\ Alone =>
    /\ at \notin {"evaluate", "ended"} => fetched[dir[run]] = None
    /\ at = "evaluate" => fetched[dir[run]] = None \/ fetched[dir[run]].status \in Passes
    /\ remote[run] = "passed" => result[dir[run]].status \in Passes

SmokeInv == SmokeTypes /\ Untried /\ Claims /\ Known /\ Here /\ Fresh /\ ExitCodeIsEarned

LEMMA RunsAre == MaxRuns \in Nat /\ Runs = 1 .. MaxRuns /\ None \in Notes
  BY RunnerAssumption DEF Runs, None, Notes

LEMMA SmokeInvInit == SmokeInit => SmokeInv
  <1> SUFFICES ASSUME SmokeInit PROVE SmokeInv
    OBVIOUS
  <1>1. setup \in Setups
    <2>1. [dry |-> TRUE, handoff |-> "none", missing |-> "none", tokensValid |-> TRUE,
           modelOnHost |-> TRUE, stageModel |-> TRUE, bitstreamOnHost |-> TRUE,
           skipLoad |-> TRUE] \in Setups
      BY DEF Setups, Inputs
    <2>2. \E s \in Setups : TRUE
      BY <2>1
    <2> QED
      BY <2>2 DEF SmokeInit
  <1>2. SmokeTypes
    <2>1. run \in 0 .. MaxRuns /\ at \in Points /\ dir \in [Runs -> Runs] /\ pl \in 0 .. run
      BY RunsAre DEF SmokeInit, Points
    <2>2. remote \in [Runs -> RemotePoints] /\ npu \in [Runs -> NpuOutcomes]
      BY DEF SmokeInit, RemotePoints, NpuOutcomes
    <2>3. /\ summary \in [Runs -> Notes] /\ blocker \in [Runs -> Notes] /\ fetched \in [Runs -> Notes]
          /\ result \in [Runs -> Notes]
      BY RunsAre DEF SmokeInit
    <2> QED
      BY <1>1, <2>1, <2>2, <2>3 DEF SmokeTypes
  <1>3. Untried /\ Known /\ Here
    BY DEF SmokeInit, Untried, Known, Here, Preparing, Loaded, Back
  <1>4. Claims
    BY DEF SmokeInit, Claims, Reported, None
  <1>5. Fresh
    BY RunsAre DEF SmokeInit, Fresh
  <1>6. ExitCodeIsEarned
    BY DEF SmokeInit, ExitCodeIsEarned, ZeroIsEarned, BlockedIsExplained
  <1> QED
    BY <1>2, <1>3, <1>4, <1>5, <1>6 DEF SmokeInv

-----------------------------------------------------------------------------
(* Steps of the host script.                                               *)

\* On to the next point.
LEMMA GoesOn ==
  ASSUME SmokeInv, NEW p \in Points \ {"idle", "evaluate", "ended"}, GoTo(p),
         at \notin {"idle", "evaluate", "ended"},
         UNCHANGED <<run, dir, setup, fetched, result, remote, npu>>, pl' \in 0 .. run, Here'
  PROVE  SmokeInv'
  <1>1. at' = p /\ UNCHANGED <<summary, blocker>>
    BY DEF GoTo
  <1>2. SmokeTypes'
    BY <1>1 DEF SmokeInv, SmokeTypes
  <1>3. Untried' /\ Known'
    BY DEF SmokeInv, Untried, Known
  <1>4. Claims'
    BY <1>1 DEF SmokeInv, Claims, Reported
  <1>5. Fresh'
    BY <1>1 DEF SmokeInv, Fresh, Alone
  <1>6. ExitCodeIsEarned'
    BY <1>1 DEF ExitCodeIsEarned, ZeroIsEarned, BlockedIsExplained
  <1> QED
    BY <1>2, <1>3, <1>4, <1>5, <1>6 DEF SmokeInv

\* The run ends; what it leaves is explained by `sound`.
LEMMA EndsRun ==
  ASSUME SmokeInv, at \notin {"idle", "ended"}, at' = "ended",
         UNCHANGED <<run, dir, setup, fetched, result, remote, npu>>, pl' \in 0 .. run,
         summary' \in [Runs -> Notes], blocker' \in [Runs -> Notes],
         \A d \in Runs : Reported(summary'[d], d), ExitCodeIsEarned'
  PROVE  SmokeInv'
  <1>1. SmokeTypes'
    BY DEF SmokeInv, SmokeTypes, Points
  <1>2. Untried' /\ Known'
    BY DEF SmokeInv, Untried, Known
  <1>3. Claims'
    BY DEF SmokeInv, Claims, Reported
  <1>4. Fresh'
    BY DEF SmokeInv, Fresh, Alone
  <1>5. Here'
    BY DEF SmokeInv, Here, Preparing, Loaded, Back
  <1> QED
    BY <1>1, <1>2, <1>3, <1>4, <1>5 DEF SmokeInv

LEMMA NoteIs ==
  ASSUME SmokeInv, at # "idle", NEW status \in Statuses
  PROVE  /\ run \in Runs /\ dir[run] \in Runs
         /\ [status |-> status, run |-> run] \in Notes
         /\ [summary EXCEPT ![Dir(run)] = [status |-> status, run |-> run]] \in [Runs -> Notes]
         /\ [blocker EXCEPT ![Dir(run)] = [status |-> status, run |-> run]] \in [Runs -> Notes]
  BY RunsAre DEF SmokeInv, SmokeTypes, Here, Notes, Dir, Runs

\* A status that claims no NPU pass, or one the host fetched.
LEMMA SummaryIs ==
  ASSUME SmokeInv, at # "idle", NEW status \in Statuses,
         status # "PASS_KV260_NPU" \/ status = fetched[dir[run]].status,
         summary' = [summary EXCEPT ![Dir(run)] = [status |-> status, run |-> run]]
  PROVE  /\ summary' \in [Runs -> Notes] /\ summary'[dir[run]] = [status |-> status, run |-> run]
         /\ \A d \in Runs : Reported(summary'[d], d)
  <1>1. run \in Runs /\ dir[run] \in Runs /\ summary \in [Runs -> Notes] /\ summary' \in [Runs -> Notes]
    BY NoteIs DEF SmokeInv, SmokeTypes
  <1>2. summary'[dir[run]] = [status |-> status, run |-> run]
    BY <1>1 DEF Dir
  <1>3. Reported(summary'[dir[run]], dir[run])
    <2>1. CASE status # "PASS_KV260_NPU"
      BY <1>2, <2>1 DEF Reported
    <2>2. CASE status = fetched[dir[run]].status
      BY <1>1, <1>2, <2>2 DEF Reported, SmokeInv, Claims
    <2> QED
      BY <2>1, <2>2
  <1>4. ASSUME NEW d \in Runs, d # dir[run] PROVE Reported(summary'[d], d)
    <2>1. summary'[d] = summary[d]
      BY <1>1, <1>4 DEF Dir
    <2> QED
      BY <2>1 DEF SmokeInv, Claims
  <1> QED
    BY <1>1, <1>2, <1>3, <1>4

LEMMA Blocked ==
  ASSUME SmokeInv, at \notin {"idle", "ended"}, NEW status \in Statuses, status # "PASS_KV260_NPU",
         BlockWith(status), UNCHANGED <<run, dir, setup, fetched, result, remote, npu>>, pl' \in 0 .. run
  PROVE  SmokeInv'
  <1>1. /\ at' = "ended" /\ exit' = 2
        /\ summary' = [summary EXCEPT ![Dir(run)] = [status |-> status, run |-> run]]
        /\ blocker' = [blocker EXCEPT ![Dir(run)] = [status |-> status, run |-> run]]
    BY DEF BlockWith, WriteBlocker, Finish
  <1>2. /\ summary' \in [Runs -> Notes] /\ summary'[dir[run]] = [status |-> status, run |-> run]
        /\ \A d \in Runs : Reported(summary'[d], d)
    BY <1>1, SummaryIs
  <1>3. blocker' \in [Runs -> Notes] /\ blocker'[dir[run]] = [status |-> status, run |-> run]
    BY <1>1, NoteIs DEF SmokeInv, SmokeTypes, Dir
  <1>4. summary'[dir[run]].run = run /\ blocker'[dir[run]] = summary'[dir[run]]
    BY <1>2, <1>3
  <1>5. ExitCodeIsEarned'
    BY <1>1, <1>4 DEF ExitCodeIsEarned, ZeroIsEarned, BlockedIsExplained, Dir
  <1> QED
    BY <1>1, <1>2, <1>3, <1>5, EndsRun

LEMMA ProbeStep == ASSUME SmokeInv, Probe PROVE SmokeInv'
  <1>1. /\ at = "probe" /\ UNCHANGED <<run, dir, setup, fetched, result, remote, npu, pl>> /\ pl \in 0 .. run
        /\ GoTo("mkdir") \/ BlockWith("BLOCKED_BOARD")
    BY DEF Probe, boardVars, SmokeInv, SmokeTypes
  <1>2. CASE GoTo("mkdir")
    <2>1. Here'
      BY <1>1, <1>2 DEF GoTo, SmokeInv, Here, Preparing, Loaded, Back
    <2> QED
      BY <1>1, <1>2, <2>1, GoesOn DEF Points
  <1>3. CASE BlockWith("BLOCKED_BOARD")
    BY <1>1, <1>3, Blocked DEF Statuses
  <1> QED
    BY <1>1, <1>2, <1>3

LEMMA MakeRunDirStep == ASSUME SmokeInv, MakeRunDir PROVE SmokeInv'
  <1>1. /\ at = "mkdir" /\ UNCHANGED <<run, dir, setup, fetched, result, remote, npu, pl>> /\ pl \in 0 .. run
        /\ GoTo("model") \/ BlockWith("BLOCKED_RUNTIME")
    BY DEF MakeRunDir, boardVars, SmokeInv, SmokeTypes
  <1>2. CASE GoTo("model")
    <2>1. Here'
      BY <1>1, <1>2 DEF GoTo, SmokeInv, Here, Preparing, Loaded, Back
    <2> QED
      BY <1>1, <1>2, <2>1, GoesOn DEF Points
  <1>3. CASE BlockWith("BLOCKED_RUNTIME")
    BY <1>1, <1>3, Blocked DEF Statuses
  <1> QED
    BY <1>1, <1>2, <1>3

LEMMA FindModelStep == ASSUME SmokeInv, FindModel PROVE SmokeInv'
  <1>1. /\ at = "model" /\ UNCHANGED <<run, dir, setup, fetched, result, remote, npu, pl>> /\ pl \in 0 .. run
        /\ GoTo("modelFiles") \/ BlockWith("BLOCKED_MODEL")
    BY DEF FindModel, boardVars, SmokeInv, SmokeTypes
  <1>2. CASE GoTo("modelFiles")
    <2>1. Here'
      BY <1>1, <1>2 DEF GoTo, SmokeInv, Here, Preparing, Loaded, Back
    <2> QED
      BY <1>1, <1>2, <2>1, GoesOn DEF Points
  <1>3. CASE BlockWith("BLOCKED_MODEL")
    BY <1>1, <1>3, Blocked DEF Statuses
  <1> QED
    BY <1>1, <1>2, <1>3

LEMMA CheckModelFilesStep == ASSUME SmokeInv, CheckModelFiles PROVE SmokeInv'
  <1>1. /\ at = "modelFiles" /\ UNCHANGED <<run, dir, setup, fetched, result, remote, npu, pl>> /\ pl \in 0 .. run
        /\ GoTo("bitstream") \/ BlockWith("BLOCKED_MODEL")
    BY DEF CheckModelFiles, boardVars, SmokeInv, SmokeTypes
  <1>2. CASE GoTo("bitstream")
    <2>1. Here'
      BY <1>1, <1>2 DEF GoTo, SmokeInv, Here, Preparing, Loaded, Back
    <2> QED
      BY <1>1, <1>2, <2>1, GoesOn DEF Points
  <1>3. CASE BlockWith("BLOCKED_MODEL")
    BY <1>1, <1>3, Blocked DEF Statuses
  <1> QED
    BY <1>1, <1>2, <1>3

LEMMA FindBitstreamStep == ASSUME SmokeInv, FindBitstream PROVE SmokeInv'
  <1>1. /\ at = "bitstream" /\ UNCHANGED <<run, dir, setup, fetched, result, remote, npu, pl>> /\ pl \in 0 .. run
        /\ GoTo("load") \/ BlockWith("BLOCKED_BITSTREAM")
    BY DEF FindBitstream, boardVars, SmokeInv, SmokeTypes
  <1>2. CASE GoTo("load")
    <2>1. Here'
      BY <1>1, <1>2 DEF GoTo, SmokeInv, Here, Preparing, Loaded, Back
    <2> QED
      BY <1>1, <1>2, <2>1, GoesOn DEF Points
  <1>3. CASE BlockWith("BLOCKED_BITSTREAM")
    BY <1>1, <1>3, Blocked DEF Statuses
  <1> QED
    BY <1>1, <1>2, <1>3

LEMMA StageRunnerStep == ASSUME SmokeInv, StageRunner PROVE SmokeInv'
  <1>1. /\ at = "stageRunner" /\ UNCHANGED <<run, dir, setup, fetched, result, remote, npu, pl>> /\ pl \in 0 .. run
        /\ GoTo("remote") \/ BlockWith("BLOCKED_RUNTIME")
    BY DEF StageRunner, boardVars, SmokeInv, SmokeTypes
  <1>2. CASE GoTo("remote")
    <2>1. Here'
      BY <1>1, <1>2 DEF GoTo, SmokeInv, Here, Preparing, Loaded, Back
    <2> QED
      BY <1>1, <1>2, <2>1, GoesOn DEF Points
  <1>3. CASE BlockWith("BLOCKED_RUNTIME")
    BY <1>1, <1>3, Blocked DEF Statuses
  <1> QED
    BY <1>1, <1>2, <1>3

\* A run that skips the load leaves the PL as it is; one that does not goes
\* on only when it programmed it.
LEMMA LoadBitstreamStep == ASSUME SmokeInv, LoadBitstream PROVE SmokeInv'
  <1>1. /\ at = "load" /\ UNCHANGED <<run, dir, setup, fetched, result, remote, npu>>
        /\ pl \in 0 .. run /\ run \in 0 .. run
    BY RunsAre DEF LoadBitstream, SmokeInv, SmokeTypes
  <1>2. CASE GoTo("stageRunner") /\ (setup.skipLoad \/ pl' = run) /\ pl' \in {pl, run}
    <2>1. Here'
      BY <1>1, <1>2 DEF GoTo, SmokeInv, Here, Preparing, Loaded, Back
    <2> QED
      BY <1>1, <1>2, <2>1, GoesOn DEF Points
  <1>3. CASE BlockWith("BLOCKED_BITSTREAM") /\ pl' = pl
    BY <1>1, <1>3, Blocked DEF Statuses
  <1> QED
    BY <1>2, <1>3 DEF LoadBitstream

\* A dry run ends before it opened a connection.
LEMMA DryEnds ==
  ASSUME SmokeInv, at = "start", setup.dry, NEW status \in Statuses, status # "PASS_KV260_NPU",
         Finish(status, 0), blocker' \in [Runs -> Notes],
         UNCHANGED <<run, dir, setup, touched, fetched, boardVars>>
  PROVE  SmokeInv'
  <1>1. /\ at' = "ended" /\ exit' = 0
        /\ summary' = [summary EXCEPT ![Dir(run)] = [status |-> status, run |-> run]]
    BY DEF Finish
  <1>2. summary' \in [Runs -> Notes] /\ \A d \in Runs : Reported(summary'[d], d)
    BY <1>1, SummaryIs
  <1>3. ~touched' /\ remote'[run'] = "off" /\ pl' # run' /\ setup'.dry /\ pl' \in 0 .. run
    BY DEF SmokeInv, SmokeTypes, Here, boardVars
  <1>4. ExitCodeIsEarned'
    BY <1>1, <1>3 DEF ExitCodeIsEarned, ZeroIsEarned, BlockedIsExplained
  <1> QED
    BY <1>1, <1>2, <1>3, <1>4, EndsRun DEF boardVars

LEMMA ValidateStep == ASSUME SmokeInv, Validate PROVE SmokeInv'
  <1>0. /\ at = "start" /\ UNCHANGED <<run, dir, setup, touched, fetched, boardVars>>
        /\ setup \in Setups /\ blocker \in [Runs -> Notes] /\ pl' \in 0 .. run
    BY DEF Validate, SmokeInv, SmokeTypes, boardVars
  <1>1. CASE setup.dry
    <2>1. CASE DryRunBlocked
      BY <1>0, <1>1, <2>1, DryEnds, NoteIs DEF DryRunBlocked, WriteBlocker, Statuses
    <2>2. CASE Finish("READY_FOR_BOARD_INPUTS", 0) /\ UNCHANGED blocker
      BY <1>0, <1>1, <2>2, DryEnds DEF Statuses
    <2>3. CASE WriteBlocker("PASS_DRY_RUN_READY") /\ Finish("PASS_DRY_RUN_READY", 0)
      BY <1>0, <1>1, <2>3, DryEnds, NoteIs DEF WriteBlocker, Statuses
    <2> QED
      BY <1>1, <2>1, <2>2, <2>3 DEF Validate, ValidateRuntimeHandoffDryRun, CheckInputs
  <1>2. CASE ~setup.dry
    <2> DEFINE status == IF setup.missing # "none" THEN setup.missing ELSE "BLOCKED_RUNTIME"
    <2>1. CheckInputs
      BY <1>2 DEF Validate
    <2>2. CASE setup.missing # "none" \/ ~setup.tokensValid
      <3>1. BlockWith(status)
        BY <1>2, <2>1, <2>2 DEF CheckInputs
      <3>2. status \in Statuses /\ status # "PASS_KV260_NPU"
        BY <1>0 DEF Setups, Inputs, Statuses
      <3> HIDE DEF status
      <3> QED
        BY <1>0, <3>1, <3>2, Blocked DEF boardVars
    <2>3. CASE ~(setup.missing # "none" \/ ~setup.tokensValid)
      <3>1. GoTo("probe")
        BY <1>2, <2>1, <2>3 DEF CheckInputs
      <3>2. Here'
        BY <1>0, <1>2, <2>3, <3>1 DEF GoTo, SmokeInv, Here, Preparing, Loaded, Back, boardVars
      <3> QED
        BY <1>0, <3>1, <3>2, GoesOn DEF Points, boardVars
    <2> QED
      BY <2>2, <2>3
  <1> QED
    BY <1>1, <1>2

\* A run starts in a directory of its own or in that of an earlier one.
LEMMA StartStep == ASSUME SmokeInv, Start PROVE SmokeInv'
  <1> PICK n \in 0 .. MaxRuns : n = run
    BY DEF SmokeInv, SmokeTypes
  <1>1. /\ at' = "start" /\ run' = n + 1 /\ n < MaxRuns /\ ~touched' /\ exit' = 0 /\ setup' \in Setups
        /\ UNCHANGED <<summary, blocker, fetched, result, remote, npu, pl>>
    BY DEF Start, evidence, boardVars
  <1>2. PICK e \in 1 .. n + 1 : dir' = [dir EXCEPT ![n + 1] = e]
    BY <1>1 DEF Start
  <1>3. n \in Nat /\ n + 1 \in Runs /\ e \in Runs /\ run' \in Runs /\ n + 1 \in 0 .. MaxRuns
    BY <1>1, RunsAre
  <1>4. /\ dir \in [Runs -> Runs] /\ dir' \in [Runs -> Runs] /\ dir'[n + 1] = e
        /\ \A r \in Runs : r # n + 1 => dir'[r] = dir[r]
    BY <1>2, <1>3 DEF SmokeInv, SmokeTypes
  <1>5. remote[n + 1] = "off" /\ npu[n + 1] = "none" /\ pl \in 0 .. n
    BY <1>3 DEF SmokeInv, Untried, SmokeTypes
  <1>6. SmokeTypes'
    <2>1. pl' \in 0 .. run' /\ run' \in 0 .. MaxRuns
      BY <1>1, <1>3, <1>5
    <2> QED
      BY <1>1, <1>4, <2>1 DEF SmokeInv, SmokeTypes, Points
  <1>7. Untried'
    <2>1. \A r \in Runs : r > n + 1 => r > n
      BY <1>3, RunsAre
    <2> QED
      BY <1>1, <2>1 DEF SmokeInv, Untried
  <1>8. Claims'
    <2>1. ASSUME NEW d \in Runs, NEW note, Reported(note, d), note.status = "PASS_KV260_NPU"
          PROVE  \E r \in Runs : dir'[r] = d /\ npu'[r] = "passed"
      <3>1. PICK r \in Runs : dir[r] = d /\ npu[r] = "passed"
        BY <2>1 DEF Reported
      <3>2. dir'[r] = d /\ npu'[r] = "passed"
        BY <1>1, <1>4, <1>5, <3>1
      <3> QED
        BY <3>2
    <2>2. ASSUME NEW d \in Runs
          PROVE  /\ Reported(summary[d], d)' /\ Reported(fetched[d], d)' /\ Reported(result[d], d)'
      <3>1. Reported(summary[d], d) /\ Reported(fetched[d], d) /\ Reported(result[d], d)
        BY DEF SmokeInv, Claims
      <3>2. Reported(summary[d], d)'
        BY <1>1, <2>1, <3>1 DEF Reported
      <3>3. Reported(fetched[d], d)'
        BY <1>1, <2>1, <3>1 DEF Reported
      <3>4. Reported(result[d], d)'
        BY <1>1, <2>1, <3>1 DEF Reported
      <3> QED
        BY <3>2, <3>3, <3>4
    <2> QED
      BY <2>2 DEF Claims
  <1>9. Known'
    <2>1. ASSUME NEW d \in Runs, fetched'[d] # None PROVE \E r \in 1 .. n + 1 : dir'[r] = d
      <3>1. PICK r \in 1 .. n : dir[r] = d
        BY <1>1, <2>1 DEF SmokeInv, Known
      <3>2. r \in 1 .. n + 1 /\ r # n + 1 /\ r \in Runs
        BY <1>1, <3>1, RunsAre
      <3> QED
        BY <1>4, <3>1, <3>2
    <2> QED
      BY <1>1, <2>1 DEF Known
  <1>10. Here'
    <2>1. pl # n + 1
      BY <1>5
    <2> QED
      BY <1>1, <1>3, <1>5, <2>1 DEF Here, Preparing, Loaded, Back
  <1>11. Fresh'
    <2> SUFFICES ASSUME \A r \in 1 .. n : dir'[r] # e PROVE fetched[e] = None
      BY <1>1, <1>4, <1>5 DEF Fresh, Alone
    <2>1. ASSUME fetched[e] # None PROVE FALSE
      <3>1. PICK r \in 1 .. n : dir[r] = e
        BY <1>3, <2>1 DEF SmokeInv, Known
      <3>2. r # n + 1 /\ r \in Runs
        BY <1>1, <3>1, RunsAre
      <3> QED
        BY <1>4, <3>1, <3>2
    <2> QED
      BY <2>1
  <1>12. ExitCodeIsEarned'
    BY <1>1 DEF ExitCodeIsEarned, ZeroIsEarned, BlockedIsExplained
  <1> QED
    BY <1>6, <1>7, <1>8, <1>9, <1>10, <1>11, <1>12 DEF SmokeInv

-----------------------------------------------------------------------------
(* The board's script, and what the host takes from it.                    *)

\* A step of r's script: it is at p, its NPU runner did o, and the result
\* file of its directory holds note.
Moves(r, p, o, note) ==
  /\ remote' = [remote EXCEPT ![r] = p]
  /\ npu' = [npu EXCEPT ![r] = o]
  /\ result' = [result EXCEPT ![dir[r]] = note]

LEMMA BoardStep ==
  ASSUME SmokeInv, UNCHANGED <<run, at, dir, setup, exit, touched, summary, blocker, fetched, pl>>,
         NEW r \in Runs, NEW p \in RemotePoints, NEW o \in NpuOutcomes, NEW note \in Notes, Moves(r, p, o, note),
         p # "off", remote[r] # "passed", remote[r] = "off" => at = "remote" /\ r = run,
         o = "passed" => p = "passed",
         p = "passed" => note.status \in Passes,
         note = result[dir[r]] \/ (note.status = "PASS_KV260_NPU" => o = "passed")
  PROVE  SmokeInv'
  <1>0. /\ remote' = [remote EXCEPT ![r] = p] /\ npu' = [npu EXCEPT ![r] = o]
        /\ result' = [result EXCEPT ![dir[r]] = note] /\ npu[r] # "passed"
    BY DEF Moves, SmokeInv, Untried
  <1>1. /\ remote \in [Runs -> RemotePoints] /\ npu \in [Runs -> NpuOutcomes] /\ dir \in [Runs -> Runs]
        /\ result \in [Runs -> Notes] /\ run \in 0 .. MaxRuns /\ dir[r] \in Runs
    BY DEF SmokeInv, SmokeTypes
  <1>2. /\ remote'[r] = p /\ npu'[r] = o /\ result'[dir[r]] = note
        /\ \A q \in Runs : q # r => remote'[q] = remote[q] /\ npu'[q] = npu[q]
        /\ \A d \in Runs : d # dir[r] => result'[d] = result[d]
    BY <1>0, <1>1
  <1>3. r <= run
    <2>1. r > run => remote[r] = "off"
      BY DEF SmokeInv, Untried
    <2> QED
      BY <1>1, <2>1, RunsAre
  <1>4. SmokeTypes'
    BY <1>0, <1>1 DEF SmokeInv, SmokeTypes
  <1>5. Untried'
    <2>1. ASSUME NEW q \in Runs
          PROVE  /\ q > run => remote'[q] = "off" /\ npu'[q] = "none"
                 /\ npu'[q] = "passed" => remote'[q] = "passed"
      <3>1. CASE q = r
        <4>1. ~(q > run)
          BY <1>1, <1>3, <3>1, RunsAre
        <4> QED
          BY <1>2, <3>1, <4>1
      <3>2. CASE q # r
        BY <1>2, <3>2 DEF SmokeInv, Untried
      <3> QED
        BY <3>1, <3>2
    <2> QED
      BY <2>1 DEF Untried
  <1>6. \A q \in Runs : npu[q] = "passed" => npu'[q] = "passed"
    BY <1>0, <1>2
  <1>7. Claims'
    <2>1. ASSUME NEW d \in Runs, NEW n, Reported(n, d) PROVE n.status = "PASS_KV260_NPU" =>
                   \E q \in Runs : dir'[q] = d /\ npu'[q] = "passed"
      BY <1>6, <2>1 DEF Reported
    <2>2. ASSUME NEW d \in Runs PROVE result'[d].status = "PASS_KV260_NPU" =>
                   \E q \in Runs : dir'[q] = d /\ npu'[q] = "passed"
      <3>1. CASE result'[d] = result[d]
        BY <2>1, <3>1 DEF SmokeInv, Claims
      <3>2. CASE result'[d] # result[d]
        <4>1. d = dir[r] /\ result'[d] = note /\ note # result[dir[r]]
          BY <1>2, <3>2
        <4> QED
          BY <1>2, <4>1
      <3> QED
        BY <3>1, <3>2
    <2>3. ASSUME NEW d \in Runs
          PROVE  Reported(summary[d], d)' /\ Reported(fetched[d], d)' /\ Reported(result[d], d)'
      <3>1. Reported(summary[d], d) /\ Reported(fetched[d], d)
        BY DEF SmokeInv, Claims
      <3>2. Reported(summary[d], d)'
        BY <2>1, <3>1 DEF Reported
      <3>3. Reported(fetched[d], d)'
        BY <2>1, <3>1 DEF Reported
      <3>4. Reported(result[d], d)'
        BY <2>2 DEF Reported
      <3> QED
        BY <3>2, <3>3, <3>4
    <2> QED
      BY <2>3 DEF Claims
  <1>8. Known'
    BY DEF SmokeInv, Known
  <1>9. at \in Preparing \cup {"start", "stageRunner"} => r # run
    BY DEF SmokeInv, Here, Preparing
  <1>10. Here'
    <2>1. at = "start" => remote'[run] = "off"
      BY <1>2, <1>9 DEF SmokeInv, Here
    <2>2. at \in Preparing \cup {"stageRunner"} => remote'[run] = "off"
      <3>1. at \in Preparing \cup {"stageRunner"} => at # "idle"
        BY DEF Preparing
      <3> QED
        BY <1>2, <1>9, <3>1 DEF SmokeInv, Here
    <2>3. at \in Back => remote'[run] = "passed"
      <3>1. at \in Back => run \in Runs /\ remote[run] = "passed"
        BY DEF SmokeInv, Here, Back
      <3> QED
        BY <1>2, <3>1
    <2> QED
      BY <2>1, <2>2, <2>3 DEF SmokeInv, Here
  <1>11. Fresh'
    <2> SUFFICES ASSUME run \in Runs, Alone, remote'[run] = "passed"
                 PROVE  result'[dir[run]].status \in Passes
      BY DEF SmokeInv, Fresh, Alone
    <2>1. CASE r = run
      BY <1>2, <2>1
    <2>2. CASE r # run
      <3>1. r \in 1 .. run - 1
        BY <1>1, <1>3, <2>2, RunsAre
      <3>2. dir[r] # dir[run]
        BY <3>1 DEF Alone
      <3>3. result'[dir[run]] = result[dir[run]] /\ remote[run] = "passed"
        BY <1>1, <1>2, <2>2, <3>2
      <3> QED
        BY <3>3 DEF SmokeInv, Fresh
    <2> QED
      BY <2>1, <2>2
  <1>12. ExitCodeIsEarned'
    <2>1. at = "ended" => run \in Runs
      BY DEF SmokeInv, Here
    <2>2. at = "ended" /\ remote[run] = "off" => remote'[run] = "off"
      <3>1. ASSUME at = "ended", remote[run] = "off" PROVE r # run
        BY <3>1
      <3> QED
        BY <1>2, <2>1, <3>1
    <2>3. at = "ended" /\ remote[run] = "passed" => remote'[run] = "passed"
      BY <1>2, <2>1
    <2>4. ZeroIsEarned'
      BY <2>2, <2>3 DEF SmokeInv, ExitCodeIsEarned, ZeroIsEarned
    <2>5. BlockedIsExplained'
      BY DEF SmokeInv, ExitCodeIsEarned, BlockedIsExplained, Dir
    <2> QED
      BY <2>4, <2>5 DEF ExitCodeIsEarned
  <1> QED
    BY <1>4, <1>5, <1>7, <1>8, <1>10, <1>11, <1>12 DEF SmokeInv

LEMMA SshStartsStep == ASSUME SmokeInv, SshStarts PROVE SmokeInv'
  <1>1. /\ at = "remote" /\ remote[run] = "off" /\ remote' = [remote EXCEPT ![run] = "npu"]
        /\ UNCHANGED <<run, at, dir, setup, exit, touched, summary, blocker, fetched, result, npu, pl>>
    BY DEF SshStarts, evidence
  <1>2. /\ run \in Runs /\ dir[run] \in Runs /\ npu \in [Runs -> NpuOutcomes] /\ result \in [Runs -> Notes]
        /\ npu[run] # "passed"
    BY <1>1 DEF SmokeInv, SmokeTypes, Here, Untried
  <1>3. npu' = [npu EXCEPT ![run] = npu[run]] /\ result' = [result EXCEPT ![dir[run]] = result[dir[run]]]
    BY <1>1, <1>2
  <1>4. npu[run] \in NpuOutcomes /\ result[dir[run]] \in Notes
    BY <1>2
  <1>5. PICK o \in NpuOutcomes : o = npu[run]
    BY <1>4
  <1>6. PICK note \in Notes : note = result[dir[run]]
    BY <1>4
  <1>7. PICK p \in RemotePoints : p = "npu"
    BY DEF RemotePoints
  <1>8. Moves(run, p, o, note) /\ o # "passed" /\ p # "passed" /\ p # "off"
    BY <1>1, <1>2, <1>3, <1>5, <1>6, <1>7 DEF Moves
  <1> QED
    BY <1>1, <1>2, <1>5, <1>6, <1>8, BoardStep

\* What a runtime that was tried leaves in the result file.
Wrote(r, status) == [status |-> status, run |-> r]

LEMMA WroteIsNote ==
  ASSUME SmokeInv, NEW r \in Runs, remote[r] # "off", NEW status \in Statuses
  PROVE  /\ Wrote(r, status) \in Notes /\ Wrote(r, status).status = status
         /\ dir[r] \in Runs /\ npu[r] \in NpuOutcomes /\ result \in [Runs -> Notes]
         /\ result[dir[r]] \in Notes /\ npu \in [Runs -> NpuOutcomes]
  <1>1. /\ npu \in [Runs -> NpuOutcomes] /\ dir \in [Runs -> Runs] /\ result \in [Runs -> Notes]
    BY DEF SmokeInv, SmokeTypes
  <1>2. r \in 0 .. MaxRuns
    BY RunsAre
  <1>3. Wrote(r, status) \in Notes /\ Wrote(r, status).status = status
    BY <1>2 DEF Wrote, Notes
  <1> QED
    BY <1>1, <1>3

\* A runtime that did not pass: it left the file alone or wrote that it is
\* blocked, and the next one is tried unless the file says BLOCKED_RUNTIME.
LEMMA Falls ==
  ASSUME SmokeInv, NEW r \in Runs, remote[r] \notin {"off", "passed"},
         UNCHANGED <<run, at, dir, setup, exit, touched, summary, blocker, fetched, pl>>,
         NEW o \in NpuOutcomes \ {"passed"}, npu' = [npu EXCEPT ![r] = o],
         NEW next \in {"transformers", "llama", "blocked"}, FallThrough(r, next),
         NEW status \in Statuses \ {"PASS_KV260_NPU"},
         UNCHANGED result \/ WriteResult(r, status)
  PROVE  SmokeInv'
  <1>1. PICK p \in {next, "blocked"} : remote' = [remote EXCEPT ![r] = p]
    BY DEF FallThrough
  <1>2. p \in RemotePoints \ {"off"} /\ p # "passed" /\ npu[r] # "passed"
    BY DEF RemotePoints, SmokeInv, Untried
  <1>3. /\ Wrote(r, status) \in Notes /\ Wrote(r, status).status # "PASS_KV260_NPU"
        /\ dir[r] \in Runs /\ result \in [Runs -> Notes] /\ result[dir[r]] \in Notes
    BY WroteIsNote
  <1>4. PICK note \in Notes : /\ result' = [result EXCEPT ![dir[r]] = note]
                              /\ note = result[dir[r]] \/ note.status # "PASS_KV260_NPU"
    <2>1. CASE UNCHANGED result
      <3>1. result' = [result EXCEPT ![dir[r]] = result[dir[r]]]
        BY <1>3, <2>1
      <3> QED
        BY <1>3, <3>1
    <2>2. CASE WriteResult(r, status)
      <3>1. result' = [result EXCEPT ![dir[r]] = Wrote(r, status)]
        BY <2>2 DEF WriteResult, Wrote, Dir
      <3> QED
        BY <1>3, <3>1
    <2> QED
      BY <2>1, <2>2
  <1>5. PICK point \in RemotePoints : point = p
    BY <1>2
  <1>6. Moves(r, point, o, note) /\ point # "passed" /\ point # "off" /\ o \in NpuOutcomes /\ o # "passed"
    BY <1>1, <1>2, <1>4, <1>5 DEF Moves
  <1> QED
    BY <1>2, <1>4, <1>6, BoardStep

\* A runtime that passed: its script on the board ends with its status.
LEMMA PassesOnBoard ==
  ASSUME SmokeInv, NEW r \in Runs, remote[r] \notin {"off", "passed"},
         UNCHANGED <<run, at, dir, setup, exit, touched, summary, blocker, fetched, pl>>,
         NEW o \in NpuOutcomes, npu' = [npu EXCEPT ![r] = o],
         remote' = [remote EXCEPT ![r] = "passed"],
         NEW status \in Passes, status = "PASS_KV260_NPU" => o = "passed", WriteResult(r, status)
  PROVE  SmokeInv'
  <1>1. status \in Statuses
    BY DEF Passes, Statuses
  <1>2. Wrote(r, status) \in Notes /\ Wrote(r, status).status = status
    BY <1>1, WroteIsNote
  <1>3. result' = [result EXCEPT ![dir[r]] = Wrote(r, status)]
    BY DEF WriteResult, Wrote, Dir
  <1>4. PICK note \in Notes : note = Wrote(r, status)
    BY <1>2
  <1>5. PICK p \in RemotePoints : p = "passed"
    BY DEF RemotePoints
  <1>6. Moves(r, p, o, note) /\ note.status = status
    BY <1>2, <1>3, <1>4, <1>5 DEF Moves
  <1> QED
    BY <1>5, <1>6, BoardStep

LEMMA RunNpuCandidateStep == ASSUME SmokeInv, NEW r \in Runs, RunNpuCandidate(r) PROVE SmokeInv'
  <1>1. /\ remote[r] = "npu"
        /\ UNCHANGED <<run, at, dir, setup, exit, touched, summary, blocker, fetched, pl>>
    BY DEF RunNpuCandidate, evidence
  <1>2. PICK o \in NpuOutcomes \ {"none"} :
          /\ npu' = [npu EXCEPT ![r] = o]
          /\ \/ /\ o = "passed" /\ WriteResult(r, "PASS_KV260_NPU")
                /\ remote' = [remote EXCEPT ![r] = "passed"]
             \/ o = "absent" /\ UNCHANGED result /\ FallThrough(r, "transformers")
             \/ /\ o \in {"failed", "BLOCKED_RTL", "BLOCKED_RUNTIME"}
                /\ WriteResult(r, IF o = "failed" THEN "BLOCKED_RUNTIME" ELSE o)
                /\ FallThrough(r, "transformers")
    BY DEF RunNpuCandidate
  <1>3. CASE o = "passed" /\ WriteResult(r, "PASS_KV260_NPU") /\ remote' = [remote EXCEPT ![r] = "passed"]
    BY <1>1, <1>2, <1>3, PassesOnBoard DEF Passes
  <1>4. CASE o = "absent" /\ UNCHANGED result /\ FallThrough(r, "transformers")
    <2>1. PICK status \in Statuses \ {"PASS_KV260_NPU"} : status = "BLOCKED_RUNTIME"
      BY DEF Statuses
    <2> QED
      BY <1>1, <1>2, <1>4, <2>1, Falls
  <1>5. CASE /\ o \in {"failed", "BLOCKED_RTL", "BLOCKED_RUNTIME"} /\ FallThrough(r, "transformers")
             /\ WriteResult(r, IF o = "failed" THEN "BLOCKED_RUNTIME" ELSE o)
    <2>1. PICK status \in Statuses \ {"PASS_KV260_NPU"} :
            status = IF o = "failed" THEN "BLOCKED_RUNTIME" ELSE o
      BY <1>5 DEF Statuses
    <2>2. WriteResult(r, status)
      BY <1>5, <2>1
    <2> QED
      BY <1>1, <1>2, <1>5, <2>2, Falls
  <1> QED
    BY <1>2, <1>3, <1>4, <1>5

\* The fallbacks touch nothing of what the NPU runner did.
LEMMA NpuStays ==
  ASSUME SmokeInv, NEW r \in Runs, remote[r] # "passed", UNCHANGED npu
  PROVE  npu[r] \in NpuOutcomes \ {"passed"} /\ npu' = [npu EXCEPT ![r] = npu[r]]
  BY DEF SmokeInv, SmokeTypes, Untried

LEMMA RunTransformersFallbackStep ==
  ASSUME SmokeInv, NEW r \in Runs, RunTransformersFallback(r) PROVE SmokeInv'
  <1>1. /\ remote[r] = "transformers" /\ UNCHANGED npu
        /\ UNCHANGED <<run, at, dir, setup, exit, touched, summary, blocker, fetched, pl>>
    BY DEF RunTransformersFallback, evidence
  <1>2. PICK o \in NpuOutcomes \ {"passed"} : npu' = [npu EXCEPT ![r] = o]
    BY <1>1, NpuStays
  <1>3. CASE UNCHANGED result /\ FallThrough(r, "llama")
    <2>1. PICK status \in Statuses \ {"PASS_KV260_NPU"} : status = "BLOCKED_RUNTIME"
      BY DEF Statuses
    <2> QED
      BY <1>1, <1>2, <1>3, <2>1, Falls
  <1>4. CASE WriteResult(r, "BLOCKED_RUNTIME") /\ FallThrough(r, "llama")
    BY <1>1, <1>2, <1>4, Falls DEF Statuses
  <1>5. CASE WriteResult(r, "PASS_KV260_FALLBACK") /\ remote' = [remote EXCEPT ![r] = "passed"]
    BY <1>1, <1>2, <1>5, PassesOnBoard DEF Passes
  <1> QED
    BY <1>3, <1>4, <1>5 DEF RunTransformersFallback

LEMMA RunLlamaFallbackStep == ASSUME SmokeInv, NEW r \in Runs, RunLlamaFallback(r) PROVE SmokeInv'
  <1>1. /\ remote[r] = "llama" /\ UNCHANGED npu
        /\ UNCHANGED <<run, at, dir, setup, exit, touched, summary, blocker, fetched, pl>>
    BY DEF RunLlamaFallback, evidence
  <1>2. PICK o \in NpuOutcomes \ {"passed"} : npu' = [npu EXCEPT ![r] = o]
    BY <1>1, NpuStays
  <1>3. CASE WriteResult(r, "BLOCKED_RUNTIME") /\ remote' = [remote EXCEPT ![r] = "blocked"]
    <2>1. FallThrough(r, "blocked")
      BY <1>3 DEF FallThrough
    <2> QED
      BY <1>1, <1>2, <1>3, <2>1, Falls DEF Statuses
  <1>4. CASE WriteResult(r, "PASS_KV260_FALLBACK") /\ remote' = [remote EXCEPT ![r] = "passed"]
    BY <1>1, <1>2, <1>4, PassesOnBoard DEF Passes
  <1> QED
    BY <1>3, <1>4 DEF RunLlamaFallback

LEMMA RemoteSmokeReturnsStep == ASSUME SmokeInv, RemoteSmokeReturns PROVE SmokeInv'
  <1>1. /\ at = "remote" /\ UNCHANGED <<run, dir, setup, touched, fetched, result, remote, npu, pl>>
        /\ pl' \in 0 .. run
    BY DEF RemoteSmokeReturns, boardVars, SmokeInv, SmokeTypes
  <1>2. CASE remote[run] = "passed" /\ GoTo("fetch")
    <2>1. Here'
      BY <1>1, <1>2 DEF GoTo, SmokeInv, Here, Preparing, Loaded, Back
    <2> QED
      BY <1>1, <1>2, <2>1, GoesOn DEF Points
  <1>3. CASE Dies
    <2>1. at' = "ended" /\ exit' = 42 /\ UNCHANGED <<summary, blocker>>
      BY <1>3 DEF Dies
    <2>2. ExitCodeIsEarned'
      BY <2>1 DEF ExitCodeIsEarned, ZeroIsEarned, BlockedIsExplained
    <2>3. /\ summary' \in [Runs -> Notes] /\ blocker' \in [Runs -> Notes]
          /\ \A d \in Runs : Reported(summary'[d], d)
      BY <2>1 DEF SmokeInv, SmokeTypes, Claims
    <2> QED
      BY <1>1, <2>1, <2>2, <2>3, EndsRun
  <1> QED
    BY <1>2, <1>3 DEF RemoteSmokeReturns

\* The host has the board's result, or no more than it had.
LEMMA FetchResultStep == ASSUME SmokeInv, FetchResult PROVE SmokeInv'
  <1>1. /\ at = "fetch" /\ at' = "evaluate"
        /\ UNCHANGED <<run, dir, setup, touched, exit, summary, blocker, result, remote, npu, pl>>
    BY DEF FetchResult, GoTo, boardVars
  <1>2. /\ run \in Runs /\ dir[run] \in Runs /\ result \in [Runs -> Notes] /\ fetched \in [Runs -> Notes]
        /\ run \in 1 .. run
    BY <1>1, RunsAre DEF SmokeInv, SmokeTypes, Here
  <1>3. /\ fetched' \in [Runs -> Notes] /\ fetched'[dir[run]] \in {fetched[dir[run]], result[dir[run]]}
        /\ \A d \in Runs : d # dir[run] => fetched'[d] = fetched[d]
    BY <1>2 DEF FetchResult, Dir
  <1>4. SmokeTypes'
    BY <1>1, <1>3 DEF SmokeInv, SmokeTypes, Points
  <1>5. Untried'
    BY <1>1 DEF SmokeInv, Untried
  <1>6. Claims'
    <2>1. ASSUME NEW d \in Runs
          PROVE  Reported(summary[d], d)' /\ Reported(fetched[d], d)' /\ Reported(result[d], d)'
      <3>1. Reported(summary[d], d) /\ Reported(fetched[d], d) /\ Reported(result[d], d)
        BY DEF SmokeInv, Claims
      <3>2. Reported(summary[d], d)' /\ Reported(result[d], d)'
        BY <1>1, <3>1 DEF Reported
      <3>3. fetched'[d] \in {fetched[d], result[d]}
        BY <1>3
      <3>4. Reported(fetched[d], d)'
        BY <1>1, <3>1, <3>3 DEF Reported
      <3> QED
        BY <3>2, <3>4
    <2> QED
      BY <2>1 DEF Claims
  <1>7. Known'
    BY <1>1, <1>2, <1>3 DEF SmokeInv, Known
  <1>8. Here'
    BY <1>1 DEF SmokeInv, Here, Preparing, Loaded, Back
  <1>9. Fresh'
    <2> SUFFICES ASSUME Alone
                 PROVE  /\ fetched'[dir[run]] = None \/ fetched'[dir[run]].status \in Passes
                        /\ result[dir[run]].status \in Passes
      BY <1>1 DEF Fresh, Alone, SmokeInv
    <2>1. fetched[dir[run]] = None /\ remote[run] = "passed"
      BY <1>1, <1>2 DEF SmokeInv, Fresh, Here, Back
    <2>2. result[dir[run]].status \in Passes
      BY <1>2, <2>1 DEF SmokeInv, Fresh
    <2> QED
      BY <1>3, <2>1, <2>2
  <1>10. ExitCodeIsEarned'
    BY <1>1 DEF ExitCodeIsEarned, ZeroIsEarned, BlockedIsExplained
  <1> QED
    BY <1>4, <1>5, <1>6, <1>7, <1>8, <1>9, <1>10 DEF SmokeInv

LEMMA EvaluateStep == ASSUME SmokeInv, Evaluate PROVE SmokeInv'
  <1> PICK status \in Statuses \cup {"none"} : status = fetched[dir[run]].status
    BY DEF SmokeInv, SmokeTypes, Here, Evaluate, Notes
  <1>1. /\ at = "evaluate" /\ UNCHANGED <<run, dir, setup, touched, fetched, result, remote, npu, pl>>
        /\ pl' \in 0 .. run
    BY DEF Evaluate, boardVars, SmokeInv, SmokeTypes
  <1>2. /\ run \in Runs /\ dir[run] \in Runs /\ remote[run] = "passed" /\ blocker \in [Runs -> Notes]
        /\ ~setup.dry /\ setup.missing = "none" /\ setup.tokensValid /\ (setup.skipLoad \/ pl = run)
    BY <1>1 DEF SmokeInv, SmokeTypes, Here, Back, Loaded
  <1>3. CASE status = "none" /\ BlockWith("BLOCKED_RUNTIME")
    BY <1>1, <1>3, Blocked DEF Statuses
  <1>4. CASE status \in Passes /\ Finish(status, 0) /\ UNCHANGED blocker
    <2>1. /\ at' = "ended" /\ exit' = 0 /\ status \in Statuses
          /\ summary' = [summary EXCEPT ![Dir(run)] = [status |-> status, run |-> run]]
      BY <1>4 DEF Finish, Passes, Statuses
    <2>2. summary' \in [Runs -> Notes] /\ \A d \in Runs : Reported(summary'[d], d)
      BY <1>1, <2>1, SummaryIs
    <2>3. ExitCodeIsEarned'
      BY <1>1, <1>2, <2>1 DEF ExitCodeIsEarned, ZeroIsEarned, BlockedIsExplained
    <2> QED
      BY <1>1, <1>2, <1>4, <2>1, <2>2, <2>3, EndsRun
  <1>5. CASE status = "BLOCKED_RTL" /\ Finish(status, 2) /\ UNCHANGED blocker
    <2>1. /\ at' = "ended" /\ exit' = 2 /\ status \in Statuses
          /\ summary' = [summary EXCEPT ![Dir(run)] = [status |-> status, run |-> run]]
      BY <1>5 DEF Finish, Statuses
    <2>2. /\ summary' \in [Runs -> Notes] /\ summary'[dir[run]] = [status |-> status, run |-> run]
          /\ \A d \in Runs : Reported(summary'[d], d)
      BY <1>1, <1>5, <2>1, SummaryIs
    <2>3. ~Alone
      <3>1. fetched[dir[run]] # None /\ status \notin Passes
        <4>1. fetched[dir[run]].status = "BLOCKED_RTL"
          BY <1>5
        <4>2. None.status = "none"
          BY DEF None
        <4> QED
          BY <1>5, <4>1, <4>2 DEF Passes
      <3> QED
        BY <1>1, <1>2, <3>1 DEF SmokeInv, Fresh
    <2>5. summary'[dir[run]].run = run
      BY <2>2
    <2>4. ExitCodeIsEarned'
      BY <1>1, <2>1, <2>3, <2>5 DEF ExitCodeIsEarned, ZeroIsEarned, BlockedIsExplained, Alone, Dir
    <2> QED
      BY <1>1, <1>2, <1>5, <2>1, <2>2, <2>4, EndsRun
  <1>6. CASE status = "BLOCKED_RUNTIME" /\ BlockWith(status)
    BY <1>1, <1>6, Blocked DEF Statuses
  <1> QED
    BY <1>3, <1>4, <1>5, <1>6 DEF Evaluate, Passes, Dir

LEMMA SmokeInvStep == SmokeInv /\ [SmokeNext]_smokeVars => SmokeInv'
  <1> SUFFICES ASSUME SmokeInv, [SmokeNext]_smokeVars PROVE SmokeInv'
    OBVIOUS
  <1>1. CASE UNCHANGED smokeVars
    BY <1>1 DEF smokeVars, evidence, boardVars, SmokeInv, SmokeTypes, Untried, Claims, Reported, Known, Here,
                Fresh, Alone, ExitCodeIsEarned, ZeroIsEarned, BlockedIsExplained, Dir
  <1>2. CASE Start \/ Validate
    BY <1>2, StartStep, ValidateStep
  <1>3. CASE Probe \/ MakeRunDir \/ FindModel \/ CheckModelFiles \/ FindBitstream \/ LoadBitstream \/ StageRunner
    BY <1>3, ProbeStep, MakeRunDirStep, FindModelStep, CheckModelFilesStep, FindBitstreamStep,
       LoadBitstreamStep, StageRunnerStep
  <1>4. CASE SshStarts \/ RemoteSmokeReturns \/ FetchResult \/ Evaluate
    BY <1>4, SshStartsStep, RemoteSmokeReturnsStep, FetchResultStep, EvaluateStep
  <1>5. ASSUME NEW r \in Runs, RunNpuCandidate(r) \/ RunTransformersFallback(r) \/ RunLlamaFallback(r)
        PROVE  SmokeInv'
    BY <1>5, RunNpuCandidateStep, RunTransformersFallbackStep, RunLlamaFallbackStep
  <1> QED
    BY <1>1, <1>2, <1>3, <1>4, <1>5 DEF SmokeNext

LEMMA SmokeInvSafe == SmokeInv => ExitCodeIsEarned /\ NpuPassWasReported
  BY DEF SmokeInv, Claims, Reported, NpuPassWasReported, Dir

-----------------------------------------------------------------------------
(* LocalCandidate. Which checks have a verdict.                            *)

\* The steps of a plan.
Names == {"bash_syntax", "runtime_dry_run", "xsim_list", "xsim_shape_const_ram",
          "xsim_mem_dispatcher_shape_lookup", "xsim_v002_runtime_smoke_program",
          "xsim_fmap_staggered_delay", "xsim_full_regression",
          "vivado_filelist_compile", "npu_core_wrapper_elab"}

Distinct(s) == \A i, j \in 1 .. Len(s) : s[i] = s[j] => i = j

\* The checks a step runs.
ChecksOf(step) == {step} \cup (IF step = "runtime_dry_run" THEN RuntimeChecks ELSE {})

\* A step that waits has run none of its checks, and waits once.
Waiting ==
  /\ pending \in Seq(Names) /\ Distinct(pending)
  /\ \A i \in 1 .. Len(pending) : pending[i] \notin RuntimeChecks
  /\ \A i \in 1 .. Len(pending) : \A c \in Checks : c \in ChecksOf(pending[i]) => check[c] = "none"

CandidateInv ==
  /\ Waiting
  /\ recorded = {c \in Checks : check[c] = "FAIL"}
  /\ failed = {}
  /\ passed \cup Elements(pending) = Elements(Plan(options))
  /\ exitStatus # "none" => pending = <<>>

LEMMA Joined ==
  ASSUME NEW s \in Seq(Names), NEW t \in Seq(Names), Distinct(s), Distinct(t),
         \A i \in 1 .. Len(s), j \in 1 .. Len(t) : s[i] # t[j]
  PROVE  s \o t \in Seq(Names) /\ Distinct(s \o t)
  <1>1. /\ s \o t \in Seq(Names) /\ Len(s \o t) = Len(s) + Len(t) /\ Len(s) \in Nat /\ Len(t) \in Nat
        /\ \A i \in 1 .. Len(s) + Len(t) : (s \o t)[i] = IF i <= Len(s) THEN s[i] ELSE t[i - Len(s)]
    BY ConcatProperties
  <1>2. ASSUME NEW i \in 1 .. Len(s) + Len(t), NEW j \in 1 .. Len(s) + Len(t), (s \o t)[i] = (s \o t)[j]
        PROVE  i = j
    <2>1. CASE i <= Len(s) /\ j <= Len(s)
      BY <1>1, <1>2, <2>1 DEF Distinct
    <2>2. CASE ~(i <= Len(s)) /\ ~(j <= Len(s))
      <3>1. i - Len(s) \in 1 .. Len(t) /\ j - Len(s) \in 1 .. Len(t)
        BY <1>1, <2>2
      <3>2. t[i - Len(s)] = t[j - Len(s)]
        BY <1>1, <1>2, <2>2
      <3>3. i - Len(s) = j - Len(s)
        BY <3>1, <3>2 DEF Distinct
      <3> QED
        BY <1>1, <3>3
    <2>3. CASE i <= Len(s) /\ ~(j <= Len(s))
      <3>1. j - Len(s) \in 1 .. Len(t) /\ i \in 1 .. Len(s)
        BY <1>1, <2>3
      <3> QED
        BY <1>1, <1>2, <2>3, <3>1
    <2>4. CASE ~(i <= Len(s)) /\ j <= Len(s)
      <3>1. i - Len(s) \in 1 .. Len(t) /\ j \in 1 .. Len(s)
        BY <1>1, <2>4
      <3> QED
        BY <1>1, <1>2, <2>4, <3>1
    <2> QED
      BY <2>1, <2>2, <2>3, <2>4
  <1> QED
    BY <1>1, <1>2 DEF Distinct

LEMMA JoinedElements ==
  ASSUME NEW s \in Seq(Names), NEW t \in Seq(Names)
  PROVE  \A i \in 1 .. Len(s \o t) : (s \o t)[i] \in Elements(s) \cup Elements(t)
  <1>1. /\ Len(s \o t) = Len(s) + Len(t) /\ Len(s) \in Nat /\ Len(t) \in Nat
        /\ \A i \in 1 .. Len(s) + Len(t) : (s \o t)[i] = IF i <= Len(s) THEN s[i] ELSE t[i - Len(s)]
    BY ConcatProperties
  <1>2. ASSUME NEW i \in 1 .. Len(s) + Len(t) PROVE (s \o t)[i] \in Elements(s) \cup Elements(t)
    <2>1. CASE i <= Len(s)
      BY <1>1, <2>1 DEF Elements
    <2>2. CASE ~(i <= Len(s))
      <3>1. i - Len(s) \in 1 .. Len(t)
        BY <1>1, <2>2
      <3> QED
        BY <1>1, <2>2, <3>1 DEF Elements
    <2> QED
      BY <2>1, <2>2
  <1> QED
    BY <1>1, <1>2

Opening == <<"bash_syntax", "runtime_dry_run">>
Full(o) == IF o.full THEN FullSims ELSE <<>>

LEMMA TwoOf ==
  ASSUME NEW S, NEW a \in S, NEW b \in S, a # b
  PROVE  \E s \in Seq(S) : s = <<a, b>> /\ Distinct(s) /\ Elements(s) = {a, b}
  <1>0. <<a, b>> \in Seq(S)
    OBVIOUS
  <1>1. PICK s \in Seq(S) : s = <<a, b>>
    BY <1>0
  <1>2. Len(s) = 2 /\ s[1] = a /\ s[2] = b
    BY <1>1
  <1>3. 1 .. 2 = {1, 2}
    OBVIOUS
  <1>4. Distinct(s)
    BY <1>2, <1>3 DEF Distinct
  <1>5. Elements(s) = {a, b}
    BY <1>2, <1>3 DEF Elements
  <1> QED
    BY <1>1, <1>4, <1>5

LEMMA FourOf ==
  ASSUME NEW s, Len(s) = 4, s[1] # s[2], s[1] # s[3], s[1] # s[4], s[2] # s[3], s[2] # s[4], s[3] # s[4]
  PROVE  Distinct(s) /\ Elements(s) = {s[1], s[2], s[3], s[4]}
  <1>1. 1 .. 4 = {1, 2, 3, 4}
    OBVIOUS
  <1>2. Distinct(s)
    BY <1>1 DEF Distinct
  <1>3. Elements(s) = {s[1], s[2], s[3], s[4]}
    BY <1>1 DEF Elements
  <1> QED
    BY <1>2, <1>3

LEMMA PartsAre ==
  ASSUME NEW o
  PROVE  /\ Opening \in Seq(Names) /\ Distinct(Opening) /\ Elements(Opening) = {"bash_syntax", "runtime_dry_run"}
         /\ QuickSims \in Seq(Names) /\ Distinct(QuickSims)
         /\ Elements(QuickSims) = {"xsim_list", "xsim_shape_const_ram", "xsim_mem_dispatcher_shape_lookup",
                                   "xsim_v002_runtime_smoke_program"}
         /\ Full(o) \in Seq(Names) /\ Distinct(Full(o))
         /\ Elements(Full(o)) \subseteq {"xsim_fmap_staggered_delay", "xsim_full_regression"}
         /\ Vivado \in Seq(Names) /\ Distinct(Vivado)
         /\ Elements(Vivado) = {"vivado_filelist_compile", "npu_core_wrapper_elab"}
  <1>1. Opening \in Seq(Names) /\ Distinct(Opening) /\ Elements(Opening) = {"bash_syntax", "runtime_dry_run"}
    <2>1. \E s \in Seq(Names) : s = Opening /\ Distinct(s) /\ Elements(s) = {"bash_syntax", "runtime_dry_run"}
      BY TwoOf DEF Names, Opening
    <2> QED
      BY <2>1
  <1>2. /\ QuickSims \in Seq(Names) /\ Distinct(QuickSims)
        /\ Elements(QuickSims) = {"xsim_list", "xsim_shape_const_ram", "xsim_mem_dispatcher_shape_lookup",
                                  "xsim_v002_runtime_smoke_program"}
    <2>1. /\ "xsim_list" \in Names /\ "xsim_shape_const_ram" \in Names
          /\ "xsim_mem_dispatcher_shape_lookup" \in Names /\ "xsim_v002_runtime_smoke_program" \in Names
      BY DEF Names
    <2>2. QuickSims \in Seq(Names) /\ Len(QuickSims) = 4
      BY <2>1 DEF QuickSims
    <2>3. /\ QuickSims[1] = "xsim_list" /\ QuickSims[2] = "xsim_shape_const_ram"
          /\ QuickSims[3] = "xsim_mem_dispatcher_shape_lookup"
          /\ QuickSims[4] = "xsim_v002_runtime_smoke_program"
      BY DEF QuickSims
    <2>4. Distinct(QuickSims) /\ Elements(QuickSims) = {QuickSims[1], QuickSims[2], QuickSims[3], QuickSims[4]}
      BY <2>2, <2>3, FourOf
    <2> QED
      BY <2>2, <2>3, <2>4
  <1>3. /\ FullSims \in Seq(Names) /\ Distinct(FullSims)
        /\ Elements(FullSims) = {"xsim_fmap_staggered_delay", "xsim_full_regression"}
    <2>1. \E s \in Seq(Names) : /\ s = FullSims /\ Distinct(s)
                               /\ Elements(s) = {"xsim_fmap_staggered_delay", "xsim_full_regression"}
      BY TwoOf DEF Names, FullSims
    <2> QED
      BY <2>1
  <1>4. <<>> \in Seq(Names) /\ Distinct(<<>>) /\ Elements(<<>>) = {}
    <2>1. <<>> \in Seq(Names) /\ Len(<<>>) = 0 /\ 1 .. 0 = {}
      OBVIOUS
    <2> QED
      BY <2>1 DEF Distinct, Elements
  <1>5. /\ Vivado \in Seq(Names) /\ Distinct(Vivado)
        /\ Elements(Vivado) = {"vivado_filelist_compile", "npu_core_wrapper_elab"}
    <2>1. \E s \in Seq(Names) : /\ s = Vivado /\ Distinct(s)
                               /\ Elements(s) = {"vivado_filelist_compile", "npu_core_wrapper_elab"}
      BY TwoOf DEF Names, Vivado
    <2> QED
      BY <2>1
  <1>6. Full(o) = FullSims \/ Full(o) = <<>>
    BY DEF Full
  <1> QED
    BY <1>1, <1>2, <1>3, <1>4, <1>5, <1>6

\* No plan asks for a step twice.
LEMMA PlanDistinct ==
  ASSUME NEW o
  PROVE  /\ Plan(o) \in Seq(Names) /\ Distinct(Plan(o))
         /\ \A i \in 1 .. Len(Plan(o)) : Plan(o)[i] \notin RuntimeChecks
  <1>1. CASE o.only
    <2>1. Plan(o) = <<"runtime_dry_run">> /\ "runtime_dry_run" \in Names
      BY <1>1 DEF Plan, Names
    <2>2. /\ <<"runtime_dry_run">> \in Seq(Names) /\ Len(<<"runtime_dry_run">>) = 1
          /\ <<"runtime_dry_run">>[1] = "runtime_dry_run"
      BY <2>1
    <2>3. \A i \in 1 .. 1 : i = 1
      OBVIOUS
    <2> QED
      BY <2>1, <2>2, <2>3 DEF Distinct, RuntimeChecks
  <1>2. CASE ~o.only
    <2> DEFINE s == Opening \o QuickSims
               t == s \o Full(o)
               u == t \o Vivado
    <2>1. /\ s \in Seq(Names) /\ Distinct(s)
          /\ \A i \in 1 .. Len(s) : s[i] \in Elements(Opening) \cup Elements(QuickSims)
      <3>1. \A i \in 1 .. Len(Opening), j \in 1 .. Len(QuickSims) : Opening[i] # QuickSims[j]
        <4>1. \A i \in 1 .. Len(Opening) : Opening[i] \in Elements(Opening)
          BY DEF Elements
        <4>2. \A j \in 1 .. Len(QuickSims) : QuickSims[j] \in Elements(QuickSims)
          BY DEF Elements
        <4> QED
          BY <4>1, <4>2, PartsAre
      <3> QED
        BY <3>1, PartsAre, Joined, JoinedElements
    <2> HIDE DEF s
    <2>2. \A i \in 1 .. Len(s), j \in 1 .. Len(Full(o)) : s[i] # Full(o)[j]
      <3>1. \A j \in 1 .. Len(Full(o)) : Full(o)[j] \in Elements(Full(o))
        BY DEF Elements
      <3> QED
        BY <2>1, <3>1, PartsAre
    <2>3. /\ t \in Seq(Names) /\ Distinct(t)
          /\ \A i \in 1 .. Len(t) : t[i] \in Elements(s) \cup Elements(Full(o))
      BY <2>1, <2>2, PartsAre, Joined, JoinedElements
    <2>4. \A i \in 1 .. Len(t) : t[i] \in Elements(Opening) \cup Elements(QuickSims) \cup Elements(Full(o))
      BY <2>1, <2>3 DEF Elements
    <2> HIDE DEF t
    <2>5. \A i \in 1 .. Len(t), j \in 1 .. Len(Vivado) : t[i] # Vivado[j]
      <3>1. \A j \in 1 .. Len(Vivado) : Vivado[j] \in Elements(Vivado)
        BY DEF Elements
      <3> QED
        BY <2>4, <3>1, PartsAre
    <2>6. /\ u \in Seq(Names) /\ Distinct(u)
          /\ \A i \in 1 .. Len(u) : u[i] \in Elements(t) \cup Elements(Vivado)
      BY <2>3, <2>5, PartsAre, Joined, JoinedElements
    <2>8. \A i \in 1 .. Len(u) : u[i] \notin RuntimeChecks
      <3>1. \A e \in Elements(t) : e \notin RuntimeChecks
        <4>1. /\ \A e \in Elements(Opening) \cup Elements(QuickSims) : e \notin RuntimeChecks
              /\ \A e \in Elements(Full(o)) : e \notin RuntimeChecks
          BY PartsAre DEF RuntimeChecks
        <4> QED
          BY <2>4, <4>1 DEF Elements
      <3>2. \A e \in Elements(Vivado) : e \notin RuntimeChecks
        BY PartsAre DEF RuntimeChecks
      <3> QED
        BY <2>6, <3>1, <3>2
    <2>7. Plan(o) = ((Opening \o QuickSims) \o Full(o)) \o Vivado
      BY <1>2 DEF Plan, Opening, Full
    <2> QED
      BY <2>6, <2>7, <2>8 DEF s, t
  <1> QED
    BY <1>1, <1>2

LEMMA CandidateInvInit == CandidateInit => CandidateInv
  <1> SUFFICES ASSUME CandidateInit PROVE CandidateInv
    OBVIOUS
  <1>1. pending = Plan(options) /\ check = [c \in Checks |-> "none"] /\ recorded = {} /\ passed = {} /\ failed = {}
        /\ exitStatus = "none"
    BY DEF CandidateInit
  <1>2. Waiting
    BY <1>1, PlanDistinct DEF Waiting
  <1> QED
    BY <1>1, <1>2 DEF CandidateInv

\* A step that waited runs its checks and is counted as passed.
LEMMA Counts ==
  ASSUME CandidateInv, pending # <<>>, NEW verdicts, Logged(verdicts), CountStep(0), UNCHANGED <<options, exitStatus>>,
         DOMAIN verdicts \subseteq ChecksOf(Head(pending)) \cap Checks
  PROVE  CandidateInv'
  <1>1. /\ pending \in Seq(Names) /\ Len(pending) \in Nat /\ Len(pending) > 0 /\ Head(pending) = pending[1]
        /\ Tail(pending) \in Seq(Names) /\ Len(Tail(pending)) = Len(pending) - 1
        /\ \A i \in 1 .. Len(pending) - 1 : Tail(pending)[i] = pending[i + 1]
    BY EmptySeq DEF CandidateInv, Waiting
  <1>2. pending' = Tail(pending) /\ passed' = passed \cup {pending[1]} /\ failed' = {}
    BY <1>1 DEF CountStep, CandidateInv
  <1>3. \A c \in DOMAIN verdicts : check[c] = "none"
    BY <1>1 DEF CandidateInv, Waiting
  <1>4. check' = [c \in Checks |-> IF c \in DOMAIN verdicts THEN verdicts[c] ELSE check[c]]
    BY DEF Logged
  <1>5. recorded' = {c \in Checks : check'[c] = "FAIL"}
    <2>1. recorded' = recorded \cup {c \in DOMAIN verdicts : verdicts[c] = "FAIL"}
      BY DEF Logged
    <2>2. recorded = {c \in Checks : check[c] = "FAIL"}
      BY DEF CandidateInv
    <2>3. \A c \in Checks : check'[c] = IF c \in DOMAIN verdicts THEN verdicts[c] ELSE check[c]
      BY <1>4
    <2> QED
      BY <1>3, <2>1, <2>2, <2>3
  <1>6. Waiting'
    <2>1. Distinct(pending)
      BY DEF CandidateInv, Waiting
    <2>2. Distinct(Tail(pending))
      <3>1. ASSUME NEW i \in 1 .. Len(pending) - 1, NEW j \in 1 .. Len(pending) - 1,
                   Tail(pending)[i] = Tail(pending)[j]
            PROVE  i = j
        <4>1. i + 1 \in 1 .. Len(pending) /\ j + 1 \in 1 .. Len(pending) /\ pending[i + 1] = pending[j + 1]
          BY <1>1, <3>1
        <4>2. i + 1 = j + 1
          BY <2>1, <4>1 DEF Distinct
        <4> QED
          BY <1>1, <4>2
      <3> QED
        BY <1>1, <3>1 DEF Distinct
    <2>3. ASSUME NEW i \in 1 .. Len(pending) - 1, NEW c \in Checks, c \in ChecksOf(Tail(pending)[i])
          PROVE  check'[c] = "none"
      <3>1. i + 1 \in 1 .. Len(pending) /\ Tail(pending)[i] = pending[i + 1] /\ i + 1 # 1 /\ 1 \in 1 .. Len(pending)
        BY <1>1
      <3>2. check[c] = "none" /\ pending[i + 1] # pending[1]
        BY <2>1, <2>3, <3>1 DEF CandidateInv, Waiting, Distinct
      <3>4. pending[i + 1] \notin RuntimeChecks /\ pending[1] \notin RuntimeChecks
        BY <3>1 DEF CandidateInv, Waiting
      <3>3. c \notin DOMAIN verdicts
        <4>1. ASSUME c \in ChecksOf(pending[1]) PROVE FALSE
          BY <2>3, <3>1, <3>2, <3>4, <4>1 DEF ChecksOf
        <4> QED
          BY <1>1, <4>1
      <3> QED
        BY <1>4, <3>2, <3>3
    <2>4. ASSUME NEW i \in 1 .. Len(pending) - 1 PROVE Tail(pending)[i] \notin RuntimeChecks
      <3>1. i + 1 \in 1 .. Len(pending) /\ Tail(pending)[i] = pending[i + 1]
        BY <1>1
      <3> QED
        BY <3>1 DEF CandidateInv, Waiting
    <2> QED
      BY <1>1, <1>2, <2>2, <2>3, <2>4 DEF Waiting
  <1>7. passed' \cup Elements(pending') = Elements(Plan(options'))
    <2>1. Elements(pending) = {pending[1]} \cup Elements(Tail(pending))
      <3>1. ASSUME NEW i \in 1 .. Len(pending) PROVE pending[i] \in {pending[1]} \cup Elements(Tail(pending))
        <4>1. CASE i # 1
          <5>1. i - 1 \in 1 .. Len(pending) - 1 /\ (i - 1) + 1 = i
            BY <1>1, <4>1
          <5>2. Tail(pending)[i - 1] = pending[i]
            BY <1>1, <5>1
          <5> QED
            BY <1>1, <5>1, <5>2 DEF Elements
        <4> QED
          BY <4>1
      <3>2. ASSUME NEW i \in 1 .. Len(pending) - 1 PROVE Tail(pending)[i] \in Elements(pending)
        <4>1. i + 1 \in 1 .. Len(pending)
          BY <1>1
        <4> QED
          BY <1>1, <4>1 DEF Elements
      <3>3. pending[1] \in Elements(pending)
        BY <1>1 DEF Elements
      <3> QED
        BY <1>1, <3>1, <3>2, <3>3 DEF Elements
    <2>2. Elements(pending') = Elements(Tail(pending)) /\ Elements(Plan(options')) = Elements(Plan(options))
      BY <1>2
    <2> QED
      BY <1>2, <2>1, <2>2 DEF CandidateInv
  <1>8. exitStatus' = "none"
    BY DEF CandidateInv
  <1> QED
    BY <1>2, <1>5, <1>6, <1>7, <1>8 DEF CandidateInv

LEMMA CandidateInvStep == CandidateInv /\ [CandidateNext]_candidateVars => CandidateInv'
  <1> SUFFICES ASSUME CandidateInv, [CandidateNext]_candidateVars PROVE CandidateInv'
    OBVIOUS
  <1>1. CASE UNCHANGED candidateVars
    BY <1>1 DEF candidateVars, CandidateInv, Waiting
  <1>2. CASE RunCheck
    <2>1. PICK ok \in BOOLEAN : /\ Logged([c \in {Head(pending)} |-> Verdict(ok)])
                               /\ CountStep(ReturnCode(Verdict(ok)))
      BY <1>2 DEF RunCheck
    <2>2. /\ pending # <<>> /\ CountStep(0) /\ UNCHANGED <<options, exitStatus>> /\ Head(pending) \in Checks
      BY <1>2, <2>1 DEF RunCheck, ReturnCode, Checks
    <2> DEFINE verdicts == [c \in {Head(pending)} |-> Verdict(ok)]
    <2>3. Logged(verdicts) /\ DOMAIN verdicts \subseteq ChecksOf(Head(pending)) \cap Checks
      BY <2>1, <2>2 DEF ChecksOf
    <2> HIDE DEF verdicts
    <2> QED
      BY <2>2, <2>3, Counts
  <1>3. CASE RunOptional
    <2>1. PICK verdict : Logged([c \in {Head(pending)} |-> verdict]) /\ CountStep(ReturnCode(verdict))
      BY <1>3 DEF RunOptional
    <2>2. /\ pending # <<>> /\ CountStep(0) /\ UNCHANGED <<options, exitStatus>> /\ Head(pending) \in Checks
      BY <1>3, <2>1 DEF RunOptional, ReturnCode, Checks
    <2> DEFINE verdicts == [c \in {Head(pending)} |-> verdict]
    <2>3. Logged(verdicts) /\ DOMAIN verdicts \subseteq ChecksOf(Head(pending)) \cap Checks
      BY <2>1, <2>2 DEF ChecksOf
    <2> HIDE DEF verdicts
    <2> QED
      BY <2>2, <2>3, Counts
  <1>4. CASE RunRuntimeDryRun
    <2>1. /\ pending # <<>> /\ CountStep(0) /\ UNCHANGED <<options, exitStatus>>
          /\ RuntimeChecks \subseteq ChecksOf(Head(pending)) \cap Checks
          /\ RuntimeDisabled \/ RuntimeHandoff \/ RuntimeProgramOnly
      BY <1>4 DEF RunRuntimeDryRun, ChecksOf, Checks
    <2>2. PICK verdicts : Logged(verdicts) /\ DOMAIN verdicts \subseteq RuntimeChecks
      <3>1. CASE RuntimeDisabled
        <4>1. Logged([c \in {"runtime_smoke_generate"} |-> "SKIP"])
          BY <3>1 DEF RuntimeDisabled
        <4>2. DOMAIN [c \in {"runtime_smoke_generate"} |-> "SKIP"] \subseteq RuntimeChecks
          BY DEF RuntimeChecks
        <4> QED
          BY <4>1, <4>2
      <3>2. CASE RuntimeHandoff
        <4>1. PICK smoke \in GenerateSmokeProgram(files) : \E made \in GenerateDriverHandoff(smoke.files) :
                Logged([c \in RuntimeChecks |->
                          Verdict(CASE c = "runtime_smoke_generate"   -> smoke.ok
                                    [] c = "runtime_smoke_json"       -> Readable(smoke.files.program)
                                    [] c = "runtime_handoff_generate" -> made.ok
                                    [] c = "runtime_handoff_json"     -> Readable(made.files.handoff))])
          BY <3>2 DEF RuntimeHandoff
        <4>2. PICK made \in GenerateDriverHandoff(smoke.files) :
                Logged([c \in RuntimeChecks |->
                          Verdict(CASE c = "runtime_smoke_generate"   -> smoke.ok
                                    [] c = "runtime_smoke_json"       -> Readable(smoke.files.program)
                                    [] c = "runtime_handoff_generate" -> made.ok
                                    [] c = "runtime_handoff_json"     -> Readable(made.files.handoff))])
          BY <4>1
        <4> QED
          BY <4>2
      <3>3. CASE RuntimeProgramOnly
        <4>1. PICK smoke :
                Logged([c \in {"runtime_smoke_generate", "runtime_smoke_json"} |->
                          Verdict(IF c = "runtime_smoke_generate" THEN smoke.ok
                                  ELSE Readable(smoke.files.program))])
          BY <3>3 DEF RuntimeProgramOnly
        <4> QED
          BY <4>1 DEF RuntimeChecks
      <3> QED
        BY <2>1, <3>1, <3>2, <3>3
    <2> QED
      BY <2>1, <2>2, Counts
  <1>5. CASE WriteFooter
    BY <1>5 DEF WriteFooter, CandidateInv, Waiting
  <1> QED
    BY <1>1, <1>2, <1>3, <1>4, <1>5 DEF CandidateNext

LEMMA CandidateInvSafe == CandidateInv => FailuresOnRecord
  <1>1. Elements(<<>>) = {}
    BY DEF Elements
  <1> QED
    BY <1>1 DEF CandidateInv, FailuresOnRecord

-----------------------------------------------------------------------------
(* HandoffTools. Two encoders of one instruction.                          *)

\* The numbers the tools give the opcodes are the driver's bit patterns.
LEMMA OpcodesAgree == \A c \in Calls : BitsOf(ToolOpcode[c], 4) = UcaOpcode[c]
  <1>0. Bits(4) = {0, 1, 2, 3}
    BY DEF Bits
  <1>1. ASSUME NEW n \in 0 .. 4
        PROVE  /\ 0 \in BitsOf(n, 4) <=> (n \div 2 ^ 0) % 2 = 1
               /\ 1 \in BitsOf(n, 4) <=> (n \div 2 ^ 1) % 2 = 1
               /\ 2 \in BitsOf(n, 4) <=> (n \div 2 ^ 2) % 2 = 1
               /\ 3 \in BitsOf(n, 4) <=> (n \div 2 ^ 3) % 2 = 1
               /\ BitsOf(n, 4) \subseteq {0, 1, 2, 3}
    BY <1>0, Zenon DEF BitsOf
  <1>2. /\ (0 \div 2 ^ 0) % 2 # 1 /\ (0 \div 2 ^ 1) % 2 # 1 /\ (0 \div 2 ^ 2) % 2 # 1 /\ (0 \div 2 ^ 3) % 2 # 1
        /\ (1 \div 2 ^ 0) % 2 = 1 /\ (1 \div 2 ^ 1) % 2 # 1 /\ (1 \div 2 ^ 2) % 2 # 1 /\ (1 \div 2 ^ 3) % 2 # 1
        /\ (2 \div 2 ^ 0) % 2 # 1 /\ (2 \div 2 ^ 1) % 2 = 1 /\ (2 \div 2 ^ 2) % 2 # 1 /\ (2 \div 2 ^ 3) % 2 # 1
        /\ (3 \div 2 ^ 0) % 2 = 1 /\ (3 \div 2 ^ 1) % 2 = 1 /\ (3 \div 2 ^ 2) % 2 # 1 /\ (3 \div 2 ^ 3) % 2 # 1
        /\ (4 \div 2 ^ 0) % 2 # 1 /\ (4 \div 2 ^ 1) % 2 # 1 /\ (4 \div 2 ^ 2) % 2 = 1 /\ (4 \div 2 ^ 3) % 2 # 1
    BY SMT
  <1>3. /\ BitsOf(0, 4) = {} /\ BitsOf(1, 4) = {0} /\ BitsOf(2, 4) = {1} /\ BitsOf(3, 4) = {0, 1}
        /\ BitsOf(4, 4) = {2}
    <2> HIDE DEF BitsOf
    <2>1. 0 \in 0 .. 4 /\ 1 \in 0 .. 4 /\ 2 \in 0 .. 4 /\ 3 \in 0 .. 4 /\ 4 \in 0 .. 4
      OBVIOUS
    <2>2. BitsOf(0, 4) = {}
      BY <1>1, <1>2, <2>1, Zenon
    <2>3. BitsOf(1, 4) = {0}
      BY <1>1, <1>2, <2>1, Zenon
    <2>4. BitsOf(2, 4) = {1}
      BY <1>1, <1>2, <2>1, Zenon
    <2>5. BitsOf(3, 4) = {0, 1}
      BY <1>1, <1>2, <2>1, Zenon
    <2>6. BitsOf(4, 4) = {2}
      BY <1>1, <1>2, <2>1, Zenon
    <2> QED
      BY <2>2, <2>3, <2>4, <2>5, <2>6
  <1> QED
    BY <1>3 DEF Calls, ToolOpcode, UcaOpcode

\* The field the driver does not have is 0, and 0 sets no bit.
LEMMA NothingSet == BitsOf(0, 17) = {}
  <1>1. ASSUME NEW b \in Bits(17) PROVE (0 \div 2 ^ b) % 2 # 1
    <2>1. \/ b = 0 \/ b = 1 \/ b = 2 \/ b = 3 \/ b = 4 \/ b = 5 \/ b = 6 \/ b = 7 \/ b = 8
          \/ b = 9 \/ b = 10 \/ b = 11 \/ b = 12 \/ b = 13 \/ b = 14 \/ b = 15 \/ b = 16
      BY SMT DEF Bits
    <2>2. 2 ^ b \in {2 ^ 0, 2 ^ 1, 2 ^ 2, 2 ^ 3, 2 ^ 4, 2 ^ 5, 2 ^ 6, 2 ^ 7, 2 ^ 8, 2 ^ 9, 2 ^ 10, 2 ^ 11,
                    2 ^ 12, 2 ^ 13, 2 ^ 14, 2 ^ 15, 2 ^ 16}
      BY <2>1, Zenon
    <2>3. {2 ^ 0, 2 ^ 1, 2 ^ 2, 2 ^ 3, 2 ^ 4, 2 ^ 5, 2 ^ 6, 2 ^ 7, 2 ^ 8, 2 ^ 9, 2 ^ 10, 2 ^ 11,
           2 ^ 12, 2 ^ 13, 2 ^ 14, 2 ^ 15, 2 ^ 16} \subseteq Nat \ {0}
      BY SMT
    <2>4. PICK weight \in Nat \ {0} : weight = 2 ^ b
      BY <2>2, <2>3, Zenon
    <2>5. (0 \div weight) % 2 # 1
      BY SMT
    <2> QED
      BY <2>4, <2>5, Zenon
  <1> QED
    BY <1>1 DEF BitsOf

LEMMA MaskIs ==
  ASSUME NEW n, NEW width \in 0 .. 17
  PROVE  BitsOf(n, 17) \cap Bits(width) = BitsOf(n, width)
  BY DEF BitsOf, Bits

\* The fields of a call are at the same positions in both encoders.
LEMMA LayoutsAgree ==
  ASSUME NEW c \in Calls, NEW f \in UcaFields(c)
  PROVE  /\ UcaFields(c) = DOMAIN ToolLayout[c] \ {"aux_addr"}
         /\ ToolLayout[c][f] = Layout[c][f]
         /\ Layout[c][f].width \in 0 .. 17
  <1>1. CASE c \in {"gemv", "gemm"}
    <2>1. ToolLayout[c] = GemmLike /\ Layout[c] = ComputeLayout
      BY <1>1 DEF ToolLayout, Layout
    <2>2. GemmLike = ComputeLayout /\ "aux_addr" \notin DOMAIN GemmLike
      BY DEF GemmLike, ComputeLayout
    <2>3. f \in DOMAIN ComputeLayout
      BY <2>1 DEF UcaFields
    <2>4. ComputeLayout[f].width \in 0 .. 17
      BY <2>3 DEF ComputeLayout, F
    <2> QED
      BY <2>1, <2>2, <2>4 DEF UcaFields
  <1>2. CASE c = "memcpy"
    BY <1>2 DEF UcaFields, Layout, ToolLayout, F
  <1>3. CASE c = "memset"
    BY <1>3 DEF UcaFields, Layout, ToolLayout, F
  <1>4. CASE c = "cvo"
    BY <1>4 DEF UcaFields, Layout, ToolLayout, F
  <1> QED
    BY <1>1, <1>2, <1>3, <1>4 DEF Calls

\* The Python tools and the C driver encode a call as the same 64-bit word,
\* whatever its arguments are: an argument too wide for its field, which the
\* tools refuse, would be cut at the same bit.
THEOREM WordsAgree ==
  ASSUME NEW i, i.call \in Calls, DOMAIN i.args = DOMAIN ToolLayout[i.call],
         i.call = "memcpy" => i.args["aux_addr"] = 0
  PROVE  ToolWord(i) = Word(i.call, [f \in UcaFields(i.call) |-> BitsOf(i.args[f], 17)])
  <1> DEFINE c == i.call
             fields == UcaFields(c)
             args == [f \in fields |-> BitsOf(i.args[f], 17)]
             tool(f) == Shift(BitsOf(i.args[f], ToolLayout[c][f].width), ToolLayout[c][f].at)
             uca(f) == Shift(args[f] \cap Bits(Layout[c][f].width), Layout[c][f].at)
  <1>1. ASSUME NEW f \in fields PROVE tool(f) = uca(f)
    <2>1. ToolLayout[c][f] = Layout[c][f] /\ Layout[c][f].width \in 0 .. 17
      BY LayoutsAgree
    <2>2. args[f] \cap Bits(Layout[c][f].width) = BitsOf(i.args[f], Layout[c][f].width)
      BY <2>1, MaskIs
    <2> QED
      BY <2>1, <2>2
  <1>2. DOMAIN i.args = fields \/ (c = "memcpy" /\ DOMAIN i.args = fields \cup {"aux_addr"})
    BY DEF Calls, UcaFields, Layout, ToolLayout, GemmLike, ComputeLayout
  <1>3. c = "memcpy" => tool("aux_addr") = {}
    <2>1. ToolLayout["memcpy"]["aux_addr"].width = 17
      BY DEF ToolLayout, F
    <2> QED
      BY <2>1, NothingSet DEF Shift
  <1>4. UNION {tool(f) : f \in DOMAIN i.args} = UNION {uca(f) : f \in fields}
    <2> HIDE DEF tool, uca, fields
    <2>1. {tool(f) : f \in fields} = {uca(f) : f \in fields}
      BY <1>1
    <2> QED
      BY <1>2, <1>3, <2>1
  <1>5. BitsOf(ToolOpcode[c], 4) = UcaOpcode[c]
    BY OpcodesAgree
  <1>6. ToolWord(i) = Shift(UcaOpcode[c], 60) \cup UNION {tool(f) : f \in DOMAIN i.args}
    BY <1>5 DEF ToolWord
  <1>7. Word(c, args) = Shift(UcaOpcode[c], 60) \cup UNION {uca(f) : f \in fields}
    BY DEF Word
  <1> QED
    BY <1>4, <1>6, <1>7

\* The words of the smoke program are those the uCA driver would issue.
THEOREM SmokeWordsAreIssued == SmokeWords = DriverWords
  <1>1. ASSUME NEW n \in DOMAIN TinyShapeLookup
        PROVE  /\ TinyShapeLookup[n].call \in Calls
               /\ DOMAIN TinyShapeLookup[n].args = DOMAIN ToolLayout[TinyShapeLookup[n].call]
               /\ TinyShapeLookup[n].call = "memcpy" => TinyShapeLookup[n].args["aux_addr"] = 0
    <2>1. n \in {1, 2, 3, 4, 5, 6, 7}
      BY DEF TinyShapeLookup
    <2>2. CASE n \in {1, 2}
      BY <2>2 DEF TinyShapeLookup, Memset, Calls, ToolLayout
    <2>3. CASE n \in {3, 7}
      BY <2>3 DEF TinyShapeLookup, Memcpy, Calls, ToolLayout
    <2>4. CASE n \in {4, 5}
      BY <2>4 DEF TinyShapeLookup, Matrix, Calls, ToolLayout, GemmLike
    <2>5. CASE n = 6
      BY <2>5 DEF TinyShapeLookup, Calls, ToolLayout
    <2> QED
      BY <2>1, <2>2, <2>3, <2>4, <2>5
  <1>2. ASSUME NEW n \in DOMAIN TinyShapeLookup PROVE SmokeWords[n] = DriverWords[n]
    BY <1>1, WordsAgree DEF SmokeWords, DriverWords
  <1> QED
    BY <1>2 DEF SmokeWords, DriverWords

-----------------------------------------------------------------------------
(* LocalCandidate. What the files of the hand-off say.                     *)

\* The words of the smoke program, and the last one cut in half.
SmokeSet == {SmokeWords[n] : n \in 1 .. 7} \cup {Field(SmokeWords[7], 32, 32)}

\* What program.json and program.memh say, whoever wrote them, is made of the
\* words of the smoke program and of its last word cut in half.
FilesTyped(f) ==
  /\ DOMAIN f = {"program", "memh", "handoff"}
  /\ f["program"].kind = "json" => f["program"].words \in Seq(SmokeSet)
  /\ f["memh"] # Absent => f["memh"].words \in Seq(SmokeSet)

LEMMA SmokeWordsTyped == SmokeWords \in Seq(SmokeSet) /\ Len(SmokeWords) = 7
  <1>1. DOMAIN TinyShapeLookup = 1 .. 7
    BY DEF TinyShapeLookup
  <1> DEFINE e(n) == SmokeWords[n]
  <1>2. SmokeWords = [n \in 1 .. 7 |-> e(n)]
    BY <1>1 DEF SmokeWords
  <1>3. \A n \in 1 .. 7 : e(n) \in SmokeSet
    BY DEF SmokeSet
  <1> HIDE DEF e
  <1>4. [n \in 1 .. 7 |-> e(n)] \in Seq(SmokeSet) /\ Len([n \in 1 .. 7 |-> e(n)]) = 7
    BY <1>3
  <1> QED
    BY <1>2, <1>4

LEMMA CutTyped ==
  ASSUME NEW n \in 0 .. 7
  PROVE  SubSeq(SmokeWords, 1, n) \in Seq(SmokeSet)
  <1>1. \A i \in 1 .. n : SmokeWords[i] \in SmokeSet
    BY DEF SmokeSet
  <1>2. 1 \in Int /\ n \in Int
    OBVIOUS
  <1> QED
    BY <1>1, <1>2, SubSeqProperties

LEMMA TornTyped == \A torn \in TornMemh : torn.words \in Seq(SmokeSet)
  <1>1. Append(SubSeq(SmokeWords, 1, 6), Field(SmokeWords[7], 32, 32)) \in Seq(SmokeSet)
    <2>1. SubSeq(SmokeWords, 1, 6) \in Seq(SmokeSet)
      BY CutTyped
    <2>2. Field(SmokeWords[7], 32, 32) \in SmokeSet
      BY DEF SmokeSet
    <2> QED
      BY <2>1, <2>2, AppendProperties
  <1>2. \A n \in {0, 5, 6} : SubSeq(SmokeWords, 1, n) \in Seq(SmokeSet)
    BY CutTyped
  <1>3. \A torn \in TornMemh : \/ \E n \in {0, 5, 6} : torn.words = SubSeq(SmokeWords, 1, n)
                               \/ torn.words = Append(SubSeq(SmokeWords, 1, 6), Field(SmokeWords[7], 32, 32))
    BY DEF TornMemh, Memh
  <1> QED
    BY <1>1, <1>2, <1>3

LEMMA EarlierTyped == \A f \in Earlier : FilesTyped(f)
  <1> DEFINE words == Front(SmokeWords)
  <1>1. words \in Seq(SmokeSet)
    BY SmokeWordsTyped, CutTyped DEF Front
  <1> HIDE DEF words
  <1> DEFINE whole(claims) == [program |-> ProgramJson(words, claims), memh |-> Memh(words),
                               handoff |-> Handoff(words, claims)]
             kept == [whole(FALSE) EXCEPT !.memh = Memh(SmokeWords), !.program = Torn]
  <1>2. FilesTyped([f \in {"program", "memh", "handoff"} |-> Absent])
    BY DEF FilesTyped, Absent
  <1>3. FilesTyped(whole(FALSE)) /\ FilesTyped(whole(TRUE))
    BY <1>1 DEF FilesTyped, ProgramJson, Memh
  <1>4. FilesTyped(kept)
    BY SmokeWordsTyped DEF FilesTyped, Torn, Memh
  <1>5. Earlier = {[f \in {"program", "memh", "handoff"} |-> Absent], whole(FALSE), whole(TRUE), kept}
    BY DEF Earlier, words
  <1> QED
    BY <1>2, <1>3, <1>4, <1>5

\* The smoke program's generator, if it says it succeeded, wrote its words to
\* the .memh.
LEMMA SmokeProgramFiles ==
  ASSUME NEW f, FilesTyped(f), NEW smoke \in GenerateSmokeProgram(f)
  PROVE  /\ FilesTyped(smoke.files)
         /\ smoke.ok => smoke.files["memh"] = Memh(SmokeWords)
  <1> DEFINE written == [f EXCEPT !.memh = Memh(SmokeWords)]
             done == [written EXCEPT !.program = ProgramJson(SmokeWords, FALSE)]
             stopped == {f} \cup {[f EXCEPT !.memh = torn] : torn \in TornMemh}
                          \cup {written, [written EXCEPT !.program = Torn]}
  <1>1. FilesTyped(written) /\ written["memh"] = Memh(SmokeWords)
    BY SmokeWordsTyped DEF FilesTyped, Memh
  <1>2. FilesTyped(done) /\ done["memh"] = Memh(SmokeWords)
    BY <1>1, SmokeWordsTyped DEF FilesTyped, ProgramJson
  <1>3. FilesTyped([written EXCEPT !.program = Torn])
    BY <1>1 DEF FilesTyped, Torn
  <1>4. ASSUME NEW torn \in TornMemh PROVE FilesTyped([f EXCEPT !.memh = torn])
    BY TornTyped DEF FilesTyped
  <1>5. \A g \in stopped : FilesTyped(g)
    BY <1>1, <1>3, <1>4
  <1>6. \/ smoke \in {[ok |-> FALSE, files |-> g] : g \in stopped}
        \/ smoke = [ok |-> TRUE, files |-> done]
    BY DEF GenerateSmokeProgram
  <1> HIDE DEF stopped, done
  <1>7. CASE smoke \in {[ok |-> FALSE, files |-> g] : g \in stopped}
    <2>1. PICK g \in stopped : smoke = [ok |-> FALSE, files |-> g]
      BY <1>7
    <2>2. smoke.files = g /\ smoke.ok = FALSE
      BY <2>1
    <2> QED
      BY <1>5, <2>2
  <1>8. CASE smoke = [ok |-> TRUE, files |-> done]
    <2>1. smoke.files = done
      BY <1>8
    <2> QED
      BY <1>2, <2>1
  <1> QED
    BY <1>6, <1>7, <1>8

\* The hand-off's generator leaves the two files it reads alone and succeeds
\* only if they say the same.
LEMMA DriverHandoffFiles ==
  ASSUME NEW f, FilesTyped(f), NEW made \in GenerateDriverHandoff(f)
  PROVE  /\ FilesTyped(made.files)
         /\ made.files["memh"] = f["memh"]
         /\ made.ok => /\ made.files["handoff"].writes = RegisterWrites(made.files["memh"].words)
                       /\ made.files["program"].words = made.files["memh"].words
  <1> DEFINE torn == [f EXCEPT !.handoff = Torn]
             done == [f EXCEPT !.handoff = Handoff(f["program"].words, f["program"].claims)]
  <1>1. FilesTyped(torn) /\ FilesTyped(done) /\ torn["memh"] = f["memh"] /\ done["memh"] = f["memh"]
        /\ done["program"] = f["program"]
    BY DEF FilesTyped
  <1>2. done["handoff"].writes = RegisterWrites(f["program"].words)
    BY DEF FilesTyped, Handoff
  <1>3. made \in {[ok |-> FALSE, files |-> f], [ok |-> FALSE, files |-> torn]}
        \/ (made = [ok |-> TRUE, files |-> done] /\ Readable(f["program"]) /\ f["memh"] # Absent
            /\ Agrees(f["program"].words, f["memh"].words))
    BY DEF GenerateDriverHandoff
  <1>4. CASE made \in {[ok |-> FALSE, files |-> f], [ok |-> FALSE, files |-> torn]}
    <2>1. made.files \in {f, torn} /\ made.ok = FALSE
      BY <1>4
    <2> QED
      BY <1>1, <2>1
  <1>5. CASE made = [ok |-> TRUE, files |-> done] /\ Readable(f["program"]) /\ f["memh"] # Absent
             /\ Agrees(f["program"].words, f["memh"].words)
    <2>1. f["program"].words \in Seq(SmokeSet) /\ f["memh"].words \in Seq(SmokeSet)
      BY <1>5 DEF FilesTyped, Readable
    <2>2. f["program"].words = f["memh"].words
      BY <1>5, <2>1, SeqEqual DEF Agrees
    <2> QED
      BY <1>1, <1>2, <1>5, <2>2
  <1> QED
    BY <1>3, <1>4, <1>5

\* What a hand-off that was made or reported ready says, and of what type the
\* files are that the next one is made from.
HandoffInv == FilesTyped(files) /\ HandoffIsWhole

LEMMA HandoffInvInit == CandidateInit => HandoffInv
  <1> SUFFICES ASSUME CandidateInit PROVE HandoffInv
    OBVIOUS
  <1>1. FilesTyped(files)
    BY EarlierTyped DEF CandidateInit
  <1>2. handoff = "disabled" /\ check["runtime_handoff_generate"] = "none"
    BY DEF CandidateInit, Checks, RuntimeChecks
  <1> QED
    BY <1>1, <1>2 DEF HandoffInv, HandoffIsWhole

\* A step that does not run the generators leaves their verdicts alone.
LEMMA OtherCheck ==
  ASSUME NEW step \in Checks \ RuntimeChecks, NEW verdict, Logged([c \in {step} |-> verdict])
  PROVE  \A c \in RuntimeChecks : check'[c] = check[c]
  BY DEF Logged, Checks

LEMMA OthersPlain == SingleChecks \cup Elements(Vivado) \subseteq Checks \ RuntimeChecks
  <1>1. /\ QuickSims \in Seq(Names) /\ FullSims \in Seq(Names)
        /\ RuntimeChecks \cap Elements(QuickSims) = {} /\ RuntimeChecks \cap Elements(FullSims) = {}
    <2>1. Full([full |-> TRUE]) = FullSims
      BY DEF Full
    <2> QED
      BY <2>1, PartsAre DEF RuntimeChecks
  <1>2. RuntimeChecks \cap Elements(QuickSims \o FullSims) = {}
    <2>1. \A i \in 1 .. Len(QuickSims \o FullSims) :
            (QuickSims \o FullSims)[i] \in Elements(QuickSims) \cup Elements(FullSims)
      BY <1>1, JoinedElements
    <2>2. Elements(QuickSims \o FullSims) \subseteq Elements(QuickSims) \cup Elements(FullSims)
      BY <2>1 DEF Elements
    <2> QED
      BY <1>1, <2>2
  <1>3. RuntimeChecks \cap Elements(Vivado) = {}
    BY DEF Elements, RuntimeChecks, Vivado
  <1> QED
    BY <1>2, <1>3 DEF SingleChecks, Checks, RuntimeChecks

LEMMA RuntimeHandoffStep ==
  ASSUME FilesTyped(files), RuntimeHandoff
  PROVE  HandoffInv'
  <1>0. PICK smoke \in GenerateSmokeProgram(files) : \E made \in GenerateDriverHandoff(smoke.files) :
          /\ Logged([c \in RuntimeChecks |->
               Verdict(CASE c = "runtime_smoke_generate"   -> smoke.ok
                         [] c = "runtime_smoke_json"       -> Readable(smoke.files.program)
                         [] c = "runtime_handoff_generate" -> made.ok
                         [] c = "runtime_handoff_json"     -> Readable(made.files.handoff))])
          /\ files' = made.files
          /\ handoff' = IF Readable(files'.handoff) /\ ~files'.handoff.claims
                        THEN "ready" ELSE "unsupported_claims"
    BY DEF RuntimeHandoff
  <1>1. PICK made \in GenerateDriverHandoff(smoke.files) :
          /\ Logged([c \in RuntimeChecks |->
               Verdict(CASE c = "runtime_smoke_generate"   -> smoke.ok
                         [] c = "runtime_smoke_json"       -> Readable(smoke.files.program)
                         [] c = "runtime_handoff_generate" -> made.ok
                         [] c = "runtime_handoff_json"     -> Readable(made.files.handoff))])
          /\ files' = made.files
          /\ handoff' = IF Readable(files'.handoff) /\ ~files'.handoff.claims
                        THEN "ready" ELSE "unsupported_claims"
    BY <1>0
  <1>2. FilesTyped(smoke.files) /\ (smoke.ok => smoke.files["memh"] = Memh(SmokeWords))
    BY SmokeProgramFiles
  <1>3. /\ FilesTyped(made.files) /\ made.files["memh"] = smoke.files["memh"]
        /\ made.ok => /\ made.files["handoff"].writes = RegisterWrites(made.files["memh"].words)
                      /\ made.files["program"].words = made.files["memh"].words
    BY <1>2, DriverHandoffFiles
  <1>4. /\ check'["runtime_handoff_generate"] = Verdict(made.ok)
        /\ check'["runtime_smoke_generate"] = Verdict(smoke.ok)
    BY <1>1 DEF Logged, RuntimeChecks, Checks
  <1>5. FilesTyped(files')
    BY <1>1, <1>3
  <1>6. handoff' = "ready" => Readable(files'.handoff) /\ ~files'.handoff.claims
    BY <1>1
  <1>7. ASSUME check'["runtime_handoff_generate"] = "PASS"
        PROVE  /\ files'.handoff.writes = RegisterWrites(files'.memh.words)
               /\ files'.program.words = files'.memh.words
    BY <1>1, <1>3, <1>4, <1>7 DEF Verdict
  <1>8. ASSUME check'["runtime_smoke_generate"] = "PASS" PROVE files'.memh.words = DriverWords
    <2>1. files'["memh"] = Memh(SmokeWords)
      BY <1>1, <1>2, <1>3, <1>4, <1>8 DEF Verdict
    <2> QED
      BY <2>1, SmokeWordsAreIssued DEF Memh
  <1> QED
    BY <1>5, <1>6, <1>7, <1>8 DEF HandoffInv, HandoffIsWhole

LEMMA HandoffInvStep == CandidateInv /\ HandoffInv /\ [CandidateNext]_candidateVars => HandoffInv'
  <1> SUFFICES ASSUME CandidateInv, HandoffInv, [CandidateNext]_candidateVars PROVE HandoffInv'
    OBVIOUS
  <1>1. ASSUME UNCHANGED <<handoff, files>>, \A c \in RuntimeChecks : check'[c] = check[c]
        PROVE  HandoffInv'
    <2>1. /\ check'["runtime_handoff_generate"] = check["runtime_handoff_generate"]
          /\ check'["runtime_smoke_generate"] = check["runtime_smoke_generate"]
      BY <1>1 DEF RuntimeChecks
    <2> QED
      BY <1>1, <2>1 DEF HandoffInv, HandoffIsWhole
  <1>2. CASE UNCHANGED candidateVars
    BY <1>1, <1>2 DEF candidateVars
  <1>3. CASE RunCheck
    BY <1>1, <1>3, OtherCheck, OthersPlain DEF RunCheck
  <1>4. CASE RunOptional
    BY <1>1, <1>4, OtherCheck, OthersPlain DEF RunOptional
  <1>5. CASE RunRuntimeDryRun
    <2>1. check["runtime_handoff_generate"] = "none" /\ FilesTyped(files)
      BY <1>5, EmptySeq DEF RunRuntimeDryRun, CandidateInv, Waiting, HandoffInv, ChecksOf, Checks, RuntimeChecks
    <2>2. RuntimeHandoff \/ RuntimeDisabled \/ RuntimeProgramOnly
      BY <1>5 DEF RunRuntimeDryRun
    <2>3. ASSUME handoff' = "disabled", FilesTyped(files'), check'["runtime_handoff_generate"] = "none"
          PROVE  HandoffInv'
      BY <2>3 DEF HandoffInv, HandoffIsWhole
    <2>4. CASE RuntimeDisabled
      <3>1. check'["runtime_handoff_generate"] = "none"
        BY <2>1, <2>4 DEF RuntimeDisabled, Logged, Checks, RuntimeChecks
      <3> QED
        BY <2>1, <2>3, <2>4, <3>1 DEF RuntimeDisabled
    <2>5. CASE RuntimeProgramOnly
      <3>1. PICK smoke \in GenerateSmokeProgram(files) :
              /\ Logged([c \in {"runtime_smoke_generate", "runtime_smoke_json"} |->
                           Verdict(IF c = "runtime_smoke_generate" THEN smoke.ok
                                   ELSE Readable(smoke.files.program))])
              /\ files' = smoke.files /\ handoff' = "disabled"
        BY <2>5 DEF RuntimeProgramOnly
      <3>2. check'["runtime_handoff_generate"] = "none"
        BY <2>1, <3>1 DEF Logged, Checks, RuntimeChecks
      <3> QED
        BY <2>1, <2>3, <3>1, <3>2, SmokeProgramFiles
    <2> QED
      BY <2>1, <2>2, <2>4, <2>5, RuntimeHandoffStep
  <1>6. CASE WriteFooter
    BY <1>1, <1>6 DEF WriteFooter
  <1> QED
    BY <1>2, <1>3, <1>4, <1>5, <1>6 DEF CandidateNext

-----------------------------------------------------------------------------
(* Both scripts.                                                           *)

ScriptsInv == SmokeInv /\ CandidateInv /\ HandoffInv

\* A behaviour runs one of the scripts and leaves the other as it was.
THEOREM ScriptsInvariant == ScriptsSpec => []ScriptsInv
  <1>1. ScriptsInit => ScriptsInv
    BY SmokeInvInit, CandidateInvInit, HandoffInvInit DEF ScriptsInit, ScriptsInv
  <1>2. ScriptsInv /\ [ScriptsNext]_<<script, candidateVars, smokeVars>> => ScriptsInv'
    <2> SUFFICES ASSUME ScriptsInv, [ScriptsNext]_<<script, candidateVars, smokeVars>> PROVE ScriptsInv'
      OBVIOUS
    <2>1. [SmokeNext]_smokeVars /\ [CandidateNext]_candidateVars
      BY DEF ScriptsNext
    <2> QED
      BY <2>1, SmokeInvStep, CandidateInvStep, HandoffInvStep DEF ScriptsInv
  <1> QED
    BY <1>1, <1>2, PTL DEF ScriptsSpec

\* An exit code of the smoke runner is earned by the run that exits: neither
\* the files of earlier runs nor board scripts that outlived their
\* connection stand in for it, however many runs share a directory.
THEOREM ExitCodesAreEarned == ScriptsSpec => []ExitCodeIsEarned
  <1>1. ScriptsInv => ExitCodeIsEarned
    BY SmokeInvSafe DEF ScriptsInv
  <1> QED
    BY <1>1, ScriptsInvariant, PTL

\* A summary that claims an NPU pass has an NPU runner behind it that passed
\* in a run of the same directory.
THEOREM NpuPassesWereReported == ScriptsSpec => []NpuPassWasReported
  <1>1. ScriptsInv => NpuPassWasReported
    BY SmokeInvSafe DEF ScriptsInv
  <1> QED
    BY <1>1, ScriptsInvariant, PTL

\* failed-commands.txt of the local candidate runner names exactly the checks
\* with a FAIL line, and the footer is written when every step of the plan
\* has been counted.
THEOREM FailuresAreOnRecord == ScriptsSpec => []FailuresOnRecord
  <1>1. ScriptsInv => FailuresOnRecord
    BY CandidateInvSafe DEF ScriptsInv
  <1> QED
    BY <1>1, ScriptsInvariant, PTL

\* A hand-off reported ready can be read and claims nothing; one this run made
\* writes the words that program.json and program.memh both hold, and those
\* are the uCA driver's if this run made the program too, whatever files an
\* earlier run left and wherever the generators stopped.
THEOREM HandoffsAreWhole == ScriptsSpec => []HandoffIsWhole
  <1>1. ScriptsInv => HandoffIsWhole
    BY DEF ScriptsInv, HandoffInv
  <1> QED
    BY <1>1, ScriptsInvariant, PTL
=============================================================================
