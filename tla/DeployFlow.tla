----------------------------- MODULE DeployFlow -----------------------------
(***************************************************************************)
(* Deploying an overlay to the board: hw/scripts/deploy_to_kv260.sh with   *)
(* the check it runs first (pre_deploy_check.py) and the smoke test its    *)
(* last line asks for (post_deploy_smoke.py).                              *)
(*                                                                         *)
(* The deploy script is a straight line of commands under `set -e`: any of *)
(* them may fail and end it, a copy that fails may leave half a file, and  *)
(* nothing is undone.  The board may reboot at any time, which empties the *)
(* PL and keeps the firmware tree.  Attempts follow one another; the build *)
(* tree changes only between them.                                         *)
(***************************************************************************)
EXTENDS Naturals, Sequences

CONSTANTS
  MaxAttempts,   \* bound: how often the deploy script is started
  MaxBuilds      \* bound: how often the bitstream is rebuilt

ASSUME DeployAssumption == MaxAttempts \in Nat \ {0} /\ MaxBuilds \in Nat \ {0}

Files    == {"bit.bin", "dtbo", "shell.json"}
Attempts == 0..MaxAttempts
Builds   == 0..MaxBuilds

(* A file on the board: the build it holds, the attempt that copied it (0  *)
(* for no file) and whether the copy was completed.                        *)
Content == [build : Builds, by : Attempts, whole : BOOLEAN]
Empty   == [f \in Files |-> [build |-> 0, by |-> 0, whole |-> FALSE]]

Options == [dry : BOOLEAN, regenerate : BOOLEAN, precheck : BOOLEAN]

(* The commands of the script, in its order. *)
Script_LoadsEarly ==
  <<"regenerate", "precheck", "unload", "mkdir", "copy bit.bin", "copy dtbo", "copy shell.json",
    "install bit.bin", "load", "install dtbo", "install shell.json", "cleanup", "verify">>

Script ==
  <<"regenerate", "precheck", "unload", "mkdir", "copy bit.bin", "copy dtbo", "copy shell.json",
    "install bit.bin", "install dtbo", "install shell.json", "cleanup", "load", "verify">>

VARIABLES
  bit,        \* the build PCCX_BIT names
  host,       \* per file of the build tree: the build it was made from
  sound,      \* the dtbo, the shell.json, the bitstream's size and part are in order
  attempt,    \* number of the current attempt
  options,    \* its command line
  step,       \* index in Script of its next command
  outcome,    \* "none", "running", "complete" or "failed"
  staging,    \* the attempt's directory under /tmp on the board
  firmware,   \* /lib/firmware/xilinx/<overlay> on the board
  loaded,     \* the files the PL was programmed from, Empty without overlay
  smoke       \* verdict of the last smoke test: "none", "pass" or "fail"

hostVars  == <<bit, host, sound>>
boardVars == <<staging, firmware, loaded>>
vars == <<hostVars, attempt, options, step, outcome, boardVars, smoke>>

Init ==
  /\ bit = 0 /\ host = [f \in Files |-> 0] /\ sound = TRUE
  /\ attempt = 0 /\ step = 0 /\ outcome = "none"
  /\ options \in [dry : {FALSE}, regenerate : {TRUE}, precheck : {TRUE}]
  /\ staging = Empty /\ firmware = Empty /\ loaded = Empty
  /\ smoke = "none"

Running == outcome = "running"
At(s) == Running /\ Script[step] = s

(* A new bitstream; the device-tree files may or may not follow it. *)
Rebuild ==
  /\ ~Running
  /\ bit < MaxBuilds
  /\ bit' = bit + 1
  /\ \E also \in SUBSET {"dtbo", "shell.json"} :
       host' = [f \in Files |-> IF f \in also THEN bit + 1 ELSE host[f]]
  /\ sound' \in BOOLEAN
  /\ UNCHANGED <<attempt, options, step, outcome, boardVars, smoke>>

(* The command line, the bitstream and the environment are in order. *)
Begin ==
  /\ ~Running
  /\ attempt < MaxAttempts
  /\ attempt' = attempt + 1
  /\ options' \in Options
  /\ step' = 1
  /\ outcome' = IF options'.dry THEN "complete" ELSE "running"
  /\ staging' = IF options'.dry THEN staging ELSE Empty
  /\ UNCHANGED <<hostVars, firmware, loaded, smoke>>

(* The command succeeded. *)
Advance ==
  /\ step' = IF step = Len(Script) THEN step ELSE step + 1
  /\ outcome' = IF step = Len(Script) THEN "complete" ELSE outcome
  /\ UNCHANGED <<attempt, options>>

(* make bitbin *)
Regenerate ==
  /\ At("regenerate")
  /\ host' = IF options.regenerate THEN [host EXCEPT !["bit.bin"] = bit] ELSE host
  /\ Advance
  /\ UNCHANGED <<bit, sound, boardVars, smoke>>

(* pre_deploy_check.py: the bit.bin is compared with the bitstream, *)
BitBinMatches == host["bit.bin"] = bit

(* ... and the other files are looked at one by one. The script passes it  *)
(* no metrics, and without metrics its timing and resource rules pass.     *)
FilesSound == sound

PreDeployCheckPasses_Unmatched == FilesSound

PreDeployCheckPasses == FilesSound /\ BitBinMatches

Precheck ==
  /\ At("precheck")
  /\ options.precheck => PreDeployCheckPasses
  /\ Advance
  /\ UNCHANGED <<hostVars, boardVars, smoke>>

(* xmutil unloadapp || true: the overlay may still be there afterwards. *)
Unload ==
  /\ At("unload")
  /\ loaded' \in {loaded, Empty}
  /\ Advance
  /\ UNCHANGED <<hostVars, staging, firmware, smoke>>

(* The commands that change no file: mkdir, rm -rf of staging, ls. *)
Housekeeping ==
  /\ At("mkdir") \/ At("cleanup") \/ At("verify")
  /\ staging' = IF At("cleanup") THEN Empty ELSE staging
  /\ Advance
  /\ UNCHANGED <<hostVars, firmware, loaded, smoke>>

CopyStep(f)    == CASE f = "bit.bin" -> "copy bit.bin" [] f = "dtbo" -> "copy dtbo"
                    [] f = "shell.json" -> "copy shell.json"
InstallStep(f) == CASE f = "bit.bin" -> "install bit.bin" [] f = "dtbo" -> "install dtbo"
                    [] f = "shell.json" -> "install shell.json"

(* scp_to *)
CopyToBoard(f) ==
  /\ At(CopyStep(f))
  /\ staging' = [staging EXCEPT ![f] = [build |-> host[f], by |-> attempt, whole |-> TRUE]]
  /\ Advance
  /\ UNCHANGED <<hostVars, firmware, loaded, smoke>>

(* ssh_run "cp -f ..." *)
Install(f) ==
  /\ At(InstallStep(f))
  /\ firmware' = [firmware EXCEPT ![f] = staging[f]]
  /\ Advance
  /\ UNCHANGED <<hostVars, staging, loaded, smoke>>

(* xmutil loadapp *)
LoadOverlay ==
  /\ At("load")
  /\ loaded' = firmware
  /\ Advance
  /\ UNCHANGED <<hostVars, staging, firmware, smoke>>

(* A command fails, or the script is killed: a file being copied may be    *)
(* left half written, and the PL empty.                                    *)
Torn(files, steps(_)) == [f \in Files |-> IF At(steps(f)) THEN [files[f] EXCEPT !.whole = FALSE] ELSE files[f]]

LeaveHalfDone ==
  /\ firmware' \in {firmware, Torn(firmware, InstallStep)}
  /\ staging' \in {staging, Torn(staging, CopyStep)}
  /\ loaded' \in IF At("load") THEN {loaded, Empty} ELSE {loaded}

CommandFails_Ignored ==
  /\ Running
  /\ LeaveHalfDone
  /\ Advance
  /\ UNCHANGED <<hostVars, smoke>>

CommandFails ==
  /\ Running
  /\ LeaveHalfDone
  /\ outcome' = "failed"
  /\ UNCHANGED <<hostVars, attempt, options, step, smoke>>

Reboot ==
  /\ ~Running
  /\ loaded # Empty
  /\ loaded' = Empty
  /\ UNCHANGED <<hostVars, attempt, options, step, outcome, staging, firmware, smoke>>

(* check_uio, check_axil_flags, dmesg_tail: the overlay's window is mapped *)
(* and its registers can be read over ssh. What the flags and the kernel   *)
(* log say is printed and decides nothing.                                 *)
WindowReadable(reachable) == loaded # Empty /\ reachable

(* post_deploy_smoke.py; its dry run sends nothing and changes nothing. *)
PostDeploySmoke ==
  /\ ~Running
  /\ \E reachable \in BOOLEAN :
       smoke' = IF WindowReadable(reachable) THEN "pass" ELSE "fail"
  /\ UNCHANGED <<hostVars, attempt, options, step, outcome, boardVars>>

Next ==
  \/ Rebuild \/ Begin \/ Regenerate \/ Precheck \/ Unload \/ Housekeeping
  \/ \E f \in Files : CopyToBoard(f) \/ Install(f)
  \/ LoadOverlay \/ CommandFails \/ Reboot \/ PostDeploySmoke

Spec == Init /\ [][Next]_vars

-----------------------------------------------------------------------------
(* Properties.                                                             *)

\* The PL is never programmed from half a file, nor from files that two
\* attempts left in the firmware tree, however often deploys fail half way
\* and are started again.
NeverLoadsMixed ==
  loaded # Empty =>
    /\ \A f \in Files : loaded[f].whole
    /\ \A f, g \in Files : loaded[f].by = loaded[g].by

\* When the script reports completion, the firmware tree holds this
\* attempt's files, whole, and the PL was programmed from them (and has
\* kept them unless the board rebooted since).
CompleteIsProgrammed ==
  (outcome = "complete" /\ ~options.dry) =>
    /\ \A f \in Files : firmware[f].whole /\ firmware[f].by = attempt
    /\ loaded \in {Empty, firmware}

\* The two checks mean what they say. An attempt that runs the pre-deploy
\* check programs the PL from the bitstream it was started with, never from an
\* older bit.bin; and a smoke test that passes after a completed deployment,
\* whatever happened to the board in between, found the PL programmed from
\* that deployment's files.
CheckedIsProgrammed ==
  [][/\ LoadOverlay /\ options.precheck => loaded'["bit.bin"].build = bit
     /\ PostDeploySmoke /\ smoke' = "pass" /\ outcome = "complete" /\ ~options.dry =>
          \A f \in Files : loaded[f].by = attempt /\ loaded[f].whole]_vars

=============================================================================
