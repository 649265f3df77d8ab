--------------------------- MODULE DeployFlowProofs ---------------------------
(***************************************************************************)
(* Theorems about DeployFlow for any number of attempts and rebuilds.      *)
(***************************************************************************)
EXTENDS DeployFlow, TLAPS

Steps == 1 .. 13

TypeOK ==
  /\ bit \in Builds /\ host \in [Files -> Builds] /\ sound \in BOOLEAN
  /\ attempt \in Attempts /\ options \in Options
  /\ step \in {0} \cup Steps
  /\ outcome \in {"none", "running", "complete", "failed"}
  /\ staging \in [Files -> Content]
  /\ firmware \in [Files -> Content]
  /\ loaded \in [Files -> Content]
  /\ smoke \in {"none", "pass", "fail"}

\* The steps after which a file is on the board, and after which it is in the
\* firmware tree.
CopiedFrom(f) == CASE f = "bit.bin" -> 6 [] f = "dtbo" -> 7 [] f = "shell.json" -> 8
InstalledFrom(f) == CASE f = "bit.bin" -> 9 [] f = "dtbo" -> 10 [] f = "shell.json" -> 11

Ours(content) == content.whole /\ content.by = attempt

\* How far a running attempt has come says which files are its own.
Progress ==
  Running =>
    /\ ~options.dry /\ step \in Steps
    /\ \A f \in Files :
         /\ step >= CopiedFrom(f) /\ step <= 11 => Ours(staging[f])
         /\ step >= InstalledFrom(f) => Ours(firmware[f])
    /\ step >= 13 => loaded = firmware

\* What the pre-deploy check compared stays what is copied and installed.
Checked ==
  Running /\ options.precheck =>
    /\ step >= 3 => host["bit.bin"] = bit
    /\ step >= 6 /\ step <= 11 => staging["bit.bin"].build = bit
    /\ step >= 9 => firmware["bit.bin"].build = bit

IInv == TypeOK /\ Progress /\ Checked /\ NeverLoadsMixed /\ CompleteIsProgrammed

-----------------------------------------------------------------------------
(* Where in the script a command stands.                                   *)

LEMMA ScriptSteps ==
  ASSUME Progress
  PROVE  /\ Len(Script) = 13
         /\ At("regenerate") <=> Running /\ step = 1
         /\ At("precheck") <=> Running /\ step = 2
         /\ At("unload") <=> Running /\ step = 3
         /\ At("mkdir") <=> Running /\ step = 4
         /\ At("copy bit.bin") <=> Running /\ step = 5
         /\ At("copy dtbo") <=> Running /\ step = 6
         /\ At("copy shell.json") <=> Running /\ step = 7
         /\ At("install bit.bin") <=> Running /\ step = 8
         /\ At("install dtbo") <=> Running /\ step = 9
         /\ At("install shell.json") <=> Running /\ step = 10
         /\ At("cleanup") <=> Running /\ step = 11
         /\ At("load") <=> Running /\ step = 12
         /\ At("verify") <=> Running /\ step = 13
  <1>1. /\ Len(Script) = 13
        /\ Script[1] = "regenerate"
        /\ Script[2] = "precheck"
        /\ Script[3] = "unload"
        /\ Script[4] = "mkdir"
        /\ Script[5] = "copy bit.bin"
        /\ Script[6] = "copy dtbo"
        /\ Script[7] = "copy shell.json"
        /\ Script[8] = "install bit.bin"
        /\ Script[9] = "install dtbo"
        /\ Script[10] = "install shell.json"
        /\ Script[11] = "cleanup"
        /\ Script[12] = "load"
        /\ Script[13] = "verify"
    BY DEF Script
  <1>2. Running => step \in {1, 2, 3, 4, 5, 6, 7, 8, 9, 10, 11, 12, 13}
    BY DEF Progress, Steps
  <1> QED
    BY <1>1, <1>2, ZenonT(60) DEF At

-----------------------------------------------------------------------------
(* The inductive invariant.                                                *)

LEMMA Bounds ==
  /\ MaxAttempts \in Nat /\ MaxBuilds \in Nat
  /\ 0 \in Attempts /\ 0 \in Builds
  /\ Empty \in [Files -> Content]
  <1>1. MaxAttempts \in Nat /\ MaxBuilds \in Nat
    BY DeployAssumption
  <1>2. 0 \in Attempts /\ 0 \in Builds
    BY <1>1 DEF Attempts, Builds
  <1>3. [build |-> 0, by |-> 0, whole |-> FALSE] \in Content
    BY <1>2 DEF Content
  <1> QED
    BY <1>1, <1>2, <1>3 DEF Empty

LEMMA InvInit == Init => IInv
  <1> SUFFICES ASSUME Init
               PROVE  IInv
    OBVIOUS
  <1>1. TypeOK
    <2>1. options \in Options
      BY DEF Init, Options
    <2>2. sound \in BOOLEAN
      BY DEF Init
    <2> QED
      BY <2>1, <2>2, Bounds DEF Init, TypeOK
  <1>2. ~Running /\ outcome # "complete" /\ loaded = Empty
    BY DEF Init, Running
  <1> QED
    BY <1>1, <1>2 DEF IInv, Progress, Checked, NeverLoadsMixed, CompleteIsProgrammed

LEMMA TypeStep ==
  ASSUME TypeOK, Progress, [Next]_vars
  PROVE  TypeOK'
  <1> USE DEF TypeOK
  <1>1. CASE Rebuild
    <2>1. bit + 1 \in Builds
      BY <1>1, Bounds DEF Rebuild, Builds
    <2>2. host' \in [Files -> Builds]
      BY <1>1, <2>1 DEF Rebuild
    <2>3. sound' \in BOOLEAN /\ bit' = bit + 1
          /\ UNCHANGED <<attempt, options, step, outcome, staging, firmware, loaded, smoke>>
      BY <1>1 DEF Rebuild, boardVars
    <2> QED
      BY <2>1, <2>2, <2>3
  <1>2. CASE Begin
    <2>1. attempt + 1 \in Attempts
      BY <1>2, Bounds DEF Begin, Attempts
    <2>2. staging' \in [Files -> Content]
      BY <1>2, Bounds DEF Begin
    <2>3. outcome' \in {"complete", "running"} /\ step' = 1 /\ options' \in Options
          /\ attempt' = attempt + 1 /\ UNCHANGED <<bit, host, sound, firmware, loaded, smoke>>
      BY <1>2 DEF Begin, hostVars
    <2>4. 1 \in Steps
      BY DEF Steps
    <2> QED
      BY <2>1, <2>2, <2>3, <2>4
  <1>3. ASSUME Advance, Running
        PROVE  UNCHANGED <<attempt, options>> /\ step' \in {0} \cup Steps
               /\ outcome' \in {"none", "running", "complete", "failed"}
    <2>1. Len(Script) = 13
      BY ScriptSteps
    <2>2. step \in 1 .. 13
      BY <1>3 DEF Progress, Steps
    <2>3. step' \in 1 .. 13
      BY <1>3, <2>1, <2>2 DEF Advance
    <2> QED
      BY <1>3, <2>3 DEF Advance, Steps
  <1>4. CASE Regenerate
    BY <1>3, <1>4 DEF Regenerate, At, boardVars, Files
  <1>5. CASE Precheck \/ Unload \/ Housekeeping \/ LoadOverlay
    BY <1>3, <1>5, Bounds DEF Precheck, Unload, Housekeeping, LoadOverlay, At, hostVars, boardVars
  <1>6. ASSUME NEW f \in Files, CopyToBoard(f) \/ Install(f)
        PROVE  TypeOK'
    <2>1. [build |-> host[f], by |-> attempt, whole |-> TRUE] \in Content /\ staging[f] \in Content
      BY DEF Content
    <2> QED
      BY <1>3, <1>6, <2>1 DEF CopyToBoard, Install, At, hostVars
  <1>7. CASE CommandFails
    <2>1. \A c \in Content : [c EXCEPT !.whole = FALSE] \in Content
      BY DEF Content
    <2>3. Torn(firmware, InstallStep) \in [Files -> Content] /\ Torn(staging, CopyStep) \in [Files -> Content]
      BY <2>1 DEF Torn
    <2> QED
      BY <1>7, <2>3, Bounds DEF CommandFails, LeaveHalfDone, hostVars
  <1>8. CASE Reboot \/ PostDeploySmoke
    BY <1>8, Bounds DEF Reboot, PostDeploySmoke, hostVars, boardVars
  <1>9. CASE UNCHANGED vars
    BY <1>9 DEF vars, hostVars, boardVars
  <1> QED
    BY <1>1, <1>2, <1>4, <1>5, <1>6, <1>7, <1>8, <1>9 DEF Next

-----------------------------------------------------------------------------
(* What one command of the script keeps.                                   *)

\* A file is copied one step before CopiedFrom, installed one before InstalledFrom.
LEMMA FileCommands ==
  ASSUME Progress, NEW f \in Files
  PROVE  /\ At(CopyStep(f)) <=> Running /\ step + 1 = CopiedFrom(f)
         /\ At(InstallStep(f)) <=> Running /\ step + 1 = InstalledFrom(f)
         /\ CopiedFrom(f) \in 6 .. 8 /\ InstalledFrom(f) \in 9 .. 11
  <1>1. Running => step \in 1 .. 13
    BY DEF Progress, Steps
  <1>2. /\ CopiedFrom(f) \in 6 .. 8 /\ InstalledFrom(f) \in 9 .. 11
    BY DEF Files, CopiedFrom, InstalledFrom
  <1>3. At(CopyStep(f)) <=> Running /\ step + 1 = CopiedFrom(f)
    <2>1. CASE f = "bit.bin"
      <3>1. CopyStep(f) = "copy bit.bin" /\ CopiedFrom(f) = 6
        BY <2>1 DEF CopyStep, CopiedFrom
      <3>2. At("copy bit.bin") <=> Running /\ step = 5
        BY ScriptSteps
      <3>3. Running => (step = 5 <=> step + 1 = 6)
        BY <1>1
      <3> QED
        BY <3>1, <3>2, <3>3, Zenon
    <2>2. CASE f = "dtbo"
      <3>1. CopyStep(f) = "copy dtbo" /\ CopiedFrom(f) = 7
        BY <2>2 DEF CopyStep, CopiedFrom
      <3>2. At("copy dtbo") <=> Running /\ step = 6
        BY ScriptSteps
      <3>3. Running => (step = 6 <=> step + 1 = 7)
        BY <1>1
      <3> QED
        BY <3>1, <3>2, <3>3, Zenon
    <2>3. CASE f = "shell.json"
      <3>1. CopyStep(f) = "copy shell.json" /\ CopiedFrom(f) = 8
        BY <2>3 DEF CopyStep, CopiedFrom
      <3>2. At("copy shell.json") <=> Running /\ step = 7
        BY ScriptSteps
      <3>3. Running => (step = 7 <=> step + 1 = 8)
        BY <1>1
      <3> QED
        BY <3>1, <3>2, <3>3, Zenon
    <2> QED
      BY <2>1, <2>2, <2>3 DEF Files
  <1>4. At(InstallStep(f)) <=> Running /\ step + 1 = InstalledFrom(f)
    <2>1. CASE f = "bit.bin"
      <3>1. InstallStep(f) = "install bit.bin" /\ InstalledFrom(f) = 9
        BY <2>1 DEF InstallStep, InstalledFrom
      <3>2. At("install bit.bin") <=> Running /\ step = 8
        BY ScriptSteps
      <3>3. Running => (step = 8 <=> step + 1 = 9)
        BY <1>1
      <3> QED
        BY <3>1, <3>2, <3>3, Zenon
    <2>2. CASE f = "dtbo"
      <3>1. InstallStep(f) = "install dtbo" /\ InstalledFrom(f) = 10
        BY <2>2 DEF InstallStep, InstalledFrom
      <3>2. At("install dtbo") <=> Running /\ step = 9
        BY ScriptSteps
      <3>3. Running => (step = 9 <=> step + 1 = 10)
        BY <1>1
      <3> QED
        BY <3>1, <3>2, <3>3, Zenon
    <2>3. CASE f = "shell.json"
      <3>1. InstallStep(f) = "install shell.json" /\ InstalledFrom(f) = 11
        BY <2>3 DEF InstallStep, InstalledFrom
      <3>2. At("install shell.json") <=> Running /\ step = 10
        BY ScriptSteps
      <3>3. Running => (step = 10 <=> step + 1 = 11)
        BY <1>1
      <3> QED
        BY <3>1, <3>2, <3>3, Zenon
    <2> QED
      BY <2>1, <2>2, <2>3 DEF Files
  <1> QED
    BY <1>2, <1>3, <1>4

LEMMA Advanced ==
  ASSUME Progress, Running, Advance
  PROVE  /\ step \in 1 .. 13 /\ attempt' = attempt /\ options' = options
         /\ Running' <=> step # 13
         /\ step # 13 => step' = step + 1 /\ outcome' = outcome
         /\ step = 13 => outcome' = "complete"
  <1>1. step \in 1 .. 13
    BY DEF Progress, Steps
  <1>2. Len(Script) = 13
    BY ScriptSteps
  <1> QED
    BY <1>1, <1>2 DEF Advance, Running

\* The commands of the script, one after the other.
ScriptStep ==
  \/ Regenerate \/ Precheck \/ Unload \/ Housekeeping \/ LoadOverlay
  \/ \E f \in Files : CopyToBoard(f) \/ Install(f)

LEMMA ScriptAdvances ==
  ASSUME ScriptStep
  PROVE  Running /\ Advance
  BY DEF ScriptStep, Regenerate, Precheck, Unload, Housekeeping, LoadOverlay, CopyToBoard,
         Install, At

\* What each command does to the files, whatever else it does.
LEMMA StagingKept ==
  ASSUME Progress, TypeOK, ScriptStep, NEW f \in Files
  PROVE  /\ step = 11 \/ step + 1 = CopiedFrom(f) \/ staging'[f] = staging[f]
         /\ step + 1 = CopiedFrom(f) =>
              staging'[f] = [build |-> host[f], by |-> attempt, whole |-> TRUE]
  <1>1. CASE Regenerate \/ Precheck \/ Unload \/ LoadOverlay
    <2>1. staging' = staging
      BY <1>1 DEF Regenerate, Precheck, Unload, LoadOverlay, boardVars
    <2>2. step \in {1, 2, 3, 12}
      BY <1>1, ScriptSteps DEF Regenerate, Precheck, Unload, LoadOverlay
    <2>3. CopiedFrom(f) \in 6 .. 8
      BY FileCommands
    <2> QED
      BY <2>1, <2>2, <2>3
  <1>2. CASE Housekeeping
    <2>1. step \in {4, 11, 13}
      BY <1>2, ScriptSteps DEF Housekeeping
    <2>2. step # 11 => staging' = staging
      BY <1>2, ScriptSteps DEF Housekeeping
    <2>3. CopiedFrom(f) \in 6 .. 8
      BY FileCommands
    <2> QED
      BY <2>1, <2>2, <2>3
  <1>3. ASSUME NEW g \in Files, CopyToBoard(g)
        PROVE  /\ step + 1 = CopiedFrom(f) \/ staging'[f] = staging[f]
               /\ step + 1 = CopiedFrom(f) =>
                    staging'[f] = [build |-> host[f], by |-> attempt, whole |-> TRUE]
    <2>1. step + 1 = CopiedFrom(g)
      BY <1>3, FileCommands DEF CopyToBoard
    <2>2. CopiedFrom(g) = CopiedFrom(f) <=> f = g
      BY DEF Files, CopiedFrom
    <2>3. staging' = [staging EXCEPT ![g] = [build |-> host[g], by |-> attempt, whole |-> TRUE]]
      BY <1>3 DEF CopyToBoard
    <2> QED
      BY <2>1, <2>2, <2>3 DEF TypeOK
  <1>4. ASSUME NEW g \in Files, Install(g)
        PROVE  staging'[f] = staging[f] /\ step + 1 # CopiedFrom(f)
    <2>1. step + 1 = InstalledFrom(g) /\ InstalledFrom(g) \in 9 .. 11 /\ CopiedFrom(f) \in 6 .. 8
      BY <1>4, FileCommands DEF Install
    <2> QED
      BY <1>4, <2>1 DEF Install
  <1> QED
    BY <1>1, <1>2, <1>3, <1>4 DEF ScriptStep

LEMMA FirmwareKept ==
  ASSUME Progress, TypeOK, ScriptStep, NEW f \in Files
  PROVE  firmware'[f] = IF step + 1 = InstalledFrom(f) THEN staging[f] ELSE firmware[f]
  <1>1. CASE Regenerate \/ Precheck \/ Unload \/ LoadOverlay \/ Housekeeping
    <2>1. firmware' = firmware
      BY <1>1 DEF Regenerate, Precheck, Unload, LoadOverlay, Housekeeping, boardVars
    <2>2. step \in {1, 2, 3, 4, 11, 12, 13}
      BY <1>1, ScriptSteps DEF Regenerate, Precheck, Unload, LoadOverlay, Housekeeping
    <2>3. InstalledFrom(f) \in 9 .. 11
      BY FileCommands
    <2> QED
      BY <2>1, <2>2, <2>3
  <1>2. ASSUME NEW g \in Files, CopyToBoard(g)
        PROVE  firmware'[f] = firmware[f] /\ step + 1 # InstalledFrom(f)
    <2>1. step + 1 = CopiedFrom(g) /\ InstalledFrom(f) \in 9 .. 11 /\ CopiedFrom(g) \in 6 .. 8
      BY <1>2, FileCommands DEF CopyToBoard
    <2> QED
      BY <1>2, <2>1 DEF CopyToBoard
  <1>3. ASSUME NEW g \in Files, Install(g)
        PROVE  firmware'[f] = IF step + 1 = InstalledFrom(f) THEN staging[f] ELSE firmware[f]
    <2>1. step + 1 = InstalledFrom(g)
      BY <1>3, FileCommands DEF Install
    <2>2. InstalledFrom(g) = InstalledFrom(f) <=> f = g
      BY DEF Files, InstalledFrom
    <2>3. firmware' = [firmware EXCEPT ![g] = staging[g]]
      BY <1>3 DEF Install
    <2> QED
      BY <2>1, <2>2, <2>3 DEF TypeOK
  <1> QED
    BY <1>1, <1>2, <1>3 DEF ScriptStep

LEMMA LoadedKept ==
  ASSUME Progress, ScriptStep
  PROVE  /\ step = 12 => loaded' = firmware /\ firmware' = firmware
         /\ step # 12 => loaded' \in {loaded, Empty}
         /\ step = 13 => loaded' = loaded /\ firmware' = firmware
  <1>1. CASE Regenerate \/ Precheck \/ Unload
    <2>1. step \in {1, 2, 3}
      BY <1>1, ScriptSteps DEF Regenerate, Precheck, Unload
    <2>2. loaded' \in {loaded, Empty}
      BY <1>1 DEF Regenerate, Precheck, Unload, boardVars
    <2> QED
      BY <2>1, <2>2
  <1>2. CASE Housekeeping
    <2>1. step \in {4, 11, 13} /\ loaded' = loaded /\ firmware' = firmware
      BY <1>2, ScriptSteps DEF Housekeeping
    <2> QED
      BY <2>1
  <1>3. CASE LoadOverlay
    <2>1. step = 12 /\ loaded' = firmware /\ firmware' = firmware
      BY <1>3, ScriptSteps DEF LoadOverlay
    <2> QED
      BY <2>1
  <1>4. ASSUME NEW f \in Files, CopyToBoard(f) \/ Install(f)
        PROVE  loaded' = loaded /\ step \notin {12, 13}
    <2>1. step + 1 = CopiedFrom(f) \/ step + 1 = InstalledFrom(f)
      BY <1>4, FileCommands DEF CopyToBoard, Install
    <2>2. CopiedFrom(f) \in 6 .. 8 /\ InstalledFrom(f) \in 9 .. 11
      BY FileCommands
    <2> QED
      BY <1>4, <2>1, <2>2 DEF CopyToBoard, Install
  <1> QED
    BY <1>1, <1>2, <1>3, <1>4 DEF ScriptStep

LEMMA HostKept ==
  ASSUME Progress, TypeOK, ScriptStep, options.precheck
  PROVE  /\ bit' = bit
         /\ step = 2 \/ (step >= 3 /\ host["bit.bin"] = bit) => host'["bit.bin"] = bit
  <1>1. CASE Regenerate
    <2>1. step = 1
      BY <1>1, ScriptSteps DEF Regenerate
    <2> QED
      BY <1>1, <2>1 DEF Regenerate
  <1>2. CASE Precheck
    BY <1>2 DEF Precheck, PreDeployCheckPasses, BitBinMatches, hostVars
  <1>3. CASE Unload \/ Housekeeping \/ LoadOverlay
    <2>1. host' = host /\ bit' = bit
      BY <1>3 DEF Unload, Housekeeping, LoadOverlay, hostVars
    <2>2. step \in {3, 4, 11, 12, 13}
      BY <1>3, ScriptSteps DEF Unload, Housekeeping, LoadOverlay
    <2> QED
      BY <2>1, <2>2
  <1>4. ASSUME NEW f \in Files, CopyToBoard(f) \/ Install(f)
        PROVE  host' = host /\ bit' = bit /\ step >= 3
    <2>1. step + 1 = CopiedFrom(f) \/ step + 1 = InstalledFrom(f)
      BY <1>4, FileCommands DEF CopyToBoard, Install
    <2>2. CopiedFrom(f) \in 6 .. 8 /\ InstalledFrom(f) \in 9 .. 11 /\ step \in {0} \cup 1 .. 13
      BY FileCommands DEF TypeOK, Steps
    <2> QED
      BY <1>4, <2>1, <2>2 DEF CopyToBoard, Install, hostVars
  <1> QED
    BY <1>1, <1>2, <1>3, <1>4 DEF ScriptStep

-----------------------------------------------------------------------------
(* A command of the script keeps the invariant.                            *)

LEMMA ScriptKeepsProgress ==
  ASSUME TypeOK, Progress, ScriptStep
  PROVE  Progress'
  <1>1. Running /\ Advance
    BY ScriptAdvances
  <1>2. /\ step \in 1 .. 13 /\ attempt' = attempt /\ options' = options
        /\ Running' => step # 13 /\ step' = step + 1
    BY <1>1, Advanced
  <1> SUFFICES ASSUME Running'
               PROVE  Progress'
    BY DEF Progress
  <1>3. step \in 1 .. 12 /\ step' = step + 1
    BY <1>2
  <1>4. ~(options').dry /\ step' \in Steps
    BY <1>1, <1>2, <1>3 DEF Progress, Steps
  <1>5. ASSUME NEW f \in Files
        PROVE  /\ step' >= CopiedFrom(f) /\ step' <= 11 => Ours(staging[f])'
               /\ step' >= InstalledFrom(f) => Ours(firmware[f])'
    <2>1. /\ step >= CopiedFrom(f) /\ step <= 11 => Ours(staging[f])
          /\ step >= InstalledFrom(f) => Ours(firmware[f])
      BY <1>1 DEF Progress
    <2>2. CopiedFrom(f) \in 6 .. 8 /\ InstalledFrom(f) \in 9 .. 11
      BY FileCommands
    <2>3. ASSUME step' >= CopiedFrom(f), step' <= 11
          PROVE  Ours(staging[f])'
      <3>1. CASE step + 1 = CopiedFrom(f)
        <4>1. staging'[f] = [build |-> host[f], by |-> attempt, whole |-> TRUE]
          BY <3>1, StagingKept
        <4> QED
          BY <1>2, <4>1 DEF Ours
      <3>2. CASE step + 1 # CopiedFrom(f)
        <4>1. step >= CopiedFrom(f) /\ step <= 10
          BY <1>3, <2>2, <2>3, <3>2
        <4> QED
          <5>1. staging'[f] = staging[f]
            <6>1. step # 11
              BY <1>3, <4>1
            <6> QED
              BY <3>2, <6>1, StagingKept
          <5> QED
            BY <1>2, <2>1, <4>1, <5>1 DEF Ours
      <3> QED
        BY <3>1, <3>2
    <2>4. ASSUME step' >= InstalledFrom(f)
          PROVE  Ours(firmware[f])'
      <3>1. CASE step + 1 = InstalledFrom(f)
        <4>1. step >= CopiedFrom(f) /\ step <= 11
          BY <1>3, <2>2, <3>1
        <4> QED
          BY <1>2, <2>1, <3>1, <4>1, FirmwareKept DEF Ours
      <3>2. CASE step + 1 # InstalledFrom(f)
        <4>1. step >= InstalledFrom(f)
          BY <1>3, <2>2, <2>4, <3>2
        <4> QED
          BY <1>2, <2>1, <3>2, <4>1, FirmwareKept DEF Ours
      <3> QED
        BY <3>1, <3>2
    <2> QED
      BY <2>3, <2>4
  <1>6. step' >= 13 => loaded' = firmware'
    BY <1>3, LoadedKept
  <1> QED
    BY <1>4, <1>5, <1>6 DEF Progress

LEMMA ScriptKeepsChecked ==
  ASSUME TypeOK, Progress, Checked, ScriptStep
  PROVE  Checked'
  <1>1. Running /\ Advance
    BY ScriptAdvances
  <1>2. /\ step \in 1 .. 13 /\ options' = options
        /\ Running' => step # 13 /\ step' = step + 1
    BY <1>1, Advanced
  <1> SUFFICES ASSUME Running', options.precheck
               PROVE  Checked'
    BY <1>2 DEF Checked
  <1>3. step \in 1 .. 12 /\ step' = step + 1
    BY <1>2
  <1>4. /\ step >= 3 => host["bit.bin"] = bit
        /\ step >= 6 /\ step <= 11 => staging["bit.bin"].build = bit
        /\ step >= 9 => firmware["bit.bin"].build = bit
    BY <1>1 DEF Checked
  <1>5. "bit.bin" \in Files /\ CopiedFrom("bit.bin") = 6 /\ InstalledFrom("bit.bin") = 9
    BY DEF Files, CopiedFrom, InstalledFrom
  <1>6. bit' = bit /\ (step' >= 3 => host'["bit.bin"] = bit)
    <2>1. step' >= 3 => step = 2 \/ (step >= 3 /\ host["bit.bin"] = bit)
      BY <1>3, <1>4
    <2> QED
      BY <2>1, HostKept
  <1>7. step' >= 6 /\ step' <= 11 => staging'["bit.bin"].build = bit
    <2>1. CASE step = 5
      <3>1. staging'["bit.bin"] = [build |-> host["bit.bin"], by |-> attempt, whole |-> TRUE]
        BY <1>5, <2>1, StagingKept
      <3> QED
        BY <1>4, <2>1, <3>1
    <2>2. CASE step \in 6 .. 10
      <3>1. staging'["bit.bin"] = staging["bit.bin"]
        <4>1. step # 11 /\ step + 1 # 6
          BY <2>2
        <4> QED
          BY <1>5, <4>1, StagingKept
      <3> QED
        BY <1>4, <2>2, <3>1
    <2> QED
      BY <1>3, <2>1, <2>2
  <1>8. step' >= 9 => firmware'["bit.bin"].build = bit
    <2>1. firmware'["bit.bin"] = IF step + 1 = 9 THEN staging["bit.bin"] ELSE firmware["bit.bin"]
      BY <1>5, FirmwareKept
    <2> QED
      BY <1>3, <1>4, <2>1
  <1> QED
    BY <1>6, <1>7, <1>8 DEF Checked

\* All files of the firmware tree are this attempt's: what is loaded now is.
LEMMA OursIsWhole ==
  ASSUME Progress, Running, step \in {12, 13}
  PROVE  \A f \in Files : firmware[f].whole /\ firmware[f].by = attempt
  <1> SUFFICES ASSUME NEW f \in Files
               PROVE  firmware[f].whole /\ firmware[f].by = attempt
    OBVIOUS
  <1>1. step >= InstalledFrom(f)
    BY FileCommands
  <1> QED
    BY <1>1 DEF Progress, Ours

LEMMA ScriptKeepsBoard ==
  ASSUME TypeOK, Progress, NeverLoadsMixed, ScriptStep
  PROVE  NeverLoadsMixed' /\ CompleteIsProgrammed'
  <1>1. Running /\ Advance
    BY ScriptAdvances
  <1>2. NeverLoadsMixed'
    <2>1. CASE step = 12
      <3>1. loaded' = firmware
        BY <2>1, LoadedKept
      <3>2. \A f \in Files : firmware[f].whole /\ firmware[f].by = attempt
        BY <1>1, <2>1, OursIsWhole
      <3> QED
        BY <3>1, <3>2 DEF NeverLoadsMixed
    <2>2. CASE step # 12
      <3>1. loaded' \in {loaded, Empty}
        BY <2>2, LoadedKept
      <3> QED
        BY <3>1 DEF NeverLoadsMixed
    <2> QED
      BY <2>1, <2>2
  <1>3. CompleteIsProgrammed'
    <2> SUFFICES ASSUME outcome' = "complete"
                 PROVE  CompleteIsProgrammed'
      BY DEF CompleteIsProgrammed
    <2>1. step = 13 /\ attempt' = attempt
      BY <1>1, Advanced DEF Running
    <2>2. \A f \in Files : firmware[f].whole /\ firmware[f].by = attempt
      BY <1>1, <2>1, OursIsWhole
    <2>3. loaded' = loaded /\ firmware' = firmware /\ loaded = firmware
      BY <1>1, <2>1, LoadedKept DEF Progress
    <2> QED
      BY <2>1, <2>2, <2>3 DEF CompleteIsProgrammed
  <1> QED
    BY <1>2, <1>3

-----------------------------------------------------------------------------
(* ... and so does everything else that happens.                           *)

LEMMA OtherKeeps ==
  ASSUME IInv, Rebuild \/ Begin \/ CommandFails \/ Reboot \/ PostDeploySmoke \/ UNCHANGED vars
  PROVE  Progress' /\ Checked' /\ NeverLoadsMixed' /\ CompleteIsProgrammed'
  <1>1. CASE Rebuild \/ PostDeploySmoke
    <2>1. ~Running /\ UNCHANGED <<attempt, options, step, outcome, firmware, loaded>>
      BY <1>1 DEF Rebuild, PostDeploySmoke, boardVars
    <2>2. ~Running'
      BY <2>1 DEF Running
    <2> QED
      BY <2>1, <2>2 DEF IInv, Progress, Checked, NeverLoadsMixed, CompleteIsProgrammed
  <1>2. CASE Begin
    <2>1. step' = 1 /\ UNCHANGED <<firmware, loaded>>
          /\ outcome' = IF (options').dry THEN "complete" ELSE "running"
      BY <1>2 DEF Begin
    <2>2. Progress'
      <3>1. Running' => ~(options').dry
        BY <2>1 DEF Running
      <3>2. \A f \in Files : CopiedFrom(f) \in 6 .. 8 /\ InstalledFrom(f) \in 9 .. 11
        BY FileCommands DEF IInv
      <3>3. \A f \in Files : ~(step' >= CopiedFrom(f)) /\ ~(step' >= InstalledFrom(f))
        BY <2>1, <3>2
      <3> QED
        BY <2>1, <3>1, <3>3 DEF Progress, Steps
    <2>3. Checked'
      BY <2>1 DEF Checked
    <2>4. NeverLoadsMixed'
      BY <2>1 DEF IInv, NeverLoadsMixed
    <2>5. CompleteIsProgrammed'
      BY <2>1 DEF CompleteIsProgrammed
    <2> QED
      BY <2>2, <2>3, <2>4, <2>5
  <1>3. CASE CommandFails
    <2>1. outcome' = "failed" /\ loaded' \in {loaded, Empty}
      BY <1>3 DEF CommandFails, LeaveHalfDone
    <2>2. ~Running'
      BY <2>1 DEF Running
    <2> QED
      BY <2>1, <2>2 DEF IInv, Progress, Checked, NeverLoadsMixed, CompleteIsProgrammed
  <1>4. CASE Reboot
    <2>1. ~Running /\ loaded' = Empty /\ UNCHANGED <<attempt, options, step, outcome, firmware>>
      BY <1>4 DEF Reboot
    <2>2. ~Running'
      BY <2>1 DEF Running
    <2> QED
      BY <2>1, <2>2 DEF IInv, Progress, Checked, NeverLoadsMixed, CompleteIsProgrammed
  <1>5. CASE UNCHANGED vars
    BY <1>5 DEF IInv, Progress, Checked, NeverLoadsMixed, CompleteIsProgrammed, Running, Ours,
                vars, hostVars, boardVars
  <1> QED
    BY <1>1, <1>2, <1>3, <1>4, <1>5

LEMMA InvStep == IInv /\ [Next]_vars => IInv'
  <1> SUFFICES ASSUME IInv, [Next]_vars
               PROVE  IInv'
    OBVIOUS
  <1>1. TypeOK'
    BY TypeStep DEF IInv
  <1>2. CASE ScriptStep
    <2>1. Progress' /\ Checked'
      BY <1>2, ScriptKeepsProgress, ScriptKeepsChecked DEF IInv
    <2>2. NeverLoadsMixed' /\ CompleteIsProgrammed'
      BY <1>2, ScriptKeepsBoard DEF IInv
    <2> QED
      BY <1>1, <2>1, <2>2 DEF IInv
  <1>3. CASE Rebuild \/ Begin \/ CommandFails \/ Reboot \/ PostDeploySmoke \/ UNCHANGED vars
    <2>1. Progress' /\ Checked' /\ NeverLoadsMixed' /\ CompleteIsProgrammed'
      BY <1>3, OtherKeeps
    <2> QED
      BY <1>1, <2>1 DEF IInv
  <1>4. ScriptStep \/ Rebuild \/ Begin \/ CommandFails \/ Reboot \/ PostDeploySmoke \/ UNCHANGED vars
    BY DEF Next, ScriptStep
  <1> QED
    BY <1>2, <1>3, <1>4

LEMMA Invariance == Spec => []IInv
  BY InvInit, InvStep, PTL DEF Spec

-----------------------------------------------------------------------------
\* The PL is never programmed from half a file, nor from files of two attempts
\* (deploy_to_kv260.sh loads after it installed all of them).
THEOREM NeverMixed == Spec => []NeverLoadsMixed
  <1>1. IInv => NeverLoadsMixed
    BY DEF IInv
  <1> QED
    BY <1>1, Invariance, PTL

\* A completed attempt leaves its own files, whole, in the firmware tree and
\* the PL programmed from them, unless the board rebooted since.
THEOREM CompleteMeansProgrammed == Spec => []CompleteIsProgrammed
  <1>1. IInv => CompleteIsProgrammed
    BY DEF IInv
  <1> QED
    BY <1>1, Invariance, PTL

\* What the pre-deploy check compared is what the PL is programmed from, and a
\* smoke test that passes found the completed deployment's files.
THEOREM CheckedMeansProgrammed == Spec => CheckedIsProgrammed
  <1> DEFINE Load == LoadOverlay /\ options.precheck => loaded'["bit.bin"].build = bit
             Smoke == PostDeploySmoke /\ smoke' = "pass" /\ outcome = "complete" /\ ~options.dry =>
                        \A f \in Files : loaded[f].by = attempt /\ loaded[f].whole
  <1>1. ASSUME IInv PROVE Load
    <2> SUFFICES ASSUME LoadOverlay, options.precheck
                 PROVE  loaded'["bit.bin"].build = bit
      OBVIOUS
    <2>1. Running /\ step = 12
      BY <1>1, ScriptSteps DEF IInv, LoadOverlay, At
    <2>2. firmware["bit.bin"].build = bit
      BY <1>1, <2>1 DEF IInv, Checked
    <2> QED
      BY <2>2 DEF LoadOverlay
  <1>2. ASSUME IInv PROVE Smoke
    <2> SUFFICES ASSUME PostDeploySmoke, smoke' = "pass", outcome = "complete", ~options.dry,
                        NEW f \in Files
                 PROVE  loaded[f].by = attempt /\ loaded[f].whole
      OBVIOUS
    <2>1. loaded # Empty
      BY DEF PostDeploySmoke, WindowReadable
    <2> QED
      BY <1>2, <2>1 DEF IInv, CompleteIsProgrammed
  <1>3. IInv => [Load /\ Smoke]_vars
    BY <1>1, <1>2
  <1> QED
    BY <1>3, Invariance, PTL DEF CheckedIsProgrammed
=============================================================================
