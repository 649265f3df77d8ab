-------------------------- MODULE ServerDaemonProofs --------------------------
(***************************************************************************)
(* Theorems about ServerDaemon for any sizes of the kernel log's windows   *)
(* and any bounds on the clock and the log.                                *)
(***************************************************************************)
EXTENDS ServerDaemon, SequenceTheorems, WellFoundedInduction, TLAPS

-----------------------------------------------------------------------------
(* The model's load, from the start of the daemon to its exit.             *)

LifeOK ==
  /\ phase \in {"starting", "serving", "draining", "telemetry", "load", "stopped", "exited"}
  /\ task \in {"none", "running", "cancelled", "done"}
  /\ loader \in {"none", "running", "built", "raised"}
  /\ session \in {"none", "open", "closed"}
  /\ modelPath \in BOOLEAN /\ loading \in BOOLEAN /\ loadError \in BOOLEAN

\* What startup, the load task and its thread have left behind, by the state of
\* the task.
TaskAgrees ==
  /\ task = "none" =>
       /\ session = "none" /\ ~loading /\ ~loadError /\ loader = "none"
       /\ modelPath => phase = "starting"
  /\ task \in {"running", "cancelled"} =>
       session = "none" /\ loading /\ ~loadError /\ loader # "none"
  /\ task = "done" =>
       /\ ~loading /\ loader # "none"
       /\ session # "none" => ~loadError /\ loader = "built"

\* Until cleanup comes to the load, a task that is done has stored a session
\* or an error, and nobody has cancelled or closed anything; after it no task
\* is left that could store another one.
CleanupOrder ==
  /\ phase = "starting" => task = "none"
  /\ phase \in {"starting", "serving", "draining", "telemetry"} =>
       /\ task # "cancelled" /\ session # "closed"
       /\ task = "done" => (loader = "built" /\ session = "open" /\ ~loadError)
                             \/ (loader = "raised" /\ session = "none" /\ loadError)
  /\ phase \in {"load", "stopped", "exited"} => task # "running"
  /\ phase \in {"stopped", "exited"} => task \in {"none", "done"} /\ session # "open"

LifeInv == LifeOK /\ TaskAgrees /\ CleanupOrder

LEMMA LifeInit == Init => LifeInv
  BY DEF Init, LifeInv, LifeOK, TaskAgrees, CleanupOrder

LEMMA LifeStep == LifeInv /\ [Next]_vars => LifeInv'
  <1> SUFFICES ASSUME LifeInv, [Next]_vars
               PROVE  LifeInv'
    OBVIOUS
  <1> USE DEF LifeInv, LifeOK, TaskAgrees, CleanupOrder
  <1>1. CASE Startup
    BY <1>1 DEF Startup
  <1>2. CASE LoaderEnds
    BY <1>2 DEF LoaderEnds
  <1>3. CASE LoadModelEnds
    BY <1>3 DEF LoadModelEnds
  <1>4. CASE LoadModelCancelled
    BY <1>4 DEF LoadModelCancelled
  <1>5. CASE Tick \/ Status \/ LoopWakes \/ KernelLogs \/ Collect \/ LoopEmits \/ LoopCancelled
    <2>1. UNCHANGED lifeVars
      BY <1>5 DEF Tick, Status, LoopWakes, KernelLogs, Collect, LoopEmits, LoopCancelled
    <2> QED
      BY <2>1 DEF lifeVars
  <1>6. CASE ChatStarts \/ ChatPolls \/ ChatEnds
    BY <1>6 DEF ChatStarts, ChatPolls, ChatEnds, lifeVars
  <1>7. CASE Stop
    BY <1>7 DEF Stop
  <1>8. CASE CleanUpTelemetry
    BY <1>8 DEF CleanUpTelemetry
  <1>9. CASE CleanUpLoad
    BY <1>9 DEF CleanUpLoad
  <1>10. CASE CleanUpSession
    BY <1>10 DEF CleanUpSession
  <1>11. CASE Exit
    BY <1>11 DEF Exit
  <1>12. CASE UNCHANGED vars
    BY <1>12 DEF vars, lifeVars
  <1> QED
    BY <1>1, <1>2, <1>3, <1>4, <1>5, <1>6, <1>7, <1>8, <1>9, <1>10, <1>11, <1>12
       DEF Next, CleanUp

LEMMA LifeAlways == Spec => []LifeInv
  BY LifeInit, LifeStep, PTL DEF Spec

(* Whatever the order in which the load ends and the signal comes, a       *)
(* client is never told of a model that is not there, of a failure that    *)
(* did not happen, or of none when the load failed.                        *)
THEOREM HealthTruthful == Spec => []HealthIsTruthful
  <1>1. LifeInv => HealthIsTruthful
    BY DEF LifeInv, LifeOK, TaskAgrees, CleanupOrder, HealthIsTruthful, ModelLoaded, HealthStatus
  <1> QED
    BY <1>1, LifeAlways, PTL

(* Cleanup ends with no session open, though it cannot stop the thread     *)
(* that constructs one.                                                    *)
THEOREM CleanupComplete == Spec => []NothingLeftOpen
  <1>1. LifeInv => NothingLeftOpen
    BY DEF LifeInv, LifeOK, TaskAgrees, CleanupOrder, NothingLeftOpen
  <1> QED
    BY <1>1, LifeAlways, PTL

-----------------------------------------------------------------------------
(* The time the NPU was busy.                                              *)

BusyOK ==
  /\ clock \in Nat /\ busyTotal \in Int /\ npuBusy \in BOOLEAN
  /\ sampled \in [at : Nat, busy : BOOLEAN, sum : Int]
  /\ busySince = {} \/ \E t \in Nat : busySince = {t}

\* An interval is open exactly if the last sample found the NPU busy, and the
\* total with that interval up to the last sample is the sampled time.
BusyInv ==
  /\ BusyOK
  /\ busySince = {} <=> ~sampled.busy
  /\ BusyDuration = sampled.sum

LEMMA BusyInit == Init => BusyInv
  <1> SUFFICES ASSUME Init
               PROVE  BusyInv
    OBVIOUS
  <1>1. /\ clock = 0 /\ npuBusy = FALSE /\ busySince = {} /\ busyTotal = 0
        /\ sampled = [at |-> 0, busy |-> FALSE, sum |-> 0]
    BY DEF Init
  <1>2. BusyOK
    <2>1. npuBusy \in BOOLEAN
      BY <1>1
    <2>2. sampled \in [at : Nat, busy : BOOLEAN, sum : Int]
      BY <1>1
    <2>3. clock \in Nat /\ busyTotal \in Int
      BY <1>1
    <2> QED
      BY <1>1, <2>1, <2>2, <2>3 DEF BusyOK
  <1>3. BusyDuration = 0
    BY <1>1 DEF BusyDuration
  <1> QED
    BY <1>1, <1>2, <1>3 DEF BusyInv

LEMMA SampleKeepsBusy == BusyInv /\ Sample => BusyInv'
  <1> SUFFICES ASSUME BusyInv, Sample
               PROVE  BusyInv'
    OBVIOUS
  <1>1. sampled' = [at |-> clock, busy |-> npuBusy,
                    sum |-> sampled.sum + IF sampled.busy THEN clock - sampled.at ELSE 0]
        /\ clock' = clock /\ npuBusy' = npuBusy
    BY DEF Sample, ReadNpuStatus
  <1>2. CASE busySince = {}
    <2>1. busyTotal' = busyTotal /\ busySince' = IF npuBusy THEN {clock} ELSE {}
      BY <1>2 DEF Sample, Annotated, ReadNpuStatus, BusyInv, BusyOK
    <2>2. sampled.sum = busyTotal /\ sampled.sum \in Int /\ ~sampled.busy
      BY <1>2 DEF BusyInv, BusyOK, BusyDuration
    <2>3. sampled'.sum = busyTotal /\ sampled'.busy = npuBusy /\ sampled'.at = clock
      BY <1>1, <2>2 DEF BusyInv, BusyOK
    <2>4. (CHOOSE t \in {clock} : TRUE) = clock
      OBVIOUS
    <2>5. BusyDuration' = busyTotal
      BY <2>1, <2>3, <2>4 DEF BusyDuration, BusyInv, BusyOK
    <2> QED
      BY <1>1, <2>1, <2>2, <2>3, <2>5 DEF BusyInv, BusyOK
  <1>3. ASSUME NEW s \in Nat, busySince = {s}
        PROVE  BusyInv'
    <2>1. (CHOOSE t \in {s} : TRUE) = s
      OBVIOUS
    <2>2. /\ busyTotal' = IF npuBusy THEN busyTotal ELSE busyTotal + clock - s
          /\ busySince' = IF npuBusy THEN {s} ELSE {}
      BY <1>3, <2>1 DEF Sample, Annotated, ReadNpuStatus, BusyInv, BusyOK
    <2>3. /\ sampled.busy /\ sampled.sum = busyTotal + (sampled.at - s)
          /\ sampled.at \in Nat /\ busyTotal \in Int /\ clock \in Nat
      BY <1>3, <2>1 DEF BusyInv, BusyOK, BusyDuration
    <2>4. sampled'.sum = busyTotal + clock - s /\ sampled'.busy = npuBusy /\ sampled'.at = clock
      BY <1>1, <2>3 DEF BusyInv, BusyOK
    <2>5. BusyDuration' = busyTotal + clock - s
      BY <2>1, <2>2, <2>3, <2>4 DEF BusyDuration, BusyInv, BusyOK
    <2> QED
      BY <1>1, <1>3, <2>2, <2>3, <2>4, <2>5 DEF BusyInv, BusyOK
  <1>4. busySince = {} \/ \E s \in Nat : busySince = {s}
    BY DEF BusyInv, BusyOK
  <1> QED
    BY <1>2, <1>3, <1>4

LEMMA BusyStep == BusyInv /\ [Next]_vars => BusyInv'
  <1> SUFFICES ASSUME BusyInv, [Next]_vars
               PROVE  BusyInv'
    OBVIOUS
  <1>1. CASE Sample
    BY <1>1, SampleKeepsBusy
  <1>2. CASE UNCHANGED <<busySince, busyTotal, sampled>> /\ clock' \in Nat /\ npuBusy' \in BOOLEAN
    BY <1>2 DEF BusyInv, BusyOK, BusyDuration
  <1>3. CASE UNCHANGED npuVars
    BY <1>3, <1>2 DEF npuVars, BusyInv, BusyOK
  <1>4. CASE Tick
    BY <1>2, <1>4 DEF Tick, BusyInv, BusyOK
  <1>5. CASE Status \/ LoopWakes
    BY <1>1, <1>5 DEF Status, LoopWakes
  <1>6. CASE ChatPolls
    BY <1>2, <1>6 DEF ChatPolls, BusyInv, BusyOK
  <1>7. CASE ChatEnds
    BY <1>1, <1>3, <1>7 DEF ChatEnds
  <1>8. CASE UNCHANGED vars
    BY <1>3, <1>8 DEF vars
  <1>9. CASE Startup \/ LoaderEnds \/ LoadModelEnds \/ LoadModelCancelled \/ ChatStarts
               \/ KernelLogs \/ Collect \/ LoopEmits \/ Stop \/ CleanUp \/ LoopCancelled \/ Exit
    BY <1>3, <1>9 DEF Startup, LoaderEnds, LoadModelEnds, LoadModelCancelled, ChatStarts,
         KernelLogs, Collect, LoopEmits, Stop, CleanUp, CleanUpTelemetry, CleanUpLoad,
         CleanUpSession, LoopCancelled, Exit
  <1> QED
    BY <1>4, <1>5, <1>6, <1>7, <1>8, <1>9 DEF Next

(* The loop, /api/status and ending answers share one accumulator in any   *)
(* order, and the duration reported is that between samples, the first of  *)
(* which found the NPU busy: none is lost or counted twice.                *)
THEOREM BusyTimeSampled == Spec => []BusyIsSampledTime
  <1>1. BusyInv => BusyIsSampledTime
    BY DEF BusyInv, BusyIsSampledTime
  <1> QED
    BY <1>1, BusyInit, BusyStep, PTL DEF Spec

-----------------------------------------------------------------------------
(* Filtering the log.                                                      *)

\* A set of numbers has a least one.
LEMMA LeastNumber ==
  ASSUME NEW T \in SUBSET Nat, T # {}
  PROVE  \E x \in T : \A y \in T : x <= y
  <1> DEFINE R == OpToRel(<, Nat)
  <1>1. IsWellFoundedOn(R, Nat)
    BY NatLessThanWellFounded
  <1>2. \A x, y \in Nat : y < x => <<y, x>> \in R
    BY DEF OpToRel
  <1> HIDE DEF R
  <1>3. PICK x \in T : \A y \in T : ~(<<y, x>> \in R)
    BY <1>1, WFMin
  <1>4. ASSUME NEW y \in T PROVE x <= y
    <2>1. ~(y < x)
      BY <1>2, <1>3
    <2> QED
      BY <2>1
  <1> QED
    BY <1>4

\* Two functions that continue in the same way are the same.
LEMMA SameLoop ==
  ASSUME NEW m \in Nat, NEW f, NEW g, f[0] = g[0],
         \A n \in 1 .. m : f[n - 1] = g[n - 1] => f[n] = g[n]
  PROVE  f[m] = g[m]
  <1> DEFINE T == {n \in 0 .. m : f[n] # g[n]}
  <1>1. CASE T = {}
    BY <1>1
  <1>2. CASE T # {}
    <2>1. PICK x \in T : \A y \in T : x <= y
      <3>1. T \in SUBSET Nat
        OBVIOUS
      <3> HIDE DEF T
      <3> QED
        BY <1>2, <3>1, LeastNumber
    <2>2. x \in 1 .. m /\ x - 1 \in 0 .. m /\ ~(x <= x - 1)
      OBVIOUS
    <2>3. x - 1 \notin T
      BY <2>1, <2>2
    <2>4. f[x - 1] = g[x - 1]
      BY <2>2, <2>3
    <2> QED
      BY <2>2, <2>4
  <1> QED
    BY <1>1, <1>2

\* The numbers after a, up to b.
After(a, b) == [i \in 1 .. b - a |-> a + i]

LEMMA AfterGrows ==
  ASSUME NEW a \in Nat, NEW b \in Nat
  PROVE  /\ b <= a => After(a, b) = <<>>
         /\ a <= b => /\ After(a, b) \in Seq(Nat) /\ Len(After(a, b)) = b - a
                      /\ After(a, b + 1) = Append(After(a, b), b + 1)
  <1>1. ASSUME b <= a PROVE After(a, b) = <<>>
    <2>1. 1 .. b - a = {}
      BY <1>1
    <2> QED
      BY <2>1 DEF After
  <1>2. ASSUME a <= b
        PROVE  /\ After(a, b) \in Seq(Nat) /\ Len(After(a, b)) = b - a
               /\ After(a, b + 1) = Append(After(a, b), b + 1)
    <2> PICK d \in Nat : d = b - a
      BY <1>2
    <2>1. After(a, b) \in Seq(Nat) /\ Len(After(a, b)) = d
      BY SeqDef, LenProperties DEF After
    <2>2. /\ Append(After(a, b), b + 1) \in Seq(Nat)
          /\ Len(Append(After(a, b), b + 1)) = d + 1
          /\ \A i \in 1 .. d : Append(After(a, b), b + 1)[i] = a + i
          /\ Append(After(a, b), b + 1)[d + 1] = b + 1
      BY <2>1, AppendProperties DEF After
    <2>3. (b + 1) - a = d + 1 /\ a + (d + 1) = b + 1
      OBVIOUS
    <2>4. After(a, b + 1) = [i \in 1 .. d + 1 |-> a + i]
      BY <2>3 DEF After
    <2>5. After(a, b + 1) \in Seq(Nat) /\ Len(After(a, b + 1)) = d + 1
      BY <2>4, SeqDef, LenProperties
    <2>6. \A i \in 1 .. d + 1 : After(a, b + 1)[i] = Append(After(a, b), b + 1)[i]
      BY <2>2, <2>3, <2>4
    <2> QED
      BY <2>1, <2>2, <2>5, <2>6, SeqEqual
  <1> QED
    BY <1>1, <1>2

\* The m lines of the log from base + 1 on, and knowing those up to the latest.
IsTail(lines, base, m) ==
  lines \in Seq(Nat) /\ Len(lines) = m /\ \A n \in 1 .. m : lines[n] = base + n

Knows(known, base, m, latest) == \A n \in 1 .. m : base + n \in known <=> base + n <= latest

\* If what is known of the lines base + 1, base + 2, ... are those up to latest,
\* the filter leaves the lines after it.
LEMMA FilterLeaves ==
  ASSUME NEW base \in Nat, NEW m \in Nat, NEW latest \in Nat, latest <= base + m,
         NEW lines, IsTail(lines, base, m), NEW known, Knows(known, base, m, latest)
  PROVE  Unknown(lines, known) = After(IF latest < base THEN base ELSE latest, base + m)
  <1> PICK a \in Nat : a = IF latest < base THEN base ELSE latest
    OBVIOUS
  <1> /\ lines \in Seq(Nat) /\ Len(lines) = m /\ \A n \in 1 .. m : lines[n] = base + n
      /\ \A n \in 1 .. m : base + n \in known <=> base + n <= latest
    BY DEF IsTail, Knows
  <1> DEFINE Body(f) == [n \in 0 .. Len(lines) |->
                           IF n = 0 THEN <<>>
                           ELSE IF lines[n] \in known THEN f[n - 1] ELSE Append(f[n - 1], lines[n])]
             kept[n \in 0 .. Len(lines)] ==
               IF n = 0 THEN <<>>
               ELSE IF lines[n] \in known THEN kept[n - 1] ELSE Append(kept[n - 1], lines[n])
             g == [n \in 0 .. m |-> After(a, base + n)]
  <1>1. Unknown(lines, known) = kept[Len(lines)]
    BY DEF Unknown
  <1>2. g[0] = <<>>
    <2>1. g[0] = After(a, base) /\ base <= a
      OBVIOUS
    <2> QED
      BY <2>1, AfterGrows
  <1>3. ASSUME NEW n \in 1 .. m
        PROVE  g[n] = IF lines[n] \in known THEN g[n - 1] ELSE Append(g[n - 1], lines[n])
    <2> PICK c \in Nat : c = base + (n - 1)
      OBVIOUS
    <2>1. base + n = c + 1 /\ c + 1 \in Nat /\ lines[n] = c + 1
      OBVIOUS
    <2>2. g[n] = After(a, c + 1) /\ g[n - 1] = After(a, c)
      BY <2>1
    <2>3. lines[n] \in known <=> c + 1 <= latest
      BY <2>1
    <2> HIDE DEF g
    <2>4. CASE c + 1 <= latest
      <3>1. c + 1 <= a /\ c <= a
        BY <2>4
      <3>2. After(a, c + 1) = <<>> /\ After(a, c) = <<>>
        BY <2>1, <3>1, AfterGrows
      <3> QED
        BY <2>2, <2>3, <2>4, <3>2
    <2>5. CASE ~(c + 1 <= latest)
      <3>1. a <= c
        BY <2>5
      <3>2. After(a, c + 1) = Append(After(a, c), c + 1)
        BY <3>1, AfterGrows
      <3> QED
        BY <2>1, <2>2, <2>3, <2>5, <3>2
    <2> QED
      BY <2>4, <2>5
  <1>4. g = Body(g)
    <2> HIDE DEF g
    <2>1. g = [n \in 0 .. m |-> g[n]]
      BY DEF g
    <2>2. \A n \in 0 .. m : n # 0 => n \in 1 .. m
      OBVIOUS
    <2> QED
      BY <1>2, <1>3, <2>1, <2>2
  <1>5. kept = Body(kept)
    <2>1. kept = CHOOSE f : f = Body(f)
      OBVIOUS
    <2> HIDE DEF kept, Body
    <2> QED
      BY <1>4, <2>1
  <1> HIDE DEF kept
  <1>6. kept[0] = g[0] /\ \A n \in 1 .. m : kept[n - 1] = g[n - 1] => kept[n] = g[n]
    <2>1. kept[0] = <<>>
      BY <1>5
    <2>2. ASSUME NEW n \in 1 .. m
          PROVE  kept[n] = IF lines[n] \in known THEN kept[n - 1] ELSE Append(kept[n - 1], lines[n])
      <3>1. n \in 0 .. Len(lines) /\ n # 0
        OBVIOUS
      <3> QED
        BY <1>5, <3>1
    <2> HIDE DEF g, Body
    <2> QED
      BY <1>2, <1>3, <2>1, <2>2
  <1>7. kept[m] = g[m]
    <2> HIDE DEF g, Body
    <2> QED
      BY <1>6, SameLoop
  <1> QED
    BY <1>1, <1>7

-----------------------------------------------------------------------------
(* Lists of lines that grow at least by one from each to the next.         *)

Spread(s) == \A i, j \in DOMAIN s : i <= j => s[j] - s[i] >= j - i

Elements(s) == {s[i] : i \in DOMAIN s}

Last(s) == IF s = <<>> THEN 0 ELSE s[Len(s)]

LEMMA LastIsNewest ==
  ASSUME NEW s \in Seq(Nat), Spread(s)
  PROVE  Last(s) \in Nat /\ \A x \in Elements(s) : x \in Nat /\ x <= Last(s)
  <1> PICK n \in Nat : n = Len(s)
    BY LenProperties
  <1>1. DOMAIN s = 1 .. n /\ \A i \in 1 .. n : s[i] \in Nat
    BY LenProperties, ElementOfSeq
  <1>2. CASE n = 0
    <2>1. s = <<>> /\ DOMAIN s = {}
      BY <1>1, <1>2, EmptySeq
    <2> QED
      BY <2>1 DEF Last, Elements
  <1>3. CASE n # 0
    <2>1. n \in 1 .. n /\ s # <<>>
      BY <1>1, <1>3
    <2>2. Last(s) = s[n] /\ s[n] \in Nat
      BY <1>1, <2>1 DEF Last
    <2>3. ASSUME NEW i \in 1 .. n PROVE s[i] <= s[n]
      <3>1. s[n] - s[i] >= n - i
        BY <1>1, <2>1, SMTT(30) DEF Spread
      <3> QED
        BY <1>1, <2>2, <3>1
    <2> QED
      BY <1>1, <2>2, <2>3 DEF Elements
  <1> QED
    BY <1>2, <1>3

LEMMA Joined ==
  ASSUME NEW s \in Seq(Nat), Spread(s), NEW a \in Nat, NEW k \in Nat, Last(s) <= a, a <= k
  PROVE  /\ s \o After(a, k) \in Seq(Nat) /\ Spread(s \o After(a, k))
         /\ Elements(s \o After(a, k)) = Elements(s) \cup (a + 1 .. k)
         /\ Last(s \o After(a, k)) = IF a = k THEN Last(s) ELSE k
  <1> PICK n \in Nat : n = Len(s)
    BY LenProperties
  <1> PICK d \in Nat : d = k - a
    OBVIOUS
  <1> DEFINE t == s \o After(a, k)
  <1>1. After(a, k) \in Seq(Nat) /\ Len(After(a, k)) = d /\ \A i \in 1 .. d : After(a, k)[i] = a + i
    BY AfterGrows DEF After
  <1>2. DOMAIN s = 1 .. n /\ \A i \in 1 .. n : s[i] \in Nat /\ s[i] <= a
    <2>1. DOMAIN s = 1 .. n /\ \A i \in 1 .. n : s[i] \in Nat
      BY LenProperties, ElementOfSeq
    <2>2. Last(s) \in Nat /\ \A i \in 1 .. n : s[i] <= Last(s)
      BY <2>1, LastIsNewest DEF Elements
    <2>3. ASSUME NEW i \in 1 .. n PROVE s[i] <= a
      <3>1. s[i] <= Last(s) /\ Last(s) <= a /\ Last(s) \in Nat /\ s[i] \in Nat
        BY <2>1, <2>2
      <3> QED
        BY <3>1
    <2> QED
      BY <2>1, <2>3
  <1>3. /\ t \in Seq(Nat) /\ Len(t) = n + d /\ DOMAIN t = 1 .. n + d
        /\ \A i \in 1 .. n + d : t[i] = IF i <= n THEN s[i] ELSE After(a, k)[i - n]
    <2> PICK f \in Seq(Nat) : f = After(a, k)
      BY <1>1
    <2>1. /\ s \o f \in Seq(Nat) /\ Len(s \o f) = n + d
          /\ \A i \in 1 .. n + d : (s \o f)[i] = IF i <= n THEN s[i] ELSE f[i - n]
      <3>1. /\ s \o f \in Seq(Nat) /\ Len(s \o f) = Len(s) + Len(f)
            /\ \A i \in 1 .. Len(s) + Len(f) : (s \o f)[i] = IF i <= Len(s) THEN s[i] ELSE f[i - Len(s)]
        BY ConcatProperties
      <3>2. Len(s) = n /\ Len(f) = d
        BY <1>1
      <3> QED
        BY <3>1, <3>2
    <2>2. DOMAIN (s \o f) = 1 .. n + d
      BY <2>1, LenProperties
    <2> QED
      BY <2>1, <2>2
  <1>4. /\ \A i \in 1 .. n : i \in 1 .. n + d /\ t[i] = s[i]
        /\ \A i \in 1 .. d : n + i \in 1 .. n + d /\ t[n + i] = a + i
    <2>1. ASSUME NEW i \in 1 .. d PROVE n + i \in 1 .. n + d /\ t[n + i] = a + i
      <3>1. n + i \in 1 .. n + d /\ ~(n + i <= n) /\ (n + i) - n = i
        OBVIOUS
      <3> HIDE DEF t
      <3> QED
        BY <1>1, <1>3, <3>1
    <2> QED
      BY <1>3, <2>1, SMTT(30)
  <1>5. ASSUME NEW i \in 1 .. n + d
        PROVE  (i \in 1 .. n /\ t[i] = s[i]) \/ (i - n \in 1 .. d /\ t[i] = a + (i - n))
    <2>1. CASE i <= n
      BY <1>4, <2>1
    <2>2. CASE ~(i <= n)
      <3>1. i - n \in 1 .. d
        BY <2>2
      <3> HIDE DEF t
      <3> QED
        BY <1>1, <1>3, <2>2, <3>1
    <2> QED
      BY <2>1, <2>2
  <1> HIDE DEF t
  <1>6. Spread(t)
    <2>1. ASSUME NEW i \in 1 .. n + d, NEW j \in 1 .. n + d, i <= j PROVE t[j] - t[i] >= j - i
      <3>1. CASE i \in 1 .. n /\ t[i] = s[i] /\ j \in 1 .. n /\ t[j] = s[j]
        BY <1>2, <2>1, <3>1 DEF Spread
      <3>2. CASE i \in 1 .. n /\ t[i] = s[i] /\ j - n \in 1 .. d /\ t[j] = a + (j - n)
        <4>1. n \in 1 .. n /\ s # <<>>
          BY <1>2, <3>2
        <4>2. s[n] - s[i] >= n - i /\ s[n] <= a /\ s[n] \in Nat /\ s[i] \in Nat
          <5>1. n \in DOMAIN s /\ i \in DOMAIN s /\ i <= n
            BY <1>2, <3>2, <4>1
          <5>2. s[n] - s[i] >= n - i
            BY <5>1 DEF Spread
          <5> QED
            BY <1>2, <3>2, <4>1, <5>2
        <4>3. PICK x \in Nat, y \in Nat : x = s[i] /\ y = s[n]
          BY <4>2
        <4>4. y - x >= n - i /\ y <= a
          BY <4>2, <4>3
        <4>5. (a + (j - n)) - x >= j - i
          BY <4>4
        <4> QED
          BY <3>2, <4>3, <4>5
      <3>3. CASE i - n \in 1 .. d /\ t[i] = a + (i - n) /\ j - n \in 1 .. d /\ t[j] = a + (j - n)
        BY <3>3
      <3> QED
        BY <1>5, <2>1, <3>1, <3>2, <3>3
    <2> QED
      BY <1>3, <2>1 DEF Spread
  <1>7. Elements(t) = Elements(s) \cup (a + 1 .. k)
    <2>1. ASSUME NEW i \in 1 .. n + d PROVE t[i] \in Elements(s) \cup (a + 1 .. k)
      <3>1. CASE i \in 1 .. n /\ t[i] = s[i]
        BY <1>2, <3>1 DEF Elements
      <3>2. CASE i - n \in 1 .. d /\ t[i] = a + (i - n)
        BY <3>2
      <3> QED
        BY <1>5, <3>1, <3>2
    <2>2. ASSUME NEW x \in Elements(s) PROVE x \in Elements(t)
      BY <1>2, <1>3, <1>4, ZenonT(60) DEF Elements
    <2>3. ASSUME NEW x \in a + 1 .. k PROVE x \in Elements(t)
      <3>1. x - a \in 1 .. d /\ a + (x - a) = x
        OBVIOUS
      <3>2. n + (x - a) \in 1 .. n + d /\ t[n + (x - a)] = x
        BY <1>4, <3>1
      <3> QED
        BY <1>3, <3>2 DEF Elements
    <2>4. \A x \in Elements(t) : x \in Elements(s) \cup (a + 1 .. k)
      BY <1>3, <2>1 DEF Elements
    <2> QED
      BY <2>2, <2>3, <2>4
  <1>8. Last(t) = IF a = k THEN Last(s) ELSE k
    <2>1. CASE d = 0
      <3>1. a = k /\ Len(t) = n
        BY <1>3, <2>1
      <3>2. CASE n = 0
        <4>1. s = <<>> /\ t = <<>>
          <5>1. Len(s) = 0 /\ Len(t) = 0
            BY <3>1, <3>2
          <5> QED
            BY <1>3, <5>1, EmptySeq
        <4> QED
          BY <3>1, <4>1 DEF Last
      <3>3. CASE n # 0
        <4>1. s # <<>> /\ t # <<>> /\ n \in 1 .. n
          BY <1>2, <1>3, <2>1, <3>3
        <4> QED
          BY <1>4, <3>1, <4>1 DEF Last
      <3> QED
        BY <3>2, <3>3
    <2>2. CASE d # 0
      <3>1. a # k /\ d \in 1 .. d /\ a + d = k /\ t # <<>>
        BY <1>3, <2>2
      <3>2. t[n + d] = k
        BY <1>4, <3>1
      <3> QED
        BY <1>3, <3>1, <3>2 DEF Last
    <2> QED
      BY <2>1, <2>2
  <1> QED
    BY <1>3, <1>6, <1>7, <1>8 DEF t

LEMMA NewestIs ==
  ASSUME NEW S, NEW t \in Seq(S), NEW n \in Nat
  PROVE  \E d \in Nat : /\ Newest(t, n) \in Seq(S) /\ Len(t) = d + Len(Newest(t, n))
                        /\ \A i \in 1 .. Len(Newest(t, n)) : Newest(t, n)[i] = t[d + i]
                        /\ d = 0 \/ Len(Newest(t, n)) = n
  <1> PICK m \in Nat : m = Len(t)
    BY LenProperties
  <1>1. \A i \in 1 .. m : t[i] \in S
    BY ElementOfSeq
  <1>2. CASE m > n
    <2> DEFINE a == m - n + 1
    <2>1. a \in Int /\ m \in Int /\ a <= m + 1
      BY <1>2
    <2>3. \A i \in a .. m : t[i] \in S
      <3>1. \A i \in a .. m : i \in 1 .. m
        BY <1>2
      <3> QED
        BY <1>1, <3>1
    <2>4. Newest(t, n) = SubSeq(t, a, m)
      BY <1>2 DEF Newest
    <2> HIDE DEF a
    <2>5. PICK x \in Int : x = a
      BY <2>1
    <2>6. /\ SubSeq(t, x, m) \in Seq(S)
          /\ Len(SubSeq(t, x, m)) = IF x <= m THEN m - x + 1 ELSE 0
          /\ \A i \in 1 .. m - x + 1 : SubSeq(t, x, m)[i] = t[x + i - 1]
      <3>1. \A i \in x .. m : t[i] \in S
        BY <2>3, <2>5
      <3>2. x \in Int /\ m \in Int
        BY <2>1, <2>5
      <3>3. SubSeq(t, x, m) \in Seq(S)
        BY ONLY <3>1, <3>2, SubSeqProperties
      <3>4. Len(SubSeq(t, x, m)) = IF x <= m THEN m - x + 1 ELSE 0
        BY ONLY <3>1, <3>2, SubSeqProperties
      <3>5. \A i \in 1 .. m - x + 1 : SubSeq(t, x, m)[i] = t[x + i - 1]
        BY ONLY <3>1, <3>2, SubSeqProperties
      <3> QED
        BY <3>3, <3>4, <3>5
    <2>9. PICK d \in Nat : d = m - n
      <3>1. m - n \in Nat
        BY <1>2
      <3> QED
        BY <3>1
    <2>7. /\ Newest(t, n) \in Seq(S) /\ Len(Newest(t, n)) = n
          /\ \A i \in 1 .. n : Newest(t, n)[i] = t[d + i]
      <3>1. (IF x <= m THEN m - x + 1 ELSE 0) = n /\ m - x + 1 = n /\ \A i \in 1 .. n : x + i - 1 = d + i
        BY <1>2, <2>5, <2>9 DEF a
      <3>2. Newest(t, n) = SubSeq(t, x, m)
        BY <2>4, <2>5
      <3> QED
        BY <2>6, <3>1, <3>2
    <2>8. m = d + n
      BY <2>9
    <2> QED
      BY <2>7, <2>8
  <1>3. CASE ~(m > n)
    <2>1. Newest(t, n) = SubSeq(t, 1, m)
      BY <1>3 DEF Newest
    <2>2. Newest(t, n) = t
      BY <2>1, SubSeqFull
    <2>3. \A i \in 1 .. m : t[0 + i] = t[i]
      OBVIOUS
    <2> QED
      BY <2>2, <2>3
  <1> QED
    BY <1>2, <1>3

LEMMA Cut ==
  ASSUME NEW t \in Seq(Nat), Spread(t), NEW n \in Nat \ {0}
  PROVE  /\ Newest(t, n) \in Seq(Nat) /\ Spread(Newest(t, n)) /\ Last(Newest(t, n)) = Last(t)
         /\ Elements(Newest(t, n)) \subseteq Elements(t)
         /\ \A x \in Elements(t) : x > Last(t) - n => x \in Elements(Newest(t, n))
  <1> DEFINE u == Newest(t, n)
  <1>1. PICK d \in Nat : /\ u \in Seq(Nat) /\ Len(t) = d + Len(u)
                         /\ \A i \in 1 .. Len(u) : u[i] = t[d + i]
                         /\ d = 0 \/ Len(u) = n
    BY NewestIs
  <1> HIDE DEF u
  <1> PICK m \in Nat : m = Len(u)
    BY <1>1, LenProperties
  <1>2. DOMAIN u = 1 .. m /\ DOMAIN t = 1 .. d + m /\ \A i \in 1 .. d + m : t[i] \in Nat
    BY <1>1, LenProperties, ElementOfSeq
  <1>3. ASSUME NEW i \in 1 .. m PROVE d + i \in 1 .. d + m /\ u[i] = t[d + i]
    BY <1>1
  <1>4. Spread(u)
    <2>1. ASSUME NEW i \in 1 .. m, NEW j \in 1 .. m, i <= j PROVE u[j] - u[i] >= j - i
      <3>1. d + i \in 1 .. d + m /\ d + j \in 1 .. d + m /\ u[i] = t[d + i] /\ u[j] = t[d + j]
        BY <1>3
      <3>2. d + i <= d + j /\ (d + j) - (d + i) = j - i
        BY <2>1
      <3>3. t[d + j] - t[d + i] >= (d + j) - (d + i)
        BY <1>2, <3>1, <3>2 DEF Spread
      <3> QED
        BY <3>1, <3>2, <3>3
    <2> QED
      BY <1>2, <2>1 DEF Spread
  <1>5. Last(u) = Last(t)
    <2>1. CASE m = 0
      <3>1. d = 0
        BY <1>1, <2>1
      <3>2. u = <<>> /\ t = <<>>
        <4>1. Len(u) = 0 /\ Len(t) = 0
          BY <1>1, <2>1, <3>1
        <4> QED
          BY <1>1, <4>1, EmptySeq
      <3> QED
        BY <3>2 DEF Last
    <2>2. CASE m # 0
      <3>1. m \in 1 .. m /\ u # <<>> /\ t # <<>>
        BY <1>1, <1>2, <2>2
      <3> QED
        BY <1>1, <3>1 DEF Last
    <2> QED
      BY <2>1, <2>2
  <1>6. Elements(u) \subseteq Elements(t)
    BY <1>2, <1>3 DEF Elements
  <1>7. ASSUME NEW x \in Elements(t), x > Last(t) - n PROVE x \in Elements(u)
    <2>1. PICK i \in 1 .. d + m : x = t[i]
      BY <1>2 DEF Elements
    <2>2. d + m \in 1 .. d + m /\ t # <<>> /\ Last(t) = t[d + m]
      <3>1. d + m \in 1 .. d + m /\ Len(t) = d + m
        BY <1>1
      <3>2. t # <<>>
        BY <1>2, <3>1
      <3> QED
        BY <3>1, <3>2 DEF Last
    <2>3. t[d + m] - t[i] >= (d + m) - i /\ t[d + m] \in Nat /\ t[i] \in Nat
      <3>1. d + m \in DOMAIN t /\ i \in DOMAIN t /\ i <= d + m
        BY <1>2, <2>2
      <3>2. t[d + m] - t[i] >= (d + m) - i
        BY <3>1 DEF Spread
      <3> QED
        BY <1>2, <3>1, <3>2
    <2>4. t[i] > t[d + m] - n
      BY <1>7, <2>1, <2>2
    <2>5. (d + m) - i < n
      BY <2>3, <2>4, SMTT(30)
    <2>6. i > d
      BY <1>1, <2>5
    <2>7. i - d \in 1 .. m /\ d + (i - d) = i
      BY <2>6
    <2>8. u[i - d] = x
      BY <1>3, <2>1, <2>7
    <2> QED
      BY <1>2, <2>7, <2>8 DEF Elements
  <1> QED
    BY <1>1, <1>4, <1>5, <1>6, <1>7 DEF u

-----------------------------------------------------------------------------
(* The watcher of the kernel log.                                          *)

Reported == emitted.lines \o found.lines

WatchTypes ==
  /\ kernel \in Nat /\ seen \in Seq(Nat) /\ Spread(seen) /\ Last(seen) <= kernel
  /\ seenSet = Elements(seen)
  /\ emitted.lines \in Seq(Nat) /\ found.lines \in Seq(Nat)

\* Of the lines up to the newest one remembered, the last MaxLines all are, so
\* that what is new in the log is newer than everything seen.
Recent == \A line \in 1 .. Last(seen) : line > Last(seen) - MaxLines => line \in seenSet

\* What was reported, or will be when the loop goes on.
Reports ==
  /\ Spread(Reported) /\ Last(Reported) <= Last(seen)
  /\ loop \in {"none", "sleeping", "collecting"} => found = Nothing
  /\ loop \notin {"cancelled", "done"} => seenSet \subseteq Elements(Reported)

Failures ==
  /\ loop \notin {"cancelled", "done"} /\ found.error = {} => lastError = emitted.error
  /\ found.error # {} => found.error = {lastError}

WatchInv == WatchTypes /\ Recent /\ Reports /\ Failures

\* Nothing was logged, seen or reported yet.
LEMMA WatchStart == Init => WatchInv
  <1> SUFFICES ASSUME Init PROVE WatchInv
    OBVIOUS
  <1>1. /\ kernel = 0 /\ seen = <<>> /\ seenSet = {} /\ lastError = "none" /\ loop = "none"
        /\ found = Nothing /\ found.lines = <<>> /\ found.error = {}
        /\ emitted.lines = <<>> /\ emitted.error = "none"
    BY DEF Init, Nothing
  <1>2. Elements(seen) = {} /\ Last(seen) = 0 /\ Spread(seen)
    BY <1>1 DEF Elements, Last, Spread
  <1>3. seen \in Seq(Nat) /\ emitted.lines \in Seq(Nat) /\ found.lines \in Seq(Nat)
    BY <1>1, EmptySeq
  <1>4. Reported = <<>>
    BY <1>1, ConcatEmptySeq, EmptySeq DEF Reported
  <1>5. Spread(Reported) /\ Last(Reported) = 0
    BY <1>4 DEF Spread, Last
  <1> QED
    BY <1>1, <1>2, <1>3, <1>5 DEF WatchInv, WatchTypes, Recent, Reports, Failures

\* What a collection finds new is what is newer than everything seen.
LEMMA NewIsNewer ==
  ASSUME DaemonOK, WatchTypes, Recent
  PROVE  \E a \in Nat : /\ Last(seen) <= a /\ a <= kernel /\ kernel - MaxLines <= a
                        /\ a = Last(seen) \/ a = kernel - MaxLines
                        /\ New = After(a, kernel)
  <1> PICK k \in Nat, latest \in Nat, w \in Nat \ {0} :
             k = kernel /\ latest = Last(seen) /\ w = MaxLines
    BY LastIsNewest DEF WatchTypes, DaemonOK
  <1> PICK base \in Nat : base = IF k < w THEN 0 ELSE k - w
    <2>1. k < w \/ k - w \in Nat
      OBVIOUS
    <2> QED
      BY <2>1
  <1> PICK m \in Nat : m = IF k < w THEN k ELSE w
    OBVIOUS
  <1>1. base + m = k /\ latest <= k /\ k - w <= base
    BY DEF WatchTypes
  <1>2. /\ Tail20 = [i \in 1 .. m |-> base + i] /\ Tail20 \in Seq(Nat) /\ Len(Tail20) = m
        /\ \A n \in 1 .. m : Tail20[n] = base + n
    <2>1. Tail20 = [i \in 1 .. m |-> base + i]
      BY DEF Tail20
    <2>2. [i \in 1 .. m |-> base + i] \in Seq(Nat) /\ Len([i \in 1 .. m |-> base + i]) = m
      BY SeqDef, LenProperties
    <2> QED
      BY <2>1, <2>2
  <1>3. ASSUME NEW n \in 1 .. m PROVE base + n \in seenSet <=> base + n <= latest
    <2>1. ASSUME base + n \in seenSet PROVE base + n <= latest
      BY <2>1, LastIsNewest DEF WatchTypes
    <2>2. ASSUME base + n <= latest PROVE base + n \in seenSet
      <3>1. base + n \in 1 .. latest /\ base + n > latest - w
        BY <1>1, <2>2
      <3> QED
        BY <3>1 DEF Recent
    <2> QED
      BY <2>1, <2>2
  <1>4. PICK a \in Nat : a = IF latest < base THEN base ELSE latest
    OBVIOUS
  <1>5. Unknown(Tail20, seenSet) = After(a, base + m)
    <2> PICK tail, known : tail = Tail20 /\ known = seenSet
      OBVIOUS
    <2>0. base \in Nat /\ m \in Nat /\ latest \in Nat
      OBVIOUS
    <2>1. latest <= base + m
      BY <1>1
    <2>2. Knows(known, base, m, latest)
      BY <1>3 DEF Knows
    <2>3. IsTail(tail, base, m)
      BY <1>2 DEF IsTail
    <2>4. Unknown(tail, known) = After(IF latest < base THEN base ELSE latest, base + m)
      BY ONLY <2>0, <2>1, <2>2, <2>3, FilterLeaves
    <2> QED
      BY <1>4, <2>4
  <1>6. New = After(a, kernel)
    BY <1>1, <1>5 DEF New
  <1>7. latest <= a /\ a <= k /\ k - w <= a
    BY <1>1, <1>4
  <1>8. a = latest \/ a = k - w
    BY <1>4, <1>7
  <1> QED
    BY <1>6, <1>7, <1>8

\* A collection that reads the log adds what is newer than everything seen, to
\* the lines seen and to those reported; one that fails adds at most an error.
LEMMA CollectKeeps ==
  ASSUME DaemonOK, WatchInv, Collect
  PROVE  WatchInv'
  <1>0. WatchTypes /\ Recent /\ Reports /\ Failures
    BY DEF WatchInv
  <1>1. /\ loop = "collecting" /\ loop' = "collected" /\ UNCHANGED <<kernel, emitted>>
        /\ found = Nothing /\ found.lines = <<>> /\ found.error = {}
        /\ lastError = emitted.error /\ seenSet \subseteq Elements(Reported)
    BY <1>0 DEF Collect, Reports, Failures, Nothing
  <1>2. Reported = emitted.lines
    BY <1>0, <1>1, ConcatEmptySeq DEF Reported, WatchTypes
  <1>3. CASE Remembered(New) /\ found' = [lines |-> New, error |-> {}] /\ UNCHANGED lastError
    <2>1. PICK a \in Nat : /\ Last(seen) <= a /\ a <= kernel /\ kernel - MaxLines <= a
                           /\ a = Last(seen) \/ a = kernel - MaxLines
                           /\ New = After(a, kernel)
      BY <1>0, NewIsNewer
    <2> PICK k \in Nat, latest \in Nat, w \in Nat, n \in Nat \ {0} :
               k = kernel /\ latest = Last(seen) /\ w = MaxLines /\ n = MaxSeen
      <3>1. Last(seen) \in Nat
        BY <1>0, LastIsNewest DEF WatchTypes
      <3>2. kernel \in Nat
        BY <1>0 DEF WatchTypes
      <3>3. MaxLines \in Nat /\ MaxSeen \in Nat \ {0}
        BY DEF DaemonOK
      <3> QED
        BY <3>1, <3>2, <3>3
    <2>2. latest <= a /\ a <= k /\ k - w <= a /\ (a = latest \/ a = k - w) /\ w <= n /\ latest <= k
      BY <1>0, <2>1 DEF DaemonOK, WatchTypes
    <2> PICK t : t = seen \o After(a, k)
      OBVIOUS
    <2>3. /\ t \in Seq(Nat) /\ Spread(t) /\ Elements(t) = Elements(seen) \cup (a + 1 .. k)
          /\ Last(t) = IF a = k THEN latest ELSE k
      <3>1. seen \in Seq(Nat) /\ Spread(seen) /\ Last(seen) <= a
        BY <1>0, <2>1 DEF WatchTypes
      <3> QED
        BY <2>2, <3>1, Joined
    <2>4. seen' = Newest(t, n) /\ seenSet' = Elements(seen')
      BY <1>3, <2>1 DEF Remembered, Elements
    <2> PICK u : u = seen'
      OBVIOUS
    <2>5. /\ u \in Seq(Nat) /\ Spread(u) /\ Last(u) = Last(t) /\ Elements(u) \subseteq Elements(t)
          /\ \A x \in Elements(t) : x > Last(t) - n => x \in Elements(u)
      BY <2>3, <2>4, Cut
    <2>6. PICK new \in Nat : new = Last(u) /\ latest <= new /\ new <= k
      <3>1. Last(u) = IF a = k THEN latest ELSE k
        BY <2>3, <2>5
      <3> QED
        BY <2>2, <3>1
    <2>7. \A x \in a + 1 .. k : x <= new
      <3>1. new = IF a = k THEN latest ELSE k
        BY <2>3, <2>5, <2>6
      <3> QED
        BY <3>1
    <2>8. Last(seen)' = new /\ Spread(seen)' /\ seenSet' = Elements(u)
      BY <2>4, <2>5, <2>6 DEF Last, Spread
    <2>9. ASSUME NEW line \in 1 .. new, line > new - w PROVE line \in Elements(u)
      <3>1. line \in Elements(t)
        <4>1. CASE line > a
          BY <2>3, <2>6, <4>1
        <4>2. CASE ~(line > a)
          <5>1. line \in 1 .. latest
            <6>1. CASE a = latest
              BY <4>2, <6>1
            <6>2. CASE a # latest
              <7>1. a = k - w /\ new = IF a = k THEN latest ELSE k
                BY <2>2, <2>3, <2>5, <2>6, <6>2
              <7>2. a # k /\ new = k
                BY <7>1
              <7> QED
                BY <2>9, <4>2, <7>1, <7>2
            <6> QED
              BY <6>1, <6>2
          <5>2. line > latest - w
            BY <2>6, <2>9
          <5>3. line \in seenSet
            BY <1>0, <5>1, <5>2 DEF Recent
          <5> QED
            BY <1>0, <2>3, <5>3 DEF WatchTypes
        <4> QED
          BY <4>1, <4>2
      <3>2. line > new - n
        BY <2>2, <2>9
      <3> QED
        BY <2>5, <2>6, <3>1, <3>2
    <2>10. /\ found'.lines = After(a, k) /\ found'.error = {} /\ emitted'.lines = emitted.lines
           /\ emitted'.error = emitted.error
      BY <1>1, <1>3, <2>1
    <2> PICK r : r = emitted.lines
      OBVIOUS
    <2> PICK f : f = After(a, k)
      OBVIOUS
    <2>11. Reported' = r \o f
      BY <2>10 DEF Reported
    <2>12. WatchTypes'
      <3>1. After(a, k) \in Seq(Nat)
        BY <2>2, AfterGrows
      <3> QED
        BY <1>0, <1>1, <2>4, <2>5, <2>6, <2>8, <2>10, <3>1 DEF WatchTypes
    <2>13. Recent'
      BY <2>8, <2>9 DEF Recent
    <2>14. Failures'
      BY <1>1, <1>3, <2>10 DEF Failures
    <2>15. Reports'
      <3> PICK q : q = r \o f
        OBVIOUS
      <3>1. r \in Seq(Nat) /\ Spread(r) /\ Last(r) <= latest /\ Elements(seen) \subseteq Elements(r)
        BY <1>0, <1>1, <1>2 DEF WatchTypes, Reports
      <3>2. Last(r) <= a
        <4>1. Last(r) \in Nat
          BY <3>1, LastIsNewest
        <4> QED
          BY <2>2, <3>1, <4>1
      <3>3. /\ Spread(q) /\ Elements(q) = Elements(r) \cup (a + 1 .. k)
            /\ Last(q) = IF a = k THEN Last(r) ELSE k
        BY <2>2, <3>1, <3>2, Joined
      <3>4. Elements(u) \subseteq Elements(q)
        BY <2>3, <2>5, <3>1, <3>3
      <3>5. Last(q) <= new
        <4>1. new = IF a = k THEN latest ELSE k
          BY <2>3, <2>5, <2>6
        <4>2. CASE a = k
          BY <3>1, <3>3, <4>1, <4>2
        <4>3. CASE a # k
          BY <3>3, <4>1, <4>3
        <4> QED
          BY <4>2, <4>3
      <3>6. Reported' = q /\ loop' = "collected" /\ seenSet' = Elements(u)
        BY <1>1, <2>8, <2>11
      <3>7. Elements(Reported)' = Elements(q) /\ Spread(Reported)' = Spread(q) /\ Last(Reported)' = Last(q)
        BY <3>6 DEF Elements, Spread, Last
      <3>8. (Spread(Reported) /\ Last(Reported) <= Last(seen))'
        BY <2>8, <3>3, <3>5, <3>7
      <3>9. (seenSet \subseteq Elements(Reported))'
        BY <3>4, <3>6, <3>7
      <3> QED
        BY <3>6, <3>8, <3>9 DEF Reports
    <2> QED
      BY <2>12, <2>13, <2>14, <2>15 DEF WatchInv
  <1>4. ASSUME NEW key, found' = [lines |-> <<>>, error |-> {key} \ {lastError}], lastError' = key,
               UNCHANGED <<seen, seenSet>>
        PROVE  WatchInv'
    <2>1. /\ found'.lines = <<>> /\ found'.error = {key} \ {lastError}
          /\ emitted'.lines = emitted.lines /\ emitted'.error = emitted.error
      BY <1>1, <1>4
    <2>2. Reported' = Reported
      BY <1>1, <2>1 DEF Reported
    <2>3. WatchTypes'
      BY <1>0, <1>1, <1>4, <2>1, EmptySeq DEF WatchTypes, Spread, Last, Elements
    <2>4. Recent'
      BY <1>0, <1>4 DEF Recent, Last
    <2>5. Reports'
      BY <1>0, <1>1, <1>4, <2>2 DEF Reports, Last, Elements
    <2>6. Failures'
      BY <1>1, <1>4, <2>1 DEF Failures
    <2> QED
      BY <2>3, <2>4, <2>5, <2>6 DEF WatchInv
  <1> QED
    BY <1>3, <1>4 DEF Collect

\* Cancelled, the loop loses the last lines: what was emitted is a beginning.
LEMMA Beginning ==
  ASSUME NEW r \in Seq(Nat), NEW f \in Seq(Nat), Spread(r \o f)
  PROVE  Spread(r) /\ Last(r) <= Last(r \o f)
  <1> PICK p \in Nat, d \in Nat : p = Len(r) /\ d = Len(f)
    BY LenProperties
  <1> PICK q : q = r \o f
    OBVIOUS
  <1>1. q \in Seq(Nat) /\ Len(q) = p + d /\ \A i \in 1 .. p + d : q[i] = IF i <= p THEN r[i] ELSE f[i - p]
    <2>1. /\ r \o f \in Seq(Nat) /\ Len(r \o f) = Len(r) + Len(f)
          /\ \A i \in 1 .. Len(r) + Len(f) : (r \o f)[i] = IF i <= Len(r) THEN r[i] ELSE f[i - Len(r)]
      BY ONLY r \in Seq(Nat), f \in Seq(Nat), ConcatProperties
    <2> QED
      BY <2>1
  <1>2. DOMAIN q = 1 .. p + d /\ DOMAIN r = 1 .. p
    BY <1>1, LenProperties
  <1>3. \A i \in 1 .. p : i \in 1 .. p + d /\ q[i] = r[i]
    BY <1>1
  <1>4. Spread(r)
    <2>1. ASSUME NEW i \in 1 .. p, NEW j \in 1 .. p, i <= j PROVE r[j] - r[i] >= j - i
      <3>1. i \in DOMAIN q /\ j \in DOMAIN q /\ q[i] = r[i] /\ q[j] = r[j]
        BY <1>2, <1>3
      <3> QED
        BY <2>1, <3>1 DEF Spread
    <2> QED
      BY <1>2, <2>1 DEF Spread
  <1>5. Last(r) <= Last(q)
    <2>1. Last(q) \in Nat /\ \A x \in Elements(q) : x <= Last(q)
      BY <1>1, LastIsNewest
    <2>2. CASE r = <<>>
      BY <2>1, <2>2 DEF Last
    <2>3. CASE r # <<>>
      <3>1. p \in 1 .. p
        <4>1. p # 0
          BY <2>3, EmptySeq
        <4> QED
          BY <4>1
      <3>2. p \in DOMAIN q /\ q[p] = r[p]
        BY <1>2, <1>3, <3>1
      <3>3. Last(r) = q[p] /\ q[p] \in Elements(q)
        BY <2>3, <3>2 DEF Last, Elements
      <3> QED
        BY <2>1, <3>3
    <2> QED
      BY <2>2, <2>3
  <1> QED
    BY <1>4, <1>5

\* The loop emits what the collection found.
LEMMA EmitKeeps ==
  ASSUME WatchInv, LoopEmits
  PROVE  WatchInv'
  <1>0. WatchTypes /\ Recent /\ Reports /\ Failures
    BY DEF WatchInv
  <1>1. /\ loop = "collected" /\ loop' = "sleeping" /\ UNCHANGED <<kernel, seen, seenSet, lastError>>
        /\ emitted'.lines = Reported /\ found' = Nothing
        /\ emitted'.error = IF found.error = {} THEN emitted.error
                            ELSE CHOOSE key \in found.error : TRUE
    BY DEF LoopEmits, Reported
  <1>2. found'.lines = <<>> /\ found'.error = {}
    BY <1>1 DEF Nothing
  <1>3. Reported \in Seq(Nat)
    <2>1. emitted.lines \in Seq(Nat) /\ found.lines \in Seq(Nat)
      BY <1>0 DEF WatchTypes
    <2> QED
      BY ONLY <2>1, ConcatProperties DEF Reported
  <1>4. Reported' = Reported
    <2>1. Reported' = Reported \o <<>>
      BY <1>1, <1>2 DEF Reported
    <2> HIDE DEF Reported
    <2> QED
      BY <1>3, <2>1, ConcatEmptySeq
  <1>5. WatchTypes'
    BY <1>0, <1>1, <1>2, <1>3, EmptySeq DEF WatchTypes, Spread, Last, Elements
  <1>6. Recent'
    BY <1>0, <1>1 DEF Recent, Last
  <1>7. Reports'
    BY <1>0, <1>1, <1>4 DEF Reports, Last, Elements, Spread
  <1>8. Failures'
    <2>1. emitted'.error = lastError
      <3>1. CASE found.error = {}
        BY <1>0, <1>1, <3>1 DEF Failures
      <3>2. CASE found.error # {}
        <4>1. found.error = {lastError}
          BY <1>0, <3>2 DEF Failures
        <4>2. emitted'.error = CHOOSE key \in {lastError} : TRUE
          BY <1>1, <4>1
        <4> QED
          BY <4>2
      <3> QED
        BY <3>1, <3>2
    <2> QED
      BY <1>1, <1>2, <2>1 DEF Failures
  <1> QED
    BY <1>5, <1>6, <1>7, <1>8 DEF WatchInv

LEMMA CancelKeeps ==
  ASSUME WatchInv, LoopCancelled
  PROVE  WatchInv'
  <1>0. WatchTypes /\ Recent /\ Reports /\ Failures
    BY DEF WatchInv
  <1>1. /\ loop' = "done" /\ found' = Nothing
        /\ UNCHANGED <<kernel, seen, seenSet, lastError, emitted>>
    BY DEF LoopCancelled
  <1>2. found'.lines = <<>> /\ found'.error = {}
    BY <1>1 DEF Nothing
  <1> PICK r, f : r = emitted.lines /\ f = found.lines
    OBVIOUS
  <1>3. r \in Seq(Nat) /\ f \in Seq(Nat) /\ Reported = r \o f
    BY <1>0 DEF WatchTypes, Reported
  <1>4. Reported' = r
    <2>1. Reported' = r \o <<>>
      BY <1>1, <1>2 DEF Reported
    <2> QED
      BY <1>3, <2>1, ConcatEmptySeq
  <1>5. WatchTypes'
    BY <1>0, <1>1, <1>2, EmptySeq DEF WatchTypes, Spread, Last, Elements
  <1>6. Recent'
    BY <1>0, <1>1 DEF Recent, Last
  <1>7. Spread(r) /\ Last(r) <= Last(seen)
    <2>1. Spread(r \o f) /\ Last(r \o f) <= Last(seen)
      BY <1>0, <1>3 DEF Reports
    <2>2. Spread(r) /\ Last(r) <= Last(r \o f)
      BY <1>3, <2>1, Beginning
    <2>3. Last(r) \in Nat /\ Last(r \o f) \in Nat /\ Last(seen) \in Nat
      <3>1. r \o f \in Seq(Nat) /\ seen \in Seq(Nat) /\ Spread(seen)
        BY <1>0, <1>3, ConcatProperties DEF WatchTypes
      <3> QED
        BY <1>3, <2>1, <2>2, <3>1, LastIsNewest
    <2> QED
      BY <2>1, <2>2, <2>3
  <1>8. Reports'
    <2>1. Spread(Reported)' = Spread(r) /\ Last(Reported)' = Last(r) /\ Last(seen)' = Last(seen)
      BY <1>1, <1>4 DEF Spread, Last
    <2> QED
      BY <1>1, <1>7, <2>1 DEF Reports
  <1>9. Failures'
    BY <1>1, <1>2 DEF Failures
  <1> QED
    BY <1>5, <1>6, <1>8, <1>9 DEF WatchInv

\* Nothing else touches what the watcher found or reported.
LEMMA OthersKeep ==
  ASSUME WatchInv, UNCHANGED <<seen, seenSet, lastError, found, emitted>>,
         kernel' = kernel \/ kernel' = kernel + 1,
         \/ loop' = loop
         \/ loop \in {"none", "sleeping"} /\ loop' \in {"none", "sleeping", "collecting"}
         \/ loop' = "cancelled"
  PROVE  WatchInv'
  <1>0. WatchTypes /\ Recent /\ Reports /\ Failures
    BY DEF WatchInv
  <1>1. Reported' = Reported
    BY DEF Reported
  <1>2. Last(seen)' = Last(seen) /\ Spread(seen)' = Spread(seen) /\ Elements(seen)' = Elements(seen)
    BY DEF Last, Spread, Elements
  <1>3. WatchTypes'
    <2>1. Last(seen) \in Nat
      BY <1>0, LastIsNewest DEF WatchTypes
    <2>2. kernel' \in Nat /\ Last(seen) <= kernel'
      BY <1>0, <2>1 DEF WatchTypes
    <2> QED
      BY <1>0, <1>2, <2>2 DEF WatchTypes
  <1>4. Recent'
    BY <1>0, <1>2 DEF Recent
  <1>5. Reports'
    <2>1. /\ Spread(Reported)' = Spread(Reported) /\ Last(Reported)' = Last(Reported)
          /\ Elements(Reported)' = Elements(Reported)
      BY <1>1 DEF Last, Spread, Elements
    <2>2. (Spread(Reported) /\ Last(Reported) <= Last(seen))'
      BY <1>0, <1>2, <2>1 DEF Reports
    <2>3. (loop \in {"none", "sleeping", "collecting"} => found = Nothing)'
      BY <1>0 DEF Reports, Nothing
    <2>4. (loop \notin {"cancelled", "done"} => seenSet \subseteq Elements(Reported))'
      BY <1>0, <2>1 DEF Reports
    <2> QED
      BY <2>2, <2>3, <2>4 DEF Reports
  <1>6. Failures'
    BY <1>0 DEF Failures
  <1> QED
    BY <1>3, <1>4, <1>5, <1>6 DEF WatchInv

\* Every step of the daemon keeps the invariant of the watcher.
LEMMA WatchStep ==
  ASSUME DaemonOK, WatchInv, phase = "starting" => loop = "none", [Next]_vars
  PROVE  WatchInv'
  <1>1. CASE Collect
    BY <1>1, CollectKeeps
  <1>2. CASE LoopEmits
    BY <1>2, EmitKeeps
  <1>3. CASE LoopCancelled
    BY <1>3, CancelKeeps
  <1>4. CASE Startup
    BY <1>4, OthersKeep DEF Startup, watchVars
  <1>5. CASE LoopWakes
    BY <1>5, OthersKeep DEF LoopWakes, watchVars
  <1>6. CASE KernelLogs
    BY <1>6, OthersKeep DEF KernelLogs
  <1>7. CASE CleanUpTelemetry
    BY <1>7, OthersKeep DEF CleanUpTelemetry, watchVars
  <1>8. CASE UNCHANGED watchVars /\ loop' = loop
    BY <1>8, OthersKeep DEF watchVars
  <1> QED
    BY <1>1, <1>2, <1>3, <1>4, <1>5, <1>6, <1>7, <1>8
       DEF Next, vars, LoaderEnds, LoadModelEnds, LoadModelCancelled, Tick, Status, ChatStarts,
           ChatPolls, ChatEnds, Stop, CleanUp, CleanUpLoad, CleanUpSession, Exit

\* The loop is started by the startup, never before it.
LEMMA NoLoopYet == Spec => [](phase = "starting" => loop = "none")
  <1> DEFINE Early == phase = "starting" => loop = "none"
  <1>1. Init => Early
    BY DEF Init
  <1>2. Early /\ [Next]_vars => Early'
    BY DEF vars, lifeVars, Next, Startup, LoaderEnds, LoadModelEnds, LoadModelCancelled, Tick, Status,
           ChatStarts, ChatPolls, ChatEnds, LoopWakes, KernelLogs, Collect, LoopEmits, Stop, CleanUp,
           CleanUpTelemetry, CleanUpLoad, CleanUpSession, LoopCancelled, Exit
  <1> QED
    BY <1>1, <1>2, PTL DEF Spec

\* The lines seen and the lines reported grow together, each line newer than
\* the one before, and the window of the log never opens before what was seen.
THEOREM WatchInvariant == Spec => []WatchInv
  <1>1. WatchInv /\ (phase = "starting" => loop = "none") /\ [Next]_vars => WatchInv'
    BY DaemonOK, WatchStep
  <1> QED
    BY <1>1, WatchStart, NoLoopYet, PTL DEF Spec

\* The watcher of the kernel log reports every line once and in order, though
\* it reads the same window again and again and forgets the oldest lines, and
\* what it remembers it has reported or is about to.
THEOREM KernelLinesReported == Spec => []KernelLinesOnce
  <1>1. WatchInv => KernelLinesOnce
    <2> SUFFICES ASSUME WatchInv PROVE KernelLinesOnce
      OBVIOUS
    <2>0. WatchTypes /\ Reports /\ Failures
      BY DEF WatchInv
    <2> PICK q : q = Reported
      OBVIOUS
    <2>1. q \in Seq(Nat) /\ Spread(q)
      <3>1. emitted.lines \in Seq(Nat) /\ found.lines \in Seq(Nat)
        BY <2>0 DEF WatchTypes
      <3>2. emitted.lines \o found.lines \in Seq(Nat)
        BY ONLY <3>1, ConcatProperties
      <3> QED
        BY <2>0, <3>2 DEF Reported, Reports
    <2>2. ASSUME NEW i \in DOMAIN q, NEW j \in DOMAIN q, i < j PROVE q[i] < q[j]
      <3>1. PICK n \in Nat : DOMAIN q = 1 .. n /\ \A h \in 1 .. n : q[h] \in Nat
        BY <2>1, LenProperties, ElementOfSeq
      <3>2. i \in Nat /\ j \in Nat /\ q[i] \in Nat /\ q[j] \in Nat
        BY <3>1
      <3>3. q[j] - q[i] >= j - i
        BY <2>1, <2>2, <3>2 DEF Spread
      <3> QED
        BY <2>2, <3>2, <3>3
    <2>3. ASSUME loop \notin {"cancelled", "done"}
          PROVE  seenSet \subseteq {q[i] : i \in DOMAIN q} /\ lastError \in found.error \cup {emitted.error}
      <3>1. seenSet \subseteq {q[i] : i \in DOMAIN q}
        BY <2>0, <2>3 DEF Reports, Elements
      <3>2. lastError \in found.error \cup {emitted.error}
        BY <2>0, <2>3 DEF Failures
      <3> QED
        BY <3>1, <3>2
    <2>4. q = emitted.lines \o found.lines
      BY DEF Reported
    <2> QED
      BY <2>2, <2>3, <2>4 DEF KernelLinesOnce
  <1> QED
    BY <1>1, WatchInvariant, PTL
=============================================================================
