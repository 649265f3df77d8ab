------------------------- MODULE TraceThreadsProofs -------------------------
(***************************************************************************)
(* No event is lost between replay and live delivery, for any number of    *)
(* worker threads, clients and events and any length of the buffer.        *)
(*                                                                         *)
(* NoSilentLoss counts what a client was offered and what is scheduled for *)
(* it.  The invariant adds what an emit() in progress has still to         *)
(* schedule (Due): for a client that is not being replayed to, the three   *)
(* together are at least one for an event of the buffer and at most two,   *)
(* or one for an event of the loop thread.                                 *)
(***************************************************************************)
EXTENDS TraceThreads, SequenceTheorems, FiniteSetTheorems, TLAPS

-----------------------------------------------------------------------------
(* Counting in sequences.                                                  *)

LEMMA PlacesFinite ==
  ASSUME NEW S, NEW q \in Seq(S), NEW x
  PROVE  /\ IsFiniteSet({i \in DOMAIN q : q[i] = x}) /\ Count(q, x) \in Nat
  <1>1. DOMAIN q = 1 .. Len(q) /\ Len(q) \in Nat
    BY LenProperties
  <1>2. IsFiniteSet(1 .. Len(q))
    BY <1>1, FS_Interval
  <1> DEFINE places == {i \in DOMAIN q : q[i] = x}
  <1>3. places \in SUBSET (1 .. Len(q))
    BY <1>1
  <1> HIDE DEF places
  <1>4. IsFiniteSet(places) /\ Cardinality(places) \in Nat
    BY <1>2, <1>3, FS_Subset, FS_CardinalityType
  <1> QED
    BY <1>4 DEF places, Count

LEMMA CountAppend ==
  ASSUME NEW S, NEW q \in Seq(S), NEW y \in S, NEW x
  PROVE  Count(Append(q, y), x) = Count(q, x) + (IF x = y THEN 1 ELSE 0)
  <1> PICK n \in Nat : n = Len(q)
    BY LenProperties
  <1> DEFINE places == {i \in DOMAIN q : q[i] = x}
             more == {i \in DOMAIN Append(q, y) : Append(q, y)[i] = x}
  <1>1. /\ DOMAIN q = 1 .. n /\ DOMAIN Append(q, y) = 1 .. n + 1
        /\ \A i \in 1 .. n : Append(q, y)[i] = q[i]
        /\ Append(q, y)[n + 1] = y
    BY AppendProperties, LenProperties
  <1>2. 1 .. n + 1 = (1 .. n) \cup {n + 1} /\ n + 1 \notin 1 .. n
    OBVIOUS
  <1>3. IsFiniteSet(places) /\ Cardinality(places) \in Nat
    BY PlacesFinite DEF Count
  <1>4. CASE x = y
    <2>1. more = places \cup {n + 1} /\ n + 1 \notin places
      BY <1>1, <1>2, <1>4
    <2> HIDE DEF places, more
    <2>2. Cardinality(more) = Cardinality(places) + 1
      BY <1>3, <2>1, FS_AddElement
    <2> QED
      BY <1>4, <2>2 DEF places, more, Count
  <1>5. CASE x # y
    <2>1. more = places
      <3>1. ASSUME NEW i PROVE i \in more <=> i \in places
        BY <1>1, <1>2, <1>5
      <3> QED
        BY <3>1
    <2> HIDE DEF places, more
    <2>2. Cardinality(more) = Cardinality(places) + 0
      BY <1>3, <2>1
    <2> QED
      BY <1>5, <2>2 DEF places, more, Count
  <1> QED
    BY <1>4, <1>5

\* The same places, one further.
LEMMA CountShifted ==
  ASSUME NEW A \in SUBSET Nat, NEW B \in SUBSET Nat, IsFiniteSet(A), \A i \in Nat : i + 1 \in B <=> i \in A, 0 \notin B
  PROVE  IsFiniteSet(B) /\ Cardinality(B) = Cardinality(A)
  <1> DEFINE f == [i \in A |-> i + 1]
  <1>1. f \in [A -> B]
    OBVIOUS
  <1>2. \A i, j \in A : f[i] = f[j] => i = j
    <2>1. ASSUME NEW i \in A, NEW j \in A, f[i] = f[j] PROVE i = j
      <3>1. i + 1 = j + 1 /\ i \in Nat /\ j \in Nat
        BY <2>1
      <3> QED
        BY <3>1
    <2> QED
      BY <2>1
  <1>3. \A k \in B : \E i \in A : f[i] = k
    <2>1. ASSUME NEW k \in B PROVE \E i \in A : f[i] = k
      <3>1. k \in Nat /\ k # 0
        OBVIOUS
      <3>2. k - 1 \in Nat /\ (k - 1) + 1 = k
        BY <3>1
      <3>3. k - 1 \in A
        BY <3>2
      <3> QED
        BY <3>2, <3>3
    <2> QED
      BY <2>1
  <1> HIDE DEF f
  <1>4. f \in Bijection(A, B)
    BY <1>1, <1>2, <1>3 DEF Bijection, Injection, IsInjective, Surjection
  <1> QED
    BY <1>4, FS_Bijection DEF ExistsBijection

LEMMA CountTail ==
  ASSUME NEW S, NEW q \in Seq(S), q # <<>>, NEW x
  PROVE  Count(q, x) = Count(Tail(q), x) + (IF x = Head(q) THEN 1 ELSE 0)
  <1>0. Len(q) \in Nat /\ Len(q) # 0
    BY LenProperties, EmptySeq
  <1> PICK n \in Nat \ {0} : n = Len(q)
    BY <1>0
  <1> DEFINE places == {i \in DOMAIN q : q[i] = x}
             less == {i \in DOMAIN Tail(q) : Tail(q)[i] = x}
             shifted == places \ {1}
  <1>1. /\ DOMAIN q = 1 .. n /\ DOMAIN Tail(q) = 1 .. n - 1 /\ Tail(q) \in Seq(S)
        /\ \A i \in 1 .. n - 1 : Tail(q)[i] = q[i + 1]
        /\ Head(q) = q[1]
    BY HeadTailProperties, LenProperties
  <1>2. /\ IsFiniteSet(less) /\ Cardinality(less) \in Nat /\ IsFiniteSet(places)
    BY <1>1, PlacesFinite, ZenonT(60) DEF Count
  <1>3. \A i \in Nat : i + 1 \in shifted <=> i \in less
    <2>1. ASSUME NEW i \in Nat PROVE i + 1 \in shifted <=> i \in less
      <3>1. (i + 1 \in 1 .. n /\ i + 1 # 1) <=> i \in 1 .. n - 1
        OBVIOUS
      <3> QED
        BY <1>1, <3>1
    <2> QED
      BY <2>1
  <1>4. less \in SUBSET Nat /\ shifted \in SUBSET Nat /\ 0 \notin shifted
    BY <1>1
  <1>5. IsFiniteSet(shifted) /\ Cardinality(shifted) = Cardinality(less)
    <2> HIDE DEF shifted, less
    <2> QED
      BY <1>2, <1>3, <1>4, CountShifted
  <1>6. CASE x = Head(q)
    <2>1. places = shifted \cup {1} /\ 1 \notin shifted
      BY <1>1, <1>6
    <2> HIDE DEF shifted, less, places
    <2>2. Cardinality(places) = Cardinality(less) + 1
      BY <1>2, <1>5, <2>1, FS_AddElement
    <2> QED
      BY <1>6, <2>2 DEF places, less, Count
  <1>7. CASE x # Head(q)
    <2>1. places = shifted
      <3>1. q[1] # x
        BY <1>1, <1>7
      <3> QED
        BY <3>1
    <2> HIDE DEF shifted, less, places
    <2>2. Cardinality(places) = Cardinality(less) + 0
      BY <1>2, <1>5, <2>1
    <2> QED
      BY <1>7, <2>2 DEF places, less, Count
  <1> QED
    BY <1>6, <1>7

\* A sequence without repetition has each of its elements once.
LEMMA CountOnce ==
  ASSUME NEW S, NEW q \in Seq(S), \A i, j \in DOMAIN q : q[i] = q[j] => i = j, NEW x
  PROVE  Count(q, x) = IF \E i \in DOMAIN q : q[i] = x THEN 1 ELSE 0
  <1> DEFINE places == {i \in DOMAIN q : q[i] = x}
  <1>1. CASE \E i \in DOMAIN q : q[i] = x
    <2>1. PICK i \in DOMAIN q : q[i] = x
      BY <1>1
    <2>2. places = {i}
      BY <2>1
    <2> HIDE DEF places
    <2>3. Cardinality(places) = 1
      BY <2>2, FS_Singleton
    <2> QED
      BY <1>1, <2>3 DEF Count, places
  <1>2. CASE ~\E i \in DOMAIN q : q[i] = x
    <2>1. places = {}
      BY <1>2
    <2> HIDE DEF places
    <2>3. Cardinality(places) = 0
      BY <2>1, FS_EmptySet
    <2> QED
      BY <1>2, <2>3 DEF Count, places
  <1> QED
    BY <1>1, <1>2

LEMMA CountNone ==
  ASSUME NEW q, NEW x, \A i \in DOMAIN q : q[i] # x
  PROVE  Count(q, x) = 0
  <1> DEFINE places == {i \in DOMAIN q : q[i] = x}
  <1>1. places = {}
    OBVIOUS
  <1> HIDE DEF places
  <1>2. Cardinality(places) = 0
    BY <1>1, FS_EmptySet
  <1> QED
    BY <1>2 DEF places, Count

LEMMA CountSame ==
  ASSUME NEW q, NEW r, NEW x, DOMAIN q = DOMAIN r, \A i \in DOMAIN q : q[i] = x <=> r[i] = x
  PROVE  Count(q, x) = Count(r, x)
  <1>1. {i \in DOMAIN q : q[i] = x} = {i \in DOMAIN r : r[i] = x}
    OBVIOUS
  <1> QED
    BY <1>1 DEF Count

-----------------------------------------------------------------------------
(* The inductive invariant.                                                *)

Elements(q) == {q[i] : i \in DOMAIN q}

ThreadTypes ==
  /\ emitted \in Seq(Threads) /\ events \in Seq(Nat)
  /\ finished \subseteq DOMAIN emitted /\ subscribers \subseteq Subscribers
  /\ stage \in [Threads -> {"idle", "append", "copy", "schedule"}]
  /\ event \in [Threads -> Nat] /\ targets \in [Threads -> SUBSET Subscribers]
  /\ ready \in Seq([to : SUBSET Subscribers, event : Nat])
  /\ offered \in [Subscribers -> Seq(Nat)]
  /\ Elements(events) \subseteq DOMAIN emitted
  /\ \A i \in DOMAIN ready : ready[i].event \in DOMAIN emitted
  /\ \A s \in Subscribers : Elements(offered[s]) \subseteq DOMAIN emitted

\* A thread in emit() emits an event of its own, which the buffer gets once.
OwnEvent(t) ==
  /\ stage[t] # "idle" =>
       event[t] \in DOMAIN emitted /\ emitted[event[t]] = t /\ event[t] \notin finished
  /\ stage[t] = "append" => event[t] \notin Elements(events)

Once == \A i, j \in DOMAIN events : events[i] = events[j] => i = j

\* The loop thread runs one thing at a time.
OneAtATime ==
  /\ stage[Loop] # "idle" => running = {Loop}
  /\ \A s \in Subscribers : running = {s} => s \in subscribers /\ offered[s] = <<>>

\* Nothing is left for a slot whose client left.
Cleared(s) ==
  s \notin subscribers =>
    /\ offered[s] = <<>> /\ \A t \in Threads : s \notin targets[t]
    /\ \A i \in DOMAIN ready : ready[i].to # {s}

\* What the emit() of e has still to schedule for s.
Unscheduled(s, e, t) ==
  /\ event[t] = e
  /\ stage[t] \in {"append", "copy"} \/ (stage[t] = "schedule" /\ s \in targets[t])

ToCome(s, e) == \E t \in Threads : Unscheduled(s, e, t)

Due(s, e) == IF ToCome(s, e) THEN 1 ELSE 0

Scheduled(s, e) == Count(ready, [to |-> {s}, event |-> e])

Bounded(s, e) ==
  IF running = {s}
    THEN Scheduled(s, e) + Due(s, e) <= IF emitted[e] = Loop THEN 0 ELSE 1
    ELSE /\ Copies(s, e) + Due(s, e) <= IF emitted[e] = Loop THEN 1 ELSE 2
         /\ e \in Elements(events) => Copies(s, e) + Due(s, e) >= 1

ThreadsInv ==
  /\ ThreadTypes /\ Once /\ OneAtATime
  /\ \A t \in Threads : OwnEvent(t)
  /\ \A s \in Subscribers : Cleared(s)
  /\ \A s \in subscribers : \A e \in DOMAIN emitted : Bounded(s, e)

LEMMA CountsAre ==
  ASSUME ThreadsInv, NEW s \in Subscribers, NEW e
  PROVE  /\ Count(offered[s], e) \in Nat /\ Scheduled(s, e) \in Nat /\ Due(s, e) \in {0, 1}
         /\ Copies(s, e) = Count(offered[s], e) + Scheduled(s, e)
  <1>1. offered[s] \in Seq(Nat) /\ ready \in Seq([to : SUBSET Subscribers, event : Nat])
    BY DEF ThreadsInv, ThreadTypes
  <1>2. Count(offered[s], e) \in Nat /\ Count(ready, [to |-> {s}, event |-> e]) \in Nat
    BY <1>1, PlacesFinite
  <1> QED
    BY <1>2 DEF Due, Scheduled, Copies

LEMMA LogTyped ==
  ASSUME ThreadsInv
  PROVE  Len(emitted) \in Nat /\ DOMAIN emitted = 1 .. Len(emitted)
  BY LenProperties DEF ThreadsInv, ThreadTypes

\* An event belongs to one thread.
LEMMA OneEmitter ==
  ASSUME ThreadsInv, NEW t \in Threads, NEW u \in Threads,
         stage[t] # "idle", stage[u] # "idle", event[t] = event[u]
  PROVE  t = u
  BY DEF ThreadsInv, OwnEvent

\* What decides whether Bounded still holds.
Same(s, e) ==
  /\ emitted'[e] = emitted[e] /\ offered'[s] = offered[s]
  /\ Scheduled(s, e)' = Scheduled(s, e) /\ (ToCome(s, e)' <=> ToCome(s, e))
  /\ running' = {s} <=> running = {s}
  /\ e \in Elements(events') => e \in Elements(events)

LEMMA StaysBounded ==
  ASSUME NEW s, NEW e, Bounded(s, e), Same(s, e)
  PROVE  Bounded(s, e)'
  <1>1. Due(s, e)' = Due(s, e)
    BY DEF Same, Due
  <1>2. Copies(s, e)' = Copies(s, e)
    BY DEF Same, Copies, Scheduled
  <1> QED
    BY <1>1, <1>2 DEF Same, Bounded

LEMMA EmitKeeps ==
  ASSUME ConstantsOK, ThreadsInv, NEW t \in Threads, Emit(t)
  PROVE  ThreadsInv'
  <1> PICK n \in Nat : n = Len(emitted)
    BY LogTyped
  <1>0. ThreadTypes /\ Once /\ OneAtATime /\ Loop \in Threads
    BY DEF ThreadsInv, Threads
  <1>1. /\ DOMAIN emitted = 1 .. n /\ DOMAIN emitted' = 1 .. n + 1 /\ emitted' \in Seq(Threads)
        /\ \A i \in 1 .. n : emitted'[i] = emitted[i]
        /\ emitted'[n + 1] = t /\ Len(emitted') = n + 1
    <2>1. emitted \in Seq(Threads) /\ emitted' = Append(emitted, t)
      BY <1>0 DEF Emit, ThreadTypes
    <2> QED
      BY <2>1, AppendProperties, LenProperties
  <1>2. 1 .. n + 1 = (1 .. n) \cup {n + 1} /\ n + 1 \notin 1 .. n
    OBVIOUS
  <1>3. /\ stage[t] = "idle" /\ stage' = [stage EXCEPT ![t] = "append"]
        /\ event' = [event EXCEPT ![t] = n + 1]
        /\ UNCHANGED <<finished, events, subscribers, targets, ready, offered>>
        /\ running' = IF t = Loop THEN {Loop} ELSE running
        /\ t = Loop => running = {}
    BY <1>1 DEF Emit, Goes, LoopFree, Nobody
  <1>4. ThreadTypes'
    <2>1. DOMAIN emitted \subseteq DOMAIN emitted'
      BY <1>1, <1>2
    <2>2. stage' \in [Threads -> {"idle", "append", "copy", "schedule"}] /\ event' \in [Threads -> Nat]
      BY <1>0, <1>3 DEF ThreadTypes
    <2>3. /\ Elements(events)' = Elements(events)
          /\ \A s \in Subscribers : Elements(offered[s])' = Elements(offered[s])
      BY <1>3 DEF Elements
    <2>4. /\ finished' \subseteq DOMAIN emitted' /\ Elements(events)' \subseteq DOMAIN emitted'
          /\ \A s \in Subscribers : Elements(offered[s])' \subseteq DOMAIN emitted'
      BY <1>0, <1>3, <2>1, <2>3 DEF ThreadTypes
    <2>5. \A i \in DOMAIN ready' : ready'[i].event \in DOMAIN emitted'
      BY <1>0, <1>3, <2>1 DEF ThreadTypes
    <2> QED
      BY <1>0, <1>1, <1>3, <2>2, <2>4, <2>5 DEF ThreadTypes
  <1>5. Once' /\ OneAtATime'
    <2>1. Once'
      BY <1>0, <1>3 DEF Once
    <2>2. stage'[Loop] # "idle" => running' = {Loop}
      BY <1>0, <1>3 DEF OneAtATime, ThreadTypes
    <2>3. ASSUME NEW s \in Subscribers, running' = {s} PROVE s \in subscribers' /\ offered'[s] = <<>>
      <3>1. s # Loop
        BY DEF ConstantsOK
      <3> QED
        BY <1>0, <1>3, <2>3, <3>1 DEF OneAtATime
    <2> QED
      BY <2>1, <2>2, <2>3 DEF OneAtATime
  <1>6. ASSUME NEW u \in Threads PROVE OwnEvent(u)'
    <2>1. CASE u = t
      <3>1. stage'[t] = "append" /\ event'[t] = n + 1
        BY <1>0, <1>3 DEF ThreadTypes
      <3>2. n + 1 \notin finished /\ n + 1 \notin Elements(events)
        BY <1>0, <1>1, <1>2 DEF ThreadTypes
      <3>3. Elements(events)' = Elements(events)
        BY <1>3 DEF Elements
      <3> QED
        BY <1>1, <1>2, <1>3, <2>1, <3>1, <3>2, <3>3 DEF OwnEvent
    <2>2. CASE u # t
      <3>1. stage'[u] = stage[u] /\ event'[u] = event[u] /\ OwnEvent(u)
        BY <1>0, <1>3, <2>2 DEF ThreadTypes, ThreadsInv
      <3>2. Elements(events)' = Elements(events)
        BY <1>3 DEF Elements
      <3> QED
        BY <1>1, <1>2, <1>3, <3>1, <3>2 DEF OwnEvent
    <2> QED
      BY <2>1, <2>2
  <1>7. ASSUME NEW s \in Subscribers PROVE Cleared(s)'
    BY <1>3 DEF ThreadsInv, Cleared
  <1>8. ASSUME NEW s \in subscribers, NEW e \in DOMAIN emitted' PROVE Bounded(s, e)'
    <2>0. s \in Subscribers /\ s # Loop
      BY <1>0 DEF ThreadTypes, ConstantsOK
    <2>1. CASE e \in 1 .. n
      <3>1. ASSUME NEW u \in Threads PROVE Unscheduled(s, e, u)' <=> Unscheduled(s, e, u)
        <4>1. CASE u = t
          <5>1. event'[t] = n + 1 /\ n + 1 # e
            BY <1>0, <1>2, <1>3, <2>1 DEF ThreadTypes
          <5> QED
            BY <1>3, <4>1, <5>1 DEF Unscheduled
        <4>2. CASE u # t
          <5>1. stage'[u] = stage[u] /\ event'[u] = event[u]
            BY <1>0, <1>3, <4>2 DEF ThreadTypes
          <5> QED
            BY <1>3, <5>1 DEF Unscheduled
        <4> QED
          BY <4>1, <4>2
      <3>2. ToCome(s, e)' <=> ToCome(s, e)
        BY <3>1 DEF ToCome
      <3>3. Scheduled(s, e)' = Scheduled(s, e) /\ Elements(events)' = Elements(events)
        BY <1>3 DEF Scheduled, Count, Elements
      <3>4. running' = {s} <=> running = {s}
        BY <1>3, <2>0
      <3>5. Same(s, e)
        BY <1>1, <1>3, <2>1, <3>2, <3>3, <3>4 DEF Same
      <3> QED
        BY <1>1, <2>1, <3>5, StaysBounded DEF ThreadsInv
    <2>2. CASE e = n + 1
      <3>1. Count(offered[s], e) = 0 /\ Scheduled(s, e) = 0
        <4>1. \A i \in DOMAIN offered[s] : offered[s][i] # e
          BY <1>0, <1>1, <1>2, <2>0, <2>2 DEF ThreadTypes, Elements
        <4>2. \A i \in DOMAIN ready : ready[i] # [to |-> {s}, event |-> e]
          BY <1>0, <1>1, <1>2, <2>2 DEF ThreadTypes
        <4> QED
          BY <4>1, <4>2, CountNone DEF Scheduled
      <3>2. Copies(s, e)' = 0 /\ Scheduled(s, e)' = 0
        BY <1>3, <3>1 DEF Copies, Scheduled, Count
      <3>3. Due(s, e)' \in {0, 1}
        BY DEF Due
      <3>4. e \notin Elements(events)'
        BY <1>0, <1>1, <1>2, <1>3, <2>2 DEF ThreadTypes, Elements
      <3>5. emitted'[e] = t /\ (t = Loop => running' # {s})
        BY <1>1, <1>3, <2>0, <2>2
      <3> QED
        BY <3>2, <3>3, <3>4, <3>5 DEF Bounded
    <2> QED
      BY <1>1, <1>2, <2>1, <2>2
  <1>9. subscribers' = subscribers
    BY <1>3
  <1> QED
    BY <1>4, <1>5, <1>6, <1>7, <1>8, <1>9 DEF ThreadsInv

LEMMA AppendKeeps ==
  ASSUME ConstantsOK, ThreadsInv, NEW t \in Threads, AppendEvent(t)
  PROVE  ThreadsInv'
  <1> PICK n \in Nat : n = Len(events)
    BY LenProperties DEF ThreadsInv, ThreadTypes
  <1>0. ThreadTypes /\ Once /\ OneAtATime /\ Loop \in Threads /\ OwnEvent(t)
    BY DEF ThreadsInv, Threads
  <1>1. /\ stage[t] = "append" /\ stage' = [stage EXCEPT ![t] = "copy"]
        /\ events' = Remembered(event[t])
        /\ UNCHANGED <<emitted, finished, subscribers, event, targets, ready, running, offered>>
    BY DEF AppendEvent, Goes
  <1>2. event[t] \in DOMAIN emitted /\ event[t] \in Nat /\ event[t] \notin Elements(events)
    BY <1>0, <1>1 DEF OwnEvent, ThreadTypes
  <1>3. /\ events' \in Seq(Nat) /\ Once'
        /\ Elements(events)' \subseteq Elements(events) \cup {event[t]}
    <2>0. events \in Seq(Nat) /\ MaxEvents \in Nat \ {0} /\ DOMAIN events = 1 .. n
      BY <1>0, LenProperties DEF ThreadTypes, ConstantsOK
    <2>1. CASE n < MaxEvents
      <3>1. events' = Append(events, event[t])
        BY <1>1, <2>1 DEF Remembered
      <3>2. /\ events' \in Seq(Nat) /\ DOMAIN events' = 1 .. n + 1
            /\ \A i \in 1 .. n : events'[i] = events[i]
            /\ events'[n + 1] = event[t]
        BY <1>2, <2>0, <3>1, AppendProperties, LenProperties
      <3>3. \A i \in 1 .. n + 1 : i \in 1 .. n \/ i = n + 1
        OBVIOUS
      <3>4. Once'
        BY <1>0, <1>2, <2>0, <3>2, <3>3, SMTT(30) DEF Once, Elements
      <3> QED
        BY <2>0, <3>2, <3>3, <3>4 DEF Elements
    <2>2. CASE ~(n < MaxEvents)
      <3>0. n # 0 /\ events # <<>>
        BY <2>0, <2>2
      <3>1. events' = Append(Tail(events), event[t])
        BY <1>1, <2>2 DEF Remembered
      <3>2. /\ Tail(events) \in Seq(Nat) /\ Len(Tail(events)) = n - 1
            /\ \A i \in 1 .. n - 1 : Tail(events)[i] = events[i + 1]
        BY <2>0, <3>0, HeadTailProperties
      <3>3. /\ events' \in Seq(Nat) /\ DOMAIN events' = 1 .. n
            /\ \A i \in 1 .. n - 1 : events'[i] = events[i + 1]
            /\ events'[n] = event[t]
        BY <1>2, <3>0, <3>1, <3>2, AppendProperties, LenProperties
      <3>4. \A i \in 1 .. n : (i \in 1 .. n - 1 /\ i + 1 \in 1 .. n) \/ i = n
        OBVIOUS
      <3>5. Once'
        <4>1. ASSUME NEW i \in 1 .. n, NEW j \in 1 .. n, events'[i] = events'[j] PROVE i = j
          <5>1. CASE i \in 1 .. n - 1 /\ j \in 1 .. n - 1
            <6>1. events[i + 1] = events[j + 1] /\ i + 1 \in 1 .. n /\ j + 1 \in 1 .. n
              BY <3>3, <4>1, <5>1
            <6>2. i + 1 = j + 1
              BY <1>0, <2>0, <6>1 DEF Once
            <6> QED
              BY <6>2
          <5>2. \A k \in 1 .. n - 1 : events'[k] # event[t]
            <6>1. \A m \in 1 .. n : events[m] # event[t]
              BY <1>2, <2>0 DEF Elements
            <6>2. ASSUME NEW k \in 1 .. n - 1 PROVE events'[k] # event[t]
              <7>1. k + 1 \in 1 .. n /\ events'[k] = events[k + 1]
                BY <3>3
              <7> QED
                BY <6>1, <7>1
            <6> QED
              BY <6>2
          <5> QED
            BY <3>3, <3>4, <4>1, <5>1, <5>2
        <4> QED
          BY <3>3, <4>1 DEF Once
      <3>6. ASSUME NEW i \in 1 .. n PROVE events'[i] \in Elements(events) \cup {event[t]}
        <4>1. CASE i \in 1 .. n - 1
          <5>1. i + 1 \in 1 .. n /\ events'[i] = events[i + 1]
            BY <3>3, <4>1
          <5> QED
            BY <2>0, <5>1 DEF Elements
        <4> QED
          BY <3>3, <3>4, <4>1
      <3>7. Elements(events)' \subseteq Elements(events) \cup {event[t]}
        BY <3>3, <3>6 DEF Elements
      <3> QED
        BY <3>3, <3>5, <3>7
    <2> QED
      BY <2>1, <2>2
  <1>4. ThreadTypes'
    <2>1. stage' \in [Threads -> {"idle", "append", "copy", "schedule"}]
      BY <1>0, <1>1 DEF ThreadTypes
    <2>2. Elements(events)' \subseteq DOMAIN emitted'
      BY <1>0, <1>1, <1>2, <1>3 DEF ThreadTypes
    <2>3. \A s \in Subscribers : Elements(offered[s])' \subseteq DOMAIN emitted'
      BY <1>0, <1>1 DEF ThreadTypes, Elements
    <2> QED
      BY <1>0, <1>1, <1>3, <2>1, <2>2, <2>3 DEF ThreadTypes
  <1>5. OneAtATime'
    BY <1>0, <1>1 DEF OneAtATime, ThreadTypes
  <1>6. ASSUME NEW u \in Threads PROVE OwnEvent(u)'
    <2>1. CASE u = t
      BY <1>0, <1>1, <2>1 DEF OwnEvent, ThreadTypes
    <2>2. CASE u # t
      <3>1. stage'[u] = stage[u] /\ event'[u] = event[u] /\ OwnEvent(u)
        BY <1>0, <1>1, <2>2 DEF ThreadTypes, ThreadsInv
      <3>2. stage[u] = "append" => event[u] # event[t]
        BY <1>1, <2>2, OneEmitter
      <3> QED
        BY <1>1, <1>3, <3>1, <3>2 DEF OwnEvent
    <2> QED
      BY <2>1, <2>2
  <1>7. ASSUME NEW s \in Subscribers PROVE Cleared(s)'
    BY <1>1 DEF ThreadsInv, Cleared
  <1>8. ASSUME NEW s \in subscribers, NEW e \in DOMAIN emitted PROVE Bounded(s, e)'
    <2>0. s \in Subscribers /\ Bounded(s, e)
      BY <1>0 DEF ThreadTypes, ThreadsInv
    <2>1. ASSUME NEW u \in Threads PROVE Unscheduled(s, e, u)' <=> Unscheduled(s, e, u)
      BY <1>0, <1>1 DEF Unscheduled, ThreadTypes
    <2>2. ToCome(s, e)' <=> ToCome(s, e)
      BY <2>1 DEF ToCome
    <2>3. Scheduled(s, e)' = Scheduled(s, e)
      BY <1>1 DEF Scheduled, Count
    <2>4. CASE e # event[t]
      BY <1>1, <1>3, <2>0, <2>2, <2>3, <2>4, StaysBounded DEF Same
    <2>5. CASE e = event[t]
      <3>1. ToCome(s, e)
        BY <1>1, <2>5 DEF ToCome, Unscheduled
      <3>2. Due(s, e) = 1 /\ Due(s, e)' = 1
        BY <2>2, <3>1 DEF Due
      <3>3. Copies(s, e)' = Copies(s, e)
        BY <1>1 DEF Copies, Count
      <3>4. Copies(s, e) \in Nat
        BY <2>0, CountsAre
      <3>5. Copies(s, e) + Due(s, e) >= 1
        BY <3>2, <3>4
      <3> QED
        BY <1>1, <2>0, <2>3, <3>2, <3>3, <3>5 DEF Bounded
    <2> QED
      BY <2>4, <2>5
  <1> QED
    BY <1>1, <1>3, <1>4, <1>5, <1>6, <1>7, <1>8 DEF ThreadsInv

LEMMA CopyKeeps ==
  ASSUME ConstantsOK, ThreadsInv, NEW t \in Threads, CopySubscribers(t)
  PROVE  ThreadsInv'
  <1>0. ThreadTypes /\ Once /\ OneAtATime /\ Loop \in Threads
    BY DEF ThreadsInv, Threads
  <1>1. /\ stage[t] = "copy" /\ stage' = [stage EXCEPT ![t] = "schedule"]
        /\ targets' = [targets EXCEPT ![t] = subscribers]
        /\ UNCHANGED <<emitted, finished, events, subscribers, event, ready, running, offered>>
    BY DEF CopySubscribers, Goes
  <1>2. Elements(events)' = Elements(events)
    BY <1>1 DEF Elements
  <1>3. ThreadTypes'
    <2>1. /\ stage' \in [Threads -> {"idle", "append", "copy", "schedule"}]
          /\ targets' \in [Threads -> SUBSET Subscribers]
      BY <1>0, <1>1 DEF ThreadTypes
    <2>2. \A s \in Subscribers : Elements(offered[s])' \subseteq DOMAIN emitted'
      BY <1>0, <1>1 DEF ThreadTypes, Elements
    <2> QED
      BY <1>0, <1>1, <1>2, <2>1, <2>2 DEF ThreadTypes
  <1>4. Once' /\ OneAtATime'
    BY <1>0, <1>1 DEF Once, OneAtATime, ThreadTypes
  <1>5. ASSUME NEW u \in Threads PROVE OwnEvent(u)'
    <2>1. (stage'[u] = "append" => stage[u] = "append") /\ (stage'[u] # "idle" => stage[u] # "idle")
      BY <1>0, <1>1 DEF ThreadTypes
    <2> QED
      BY <1>1, <1>2, <2>1 DEF ThreadsInv, OwnEvent
  <1>6. ASSUME NEW s \in Subscribers PROVE Cleared(s)'
    BY <1>0, <1>1 DEF ThreadsInv, Cleared, ThreadTypes
  <1>7. ASSUME NEW s \in subscribers, NEW e \in DOMAIN emitted PROVE Bounded(s, e)'
    <2>1. ASSUME NEW u \in Threads PROVE Unscheduled(s, e, u)' <=> Unscheduled(s, e, u)
      BY <1>0, <1>1 DEF Unscheduled, ThreadTypes
    <2>2. ToCome(s, e)' <=> ToCome(s, e)
      BY <2>1 DEF ToCome
    <2>3. Scheduled(s, e)' = Scheduled(s, e)
      BY <1>1 DEF Scheduled, Count
    <2> QED
      BY <1>1, <1>2, <2>2, <2>3, StaysBounded DEF Same, ThreadsInv
  <1> QED
    BY <1>1, <1>3, <1>4, <1>5, <1>6, <1>7 DEF ThreadsInv

LEMMA ScheduleKeeps ==
  ASSUME ConstantsOK, ThreadsInv, NEW t \in Threads, NEW q \in Subscribers, Schedule(t, q)
  PROVE  ThreadsInv'
  <1>0. ThreadTypes /\ Once /\ OneAtATime /\ Loop \in Threads
    BY DEF ThreadsInv, Threads
  <1> DEFINE entry == [to |-> {q}, event |-> event[t]]
             Entries == [to : SUBSET Subscribers, event : Nat]
  <1>1. /\ stage[t] = "schedule" /\ q \in targets[t]
        /\ targets' = [targets EXCEPT ![t] = targets[t] \ {q}]
        /\ ready' = Append(ready, entry)
        /\ UNCHANGED <<emitted, finished, events, subscribers, stage, event, running, offered>>
    BY DEF Schedule
  <1>2. Elements(events)' = Elements(events)
    BY <1>1 DEF Elements
  <1>3. event[t] \in DOMAIN emitted /\ event[t] \in Nat /\ q \in subscribers
    BY <1>0, <1>1 DEF ThreadTypes, ThreadsInv, OwnEvent, Cleared
  <1>4. entry \in Entries
    BY <1>3
  <1>5. ready \in Seq(Entries)
    BY <1>0 DEF ThreadTypes
  <1> HIDE DEF entry
  <1>6. /\ ready' \in Seq(Entries)
        /\ \A i \in DOMAIN ready' : (i \in DOMAIN ready /\ ready'[i] = ready[i]) \/ ready'[i] = entry
    <2> HIDE DEF Entries
    <2> QED
      BY <1>1, <1>4, <1>5, AppendProperties, LenProperties
  <1>7. ThreadTypes'
    <2>1. targets' \in [Threads -> SUBSET Subscribers]
      BY <1>0, <1>1 DEF ThreadTypes
    <2>2. \A s \in Subscribers : Elements(offered[s])' \subseteq DOMAIN emitted'
      BY <1>0, <1>1 DEF ThreadTypes, Elements
    <2>3. \A i \in DOMAIN ready' : ready'[i].event \in DOMAIN emitted'
      BY <1>0, <1>1, <1>3, <1>6, SMTT(30) DEF ThreadTypes, entry
    <2> QED
      BY <1>0, <1>1, <1>2, <1>6, <2>1, <2>2, <2>3 DEF ThreadTypes
  <1>8. Once' /\ OneAtATime'
    BY <1>0, <1>1 DEF Once, OneAtATime, ThreadTypes
  <1>9. ASSUME NEW u \in Threads PROVE OwnEvent(u)'
    BY <1>1, <1>2 DEF ThreadsInv, OwnEvent
  <1>10. ASSUME NEW s \in Subscribers PROVE Cleared(s)'
    <2>1. ASSUME s \notin subscribers
          PROVE  /\ \A u \in Threads : s \notin targets'[u]
                 /\ \A i \in DOMAIN ready' : ready'[i].to # {s}
      <3>1. s # q /\ Cleared(s)
        BY <1>3, <2>1 DEF ThreadsInv
      <3>2. entry.to # {s}
        BY <3>1 DEF entry
      <3> QED
        BY <1>0, <1>1, <1>6, <2>1, <3>1, <3>2 DEF Cleared, ThreadTypes
    <2> QED
      BY <1>1, <2>1 DEF ThreadsInv, Cleared
  <1>11. ASSUME NEW s \in subscribers, NEW e \in DOMAIN emitted PROVE Bounded(s, e)'
    <2>0. s \in Subscribers /\ Bounded(s, e)
      BY <1>0 DEF ThreadTypes, ThreadsInv
    <2>1. Scheduled(s, e)' = Scheduled(s, e) + (IF [to |-> {s}, event |-> e] = entry THEN 1 ELSE 0)
      <3> DEFINE x == [to |-> {s}, event |-> e]
      <3>1. Count(Append(ready, entry), x) = Count(ready, x) + (IF x = entry THEN 1 ELSE 0)
        <4> HIDE DEF x, Entries
        <4> QED
          BY <1>4, <1>5, CountAppend
      <3>2. Scheduled(s, e) = Count(ready, x)
        BY DEF Scheduled
      <3>3. Scheduled(s, e)' = Count(Append(ready, entry), x)
        <4>1. Scheduled(s, e)' = Count(ready', x)
          BY DEF Scheduled, Count
        <4> HIDE DEF x
        <4> QED
          BY <1>1, <4>1
      <3> HIDE DEF x
      <3>4. Scheduled(s, e)' = Scheduled(s, e) + (IF x = entry THEN 1 ELSE 0)
        BY <3>1, <3>2, <3>3
      <3> QED
        BY <3>4 DEF x
    <2>2. CASE s = q /\ e = event[t]
      <3>1. [to |-> {s}, event |-> e] = entry
        BY <2>2 DEF entry
      <3>2. ToCome(s, e)
        BY <1>1, <2>2 DEF ToCome, Unscheduled
      <3>3. ~ToCome(s, e)'
        <4>1. ASSUME NEW u \in Threads, Unscheduled(s, e, u)' PROVE FALSE
          <5>1. u # t
            BY <1>0, <1>1, <2>2, <4>1 DEF Unscheduled, ThreadTypes
          <5>2. stage[u] # "idle" /\ event[u] = event[t]
            BY <1>1, <2>2, <4>1 DEF Unscheduled
          <5> QED
            BY <1>1, <5>1, <5>2, OneEmitter
        <4> QED
          BY <4>1 DEF ToCome
      <3>4. Due(s, e) = 1 /\ Due(s, e)' = 0
        BY <3>2, <3>3 DEF Due
      <3>5. PICK a \in Nat, b \in Nat : a = Count(offered[s], e) /\ b = Scheduled(s, e)
        BY <2>0, CountsAre
      <3>6. Copies(s, e) = a + b
        BY <2>0, <3>5, CountsAre
      <3>7. Count(offered[s], e)' = a /\ Scheduled(s, e)' = b + 1
        BY <1>1, <2>1, <3>1, <3>5 DEF Count
      <3>8. Copies(s, e)' = a + (b + 1)
        BY <3>7 DEF Copies, Scheduled
      <3> QED
        BY <1>1, <1>2, <2>0, <3>4, <3>5, <3>6, <3>7, <3>8 DEF Bounded
    <2>3. CASE ~(s = q /\ e = event[t])
      <3>1. [to |-> {s}, event |-> e] # entry
        BY <2>3 DEF entry
      <3>2. Scheduled(s, e)' = Scheduled(s, e)
        BY <2>0, <2>1, <3>1, CountsAre
      <3>3. ASSUME NEW u \in Threads PROVE Unscheduled(s, e, u)' <=> Unscheduled(s, e, u)
        BY <1>0, <1>1, <2>3 DEF Unscheduled, ThreadTypes
      <3>4. ToCome(s, e)' <=> ToCome(s, e)
        BY <3>3 DEF ToCome
      <3> QED
        BY <1>1, <1>2, <2>0, <3>2, <3>4, StaysBounded DEF Same
    <2> QED
      BY <2>2, <2>3
  <1> QED
    BY <1>1, <1>7, <1>8, <1>9, <1>10, <1>11 DEF ThreadsInv

LEMMA ReturnKeeps ==
  ASSUME ConstantsOK, ThreadsInv, NEW t \in Threads, EmitReturns(t)
  PROVE  ThreadsInv'
  <1>0. ThreadTypes /\ Once /\ OneAtATime /\ Loop \in Threads /\ OwnEvent(t)
    BY DEF ThreadsInv, Threads
  <1>1. /\ stage[t] = "schedule" /\ targets[t] = {} /\ stage' = [stage EXCEPT ![t] = "idle"]
        /\ finished' = finished \cup {event[t]}
        /\ running' = IF t = Loop THEN {} ELSE running
        /\ UNCHANGED <<emitted, events, subscribers, event, targets, ready, offered>>
    BY DEF EmitReturns, Goes, Nobody
  <1>2. Elements(events)' = Elements(events)
    BY <1>1 DEF Elements
  <1>3. event[t] \in DOMAIN emitted
    BY <1>0, <1>1 DEF OwnEvent
  <1>4. ThreadTypes'
    <2>1. stage' \in [Threads -> {"idle", "append", "copy", "schedule"}] /\ finished' \subseteq DOMAIN emitted'
      BY <1>0, <1>1, <1>3 DEF ThreadTypes
    <2>2. \A s \in Subscribers : Elements(offered[s])' \subseteq DOMAIN emitted'
      BY <1>0, <1>1 DEF ThreadTypes, Elements
    <2> QED
      BY <1>0, <1>1, <1>2, <2>1, <2>2 DEF ThreadTypes
  <1>5. Once' /\ OneAtATime'
    <2>1. Once'
      BY <1>0, <1>1 DEF Once
    <2>2. stage'[Loop] # "idle" => t # Loop /\ stage[Loop] # "idle"
      BY <1>0, <1>1 DEF ThreadTypes
    <2>3. stage'[Loop] # "idle" => running' = {Loop}
      BY <1>0, <1>1, <2>2 DEF OneAtATime
    <2>4. ASSUME NEW s \in Subscribers, running' = {s} PROVE s \in subscribers' /\ offered'[s] = <<>>
      <3>1. running' # {} /\ running = {s}
        BY <1>1, <2>4
      <3> QED
        BY <1>0, <1>1, <3>1 DEF OneAtATime
    <2> QED
      BY <2>1, <2>3, <2>4 DEF OneAtATime
  <1>6. ASSUME NEW u \in Threads PROVE OwnEvent(u)'
    <2>1. CASE u = t
      BY <1>0, <1>1, <2>1 DEF OwnEvent, ThreadTypes
    <2>2. CASE u # t
      <3>1. stage'[u] = stage[u] /\ event'[u] = event[u] /\ OwnEvent(u)
        BY <1>0, <1>1, <2>2 DEF ThreadTypes, ThreadsInv
      <3>2. stage[u] # "idle" => event[u] # event[t]
        BY <1>1, <2>2, OneEmitter
      <3> QED
        BY <1>1, <1>2, <3>1, <3>2 DEF OwnEvent
    <2> QED
      BY <2>1, <2>2
  <1>7. ASSUME NEW s \in Subscribers PROVE Cleared(s)'
    BY <1>1 DEF ThreadsInv, Cleared
  <1>8. ASSUME NEW s \in subscribers, NEW e \in DOMAIN emitted PROVE Bounded(s, e)'
    <2>0. s \in Subscribers /\ s # Loop /\ Bounded(s, e)
      BY <1>0 DEF ThreadTypes, ThreadsInv, ConstantsOK
    <2>1. ASSUME NEW u \in Threads PROVE Unscheduled(s, e, u)' <=> Unscheduled(s, e, u)
      BY <1>0, <1>1 DEF Unscheduled, ThreadTypes
    <2>2. ToCome(s, e)' <=> ToCome(s, e)
      BY <2>1 DEF ToCome
    <2>3. Scheduled(s, e)' = Scheduled(s, e)
      BY <1>1 DEF Scheduled, Count
    <2>4. running' = {s} <=> running = {s}
      BY <1>0, <1>1, <2>0 DEF OneAtATime
    <2> QED
      BY <1>1, <1>2, <2>0, <2>2, <2>3, <2>4, StaysBounded DEF Same
  <1> QED
    BY <1>1, <1>4, <1>5, <1>6, <1>7, <1>8 DEF ThreadsInv

LEMMA AttachKeeps ==
  ASSUME ConstantsOK, ThreadsInv, NEW q \in Subscribers, Attach(q)
  PROVE  ThreadsInv'
  <1>0. ThreadTypes /\ Once /\ OneAtATime /\ Loop \in Threads /\ q # Loop
    BY DEF ThreadsInv, Threads, ConstantsOK
  <1>1. /\ running = {} /\ q \notin subscribers
        /\ subscribers' = subscribers \cup {q} /\ running' = {q}
        /\ UNCHANGED <<emitted, finished, events, stage, event, targets, ready, offered>>
    BY DEF Attach, LoopFree, Nobody
  <1>2. Elements(events)' = Elements(events)
    BY <1>1 DEF Elements
  <1>3. stage[Loop] = "idle"
    BY <1>0, <1>1 DEF OneAtATime
  <1>4. offered[q] = <<>> /\ (\A t \in Threads : q \notin targets[t])
        /\ (\A i \in DOMAIN ready : ready[i].to # {q})
    BY <1>1 DEF ThreadsInv, Cleared
  <1>5. ThreadTypes'
    <2>1. \A s \in Subscribers : Elements(offered[s])' \subseteq DOMAIN emitted'
      BY <1>0, <1>1 DEF ThreadTypes, Elements
    <2> QED
      BY <1>0, <1>1, <1>2, <2>1 DEF ThreadTypes
  <1>6. Once' /\ OneAtATime'
    <2>1. \A s : {q} = {s} => s = q
      OBVIOUS
    <2> QED
      BY <1>0, <1>1, <1>3, <1>4, <2>1 DEF Once, OneAtATime
  <1>7. ASSUME NEW u \in Threads PROVE OwnEvent(u)'
    BY <1>1, <1>2 DEF ThreadsInv, OwnEvent
  <1>8. ASSUME NEW s \in Subscribers PROVE Cleared(s)'
    BY <1>1 DEF ThreadsInv, Cleared
  <1>9. ASSUME NEW s \in subscribers', NEW e \in DOMAIN emitted PROVE Bounded(s, e)'
    <2>0. s \in Subscribers
      BY <1>0, <1>1 DEF ThreadTypes
    <2>1. ASSUME NEW u \in Threads PROVE Unscheduled(s, e, u)' <=> Unscheduled(s, e, u)
      BY <1>1 DEF Unscheduled
    <2>2. ToCome(s, e)' <=> ToCome(s, e)
      BY <2>1 DEF ToCome
    <2>3. Scheduled(s, e)' = Scheduled(s, e)
      BY <1>1 DEF Scheduled, Count
    <2>4. CASE s # q
      <3>1. s \in subscribers /\ running' # {s} /\ running # {s}
        BY <1>1, <2>4
      <3> QED
        BY <1>1, <1>2, <2>2, <2>3, <3>1, StaysBounded DEF Same, ThreadsInv
    <2>5. CASE s = q
      <3>1. Scheduled(s, e) = 0
        <4>1. \A i \in DOMAIN ready : ready[i] # [to |-> {s}, event |-> e]
          BY <1>4, <2>5
        <4> QED
          BY <4>1, CountNone DEF Scheduled
      <3>2. emitted[e] = Loop => ~ToCome(s, e)
        <4>1. ASSUME emitted[e] = Loop, NEW u \in Threads, Unscheduled(s, e, u) PROVE FALSE
          <5>1. stage[u] # "idle" /\ event[u] = e
            BY <4>1 DEF Unscheduled
          <5>2. emitted[e] = u
            BY <5>1 DEF ThreadsInv, OwnEvent
          <5> QED
            BY <1>3, <4>1, <5>1, <5>2
        <4> QED
          BY <4>1 DEF ToCome
      <3>3. Due(s, e)' \in {0, 1} /\ (emitted[e] = Loop => Due(s, e)' = 0)
        BY <2>2, <3>2 DEF Due
      <3>4. Scheduled(s, e)' = 0 /\ running' = {s} /\ emitted' = emitted
        BY <1>1, <2>3, <2>5, <3>1
      <3> QED
        BY <3>3, <3>4 DEF Bounded
    <2> QED
      BY <2>4, <2>5
  <1> QED
    BY <1>1, <1>5, <1>6, <1>7, <1>8, <1>9 DEF ThreadsInv

LEMMA ReplayKeeps ==
  ASSUME ConstantsOK, ThreadsInv, NEW q \in Subscribers, Replay(q)
  PROVE  ThreadsInv'
  <1>0. ThreadTypes /\ Once /\ OneAtATime /\ Loop \in Threads /\ q # Loop
    BY DEF ThreadsInv, Threads, ConstantsOK
  <1>1. /\ running = {q} /\ running' = {}
        /\ offered' = [offered EXCEPT ![q] = events]
        /\ UNCHANGED <<emitted, finished, events, subscribers, stage, event, targets, ready>>
    BY DEF Replay, Nobody
  <1>2. Elements(events)' = Elements(events)
    BY <1>1 DEF Elements
  <1>3. stage[Loop] = "idle" /\ q \in subscribers
    BY <1>0, <1>1 DEF OneAtATime
  <1>4. offered'[q] = events /\ \A s \in Subscribers : s # q => offered'[s] = offered[s]
    BY <1>0, <1>1 DEF ThreadTypes
  <1>5. ThreadTypes'
    <2>1. offered' \in [Subscribers -> Seq(Nat)]
      BY <1>0, <1>1 DEF ThreadTypes
    <2>2. ASSUME NEW s \in Subscribers PROVE Elements(offered[s])' \subseteq DOMAIN emitted'
      <3>1. CASE s = q
        BY <1>0, <1>1, <1>4, <3>1 DEF ThreadTypes, Elements
      <3>2. CASE s # q
        BY <1>0, <1>1, <1>4, <3>2 DEF ThreadTypes, Elements
      <3> QED
        BY <3>1, <3>2
    <2> QED
      BY <1>0, <1>1, <1>2, <2>1, <2>2 DEF ThreadTypes
  <1>6. Once' /\ OneAtATime'
    BY <1>0, <1>1, <1>3 DEF Once, OneAtATime
  <1>7. ASSUME NEW u \in Threads PROVE OwnEvent(u)'
    BY <1>1, <1>2 DEF ThreadsInv, OwnEvent
  <1>8. ASSUME NEW s \in Subscribers PROVE Cleared(s)'
    BY <1>1, <1>3, <1>4 DEF ThreadsInv, Cleared
  <1>9. ASSUME NEW s \in subscribers, NEW e \in DOMAIN emitted PROVE Bounded(s, e)'
    <2>0. s \in Subscribers /\ Bounded(s, e)
      BY <1>0 DEF ThreadTypes, ThreadsInv
    <2>1. ASSUME NEW u \in Threads PROVE Unscheduled(s, e, u)' <=> Unscheduled(s, e, u)
      BY <1>1 DEF Unscheduled
    <2>2. ToCome(s, e)' <=> ToCome(s, e)
      BY <2>1 DEF ToCome
    <2>3. Scheduled(s, e)' = Scheduled(s, e)
      BY <1>1 DEF Scheduled, Count
    <2>4. CASE s # q
      <3>1. running' # {s} /\ running # {s}
        BY <1>1, <2>4
      <3> QED
        BY <1>1, <1>2, <1>4, <2>0, <2>2, <2>3, <2>4, <3>1, StaysBounded DEF Same
    <2>5. CASE s = q
      <3>1. events \in Seq(Nat) /\ \A i, j \in DOMAIN events : events[i] = events[j] => i = j
        BY <1>0 DEF ThreadTypes, Once
      <3>2. Count(events, e) = IF e \in Elements(events) THEN 1 ELSE 0
        BY <3>1, CountOnce DEF Elements
      <3>3. Count(offered[s], e)' = Count(events, e)
        BY <1>4, <2>5 DEF Count
      <3>4. PICK b \in Nat, d \in Nat : b = Scheduled(s, e) /\ d = Due(s, e)
        BY <2>0, CountsAre
      <3>5. Due(s, e)' = d /\ Scheduled(s, e)' = b
        BY <2>2, <2>3, <3>4 DEF Due
      <3>6. Copies(s, e)' = (IF e \in Elements(events) THEN 1 ELSE 0) + b
        BY <3>2, <3>3, <3>5 DEF Copies, Scheduled
      <3>7. b + d <= IF emitted[e] = Loop THEN 0 ELSE 1
        BY <1>1, <2>0, <2>5, <3>4 DEF Bounded
      <3>8. running' # {s}
        BY <1>1
      <3> QED
        BY <1>1, <1>2, <3>5, <3>6, <3>7, <3>8 DEF Bounded
    <2> QED
      BY <2>4, <2>5
  <1> QED
    BY <1>1, <1>5, <1>6, <1>7, <1>8, <1>9 DEF ThreadsInv

LEMMA RunKeeps ==
  ASSUME ConstantsOK, ThreadsInv, RunOffer
  PROVE  ThreadsInv'
  <1>0. ThreadTypes /\ Once /\ OneAtATime /\ Loop \in Threads
    BY DEF ThreadsInv, Threads
  <1> PICK n \in Nat : n = Len(ready)
    BY <1>0, LenProperties DEF ThreadTypes
  <1> DEFINE Entries == [to : SUBSET Subscribers, event : Nat]
  <1>1. /\ running = {} /\ ready # <<>> /\ ready' = Tail(ready)
        /\ offered' = [s \in Subscribers |->
                         IF Head(ready).to = {s} THEN Append(offered[s], Head(ready).event)
                         ELSE offered[s]]
        /\ UNCHANGED <<emitted, finished, events, subscribers, stage, event, targets, running>>
    BY DEF RunOffer, LoopFree, Nobody
  <1>2. Elements(events)' = Elements(events)
    BY <1>1 DEF Elements
  <1>3. ready \in Seq(Entries)
    BY <1>0 DEF ThreadTypes
  <1>4. PICK r : r = Head(ready)
    OBVIOUS
  <1>5. /\ n # 0 /\ r = ready[1] /\ r \in Entries /\ r.event \in DOMAIN emitted
        /\ ready' \in Seq(Entries)
        /\ \A i \in DOMAIN ready' : i + 1 \in DOMAIN ready /\ ready'[i] = ready[i + 1]
    <2> HIDE DEF Entries
    <2>1. n # 0 /\ DOMAIN ready = 1 .. n
      BY <1>1, <1>3, LenProperties, EmptySeq
    <2>2. /\ Head(ready) = ready[1] /\ Head(ready) \in Entries /\ Tail(ready) \in Seq(Entries)
          /\ DOMAIN Tail(ready) = 1 .. n - 1
          /\ \A i \in 1 .. n - 1 : Tail(ready)[i] = ready[i + 1]
      BY <1>1, <1>3, HeadTailProperties, LenProperties
    <2>3. ready[1].event \in DOMAIN emitted
      <3>1. 1 \in DOMAIN ready
        BY <2>1
      <3> QED
        BY <1>0, <3>1 DEF ThreadTypes
    <2>4. \A i \in 1 .. n - 1 : i + 1 \in 1 .. n
      OBVIOUS
    <2> QED
      BY <1>1, <1>4, <2>1, <2>2, <2>3, <2>4
  <1>6. ASSUME NEW s \in Subscribers
        PROVE  /\ r.to = {s} => offered'[s] = Append(offered[s], r.event)
               /\ r.to # {s} => offered'[s] = offered[s]
               /\ offered[s] \in Seq(Nat) /\ r.event \in Nat
    BY <1>0, <1>1, <1>4, <1>5 DEF ThreadTypes
  <1>7. ThreadTypes'
    <2>1. offered' \in [Subscribers -> Seq(Nat)]
      <3>1. \A s \in Subscribers : offered'[s] \in Seq(Nat)
        <4>1. ASSUME NEW s \in Subscribers PROVE offered'[s] \in Seq(Nat)
          <5>1. r.to = {s} => offered'[s] \in Seq(Nat)
            <6> PICK k \in Nat, f \in Seq(Nat) : k = r.event /\ f = offered[s]
              BY <1>6
            <6>1. Append(f, k) \in Seq(Nat)
              BY AppendProperties
            <6>2. r.to = {s} => offered'[s] = Append(f, k)
              BY <1>6
            <6> QED
              BY <6>1, <6>2
          <5>2. r.to # {s} => offered'[s] \in Seq(Nat)
            BY <1>6
          <5> QED
            BY <5>1, <5>2
        <4> QED
          BY <4>1
      <3>2. offered' = [s \in Subscribers |-> offered'[s]]
        BY <1>1
      <3> QED
        BY <3>1, <3>2
    <2>2. ASSUME NEW s \in Subscribers PROVE Elements(offered[s])' \subseteq DOMAIN emitted'
      <3>1. CASE r.to = {s}
        <4>1. /\ offered'[s] = Append(offered[s], r.event) /\ offered[s] \in Seq(Nat)
              /\ r.event \in Nat
          BY <1>6, <3>1
        <4>2. \A i \in DOMAIN offered'[s] :
                (i \in DOMAIN offered[s] /\ offered'[s][i] = offered[s][i]) \/ offered'[s][i] = r.event
          BY <4>1, AppendProperties, LenProperties
        <4>3. \A i \in DOMAIN offered[s] : offered[s][i] \in DOMAIN emitted
          BY <1>0 DEF ThreadTypes, Elements
        <4> QED
          <5>1. ASSUME NEW i \in DOMAIN offered'[s] PROVE offered'[s][i] \in DOMAIN emitted
            BY <1>5, <4>2, <4>3
          <5>2. Elements(offered[s])' = {offered'[s][i] : i \in DOMAIN offered'[s]}
            BY DEF Elements
          <5>3. DOMAIN emitted' = DOMAIN emitted
            BY <1>1
          <5> QED
            BY ONLY <5>1, <5>2, <5>3
      <3>2. CASE r.to # {s}
        <4>1. Elements(offered[s])' = {offered'[s][i] : i \in DOMAIN offered'[s]}
          BY DEF Elements
        <4>2. offered'[s] = offered[s] /\ DOMAIN emitted' = DOMAIN emitted
          BY <1>1, <1>6, <3>2
        <4>3. \A i \in DOMAIN offered[s] : offered[s][i] \in DOMAIN emitted
          BY <1>0 DEF ThreadTypes, Elements
        <4> QED
          BY ONLY <4>1, <4>2, <4>3
      <3> QED
        BY <3>1, <3>2
    <2>3. \A i \in DOMAIN ready' : ready'[i].event \in DOMAIN emitted'
      BY <1>0, <1>1, <1>5 DEF ThreadTypes
    <2> QED
      BY <1>0, <1>1, <1>2, <1>5, <2>1, <2>2, <2>3 DEF ThreadTypes
  <1>8. Once' /\ OneAtATime'
    <2>1. \A s \in Subscribers : running # {s}
      BY <1>1
    <2> QED
      BY <1>0, <1>1, <2>1 DEF Once, OneAtATime
  <1>9. ASSUME NEW u \in Threads PROVE OwnEvent(u)'
    BY <1>1, <1>2 DEF ThreadsInv, OwnEvent
  <1>10. ASSUME NEW s \in Subscribers PROVE Cleared(s)'
    <2>1. ASSUME s \notin subscribers
          PROVE  offered'[s] = <<>> /\ \A i \in DOMAIN ready' : ready'[i].to # {s}
      <3>1. offered[s] = <<>> /\ \A i \in DOMAIN ready : ready[i].to # {s}
        BY <2>1 DEF ThreadsInv, Cleared
      <3>2. 1 \in DOMAIN ready
        BY <1>3, <1>5, LenProperties
      <3> QED
        BY <1>5, <1>6, <3>1, <3>2, ZenonT(60)
    <2> QED
      BY <1>1, <2>1 DEF ThreadsInv, Cleared
  <1>11. ASSUME NEW s \in subscribers, NEW e \in DOMAIN emitted PROVE Bounded(s, e)'
    <2>0. s \in Subscribers /\ Bounded(s, e)
      BY <1>0 DEF ThreadTypes, ThreadsInv
    <2> DEFINE x == [to |-> {s}, event |-> e]
    <2>1. ToCome(s, e)' <=> ToCome(s, e)
      <3>1. ASSUME NEW u \in Threads PROVE Unscheduled(s, e, u)' <=> Unscheduled(s, e, u)
        BY <1>1 DEF Unscheduled
      <3> QED
        BY <3>1 DEF ToCome
    <2>2. x = r <=> (r.to = {s} /\ r.event = e)
      <3>1. r = [to |-> r.to, event |-> r.event]
        BY <1>5
      <3> QED
        BY <3>1
    <2>3. Scheduled(s, e) = Scheduled(s, e)' + (IF x = r THEN 1 ELSE 0)
      <3>1. Scheduled(s, e) = Count(ready, x) /\ Scheduled(s, e)' = Count(ready', x)
        BY DEF Scheduled, Count
      <3> HIDE DEF x, Entries
      <3>2. Count(ready, x) = Count(Tail(ready), x) + (IF x = r THEN 1 ELSE 0)
        BY <1>1, <1>3, <1>4, CountTail
      <3> QED
        BY <1>1, <3>1, <3>2
    <2>4. Count(offered[s], e)' = Count(offered[s], e) + (IF x = r THEN 1 ELSE 0)
      <3>1. Count(offered[s], e)' = Count(offered'[s], e)
        BY DEF Count
      <3>2. CASE r.to = {s}
        <4>1. Count(Append(offered[s], r.event), e) = Count(offered[s], e) + (IF e = r.event THEN 1 ELSE 0)
          <5> PICK k \in Nat, f \in Seq(Nat) : k = r.event /\ f = offered[s]
            BY <1>6, <2>0
          <5> QED
            BY CountAppend
        <4>2. offered'[s] = Append(offered[s], r.event)
          BY <1>6, <3>2, <2>0
        <4>3. x = r <=> e = r.event
          BY <2>2, <3>2
        <4> HIDE DEF x
        <4> QED
          BY <3>1, <4>1, <4>2, <4>3
      <3>3. CASE r.to # {s}
        <4>1. offered'[s] = offered[s] /\ x # r
          BY <1>6, <2>0, <2>2, <3>3
        <4>2. Count(offered[s], e) \in Nat
          BY <2>0, CountsAre
        <4> HIDE DEF x
        <4> QED
          BY <3>1, <4>1, <4>2
      <3> QED
        BY <3>2, <3>3
    <2>5. PICK a \in Nat, b \in Nat, d \in {0, 1} :
            a = Count(offered[s], e) /\ b = Scheduled(s, e) /\ d = Due(s, e)
      BY <2>0, CountsAre
    <2>6. PICK c \in Nat : c = Scheduled(s, e)'
      <3>1. Count(ready', x) \in Nat
        <4> HIDE DEF x, Entries
        <4> QED
          BY <1>5, PlacesFinite
      <3>2. Scheduled(s, e)' = Count(ready', x)
        BY DEF Scheduled, Count
      <3> QED
        BY <3>1, <3>2
    <2>7. Copies(s, e) = a + b
      BY <2>0, <2>5, CountsAre
    <2>8. PICK k \in {0, 1} : k = IF x = r THEN 1 ELSE 0
      OBVIOUS
    <2>9. b = c + k /\ Copies(s, e)' = (a + k) + c
      <3>1. Copies(s, e)' = Count(offered[s], e)' + Scheduled(s, e)'
        BY DEF Copies, Scheduled
      <3> HIDE DEF x
      <3> QED
        BY <2>3, <2>4, <2>5, <2>6, <2>8, <3>1
    <2>10. Copies(s, e)' = Copies(s, e)
      BY <2>7, <2>9
    <2>11. Due(s, e)' = Due(s, e)
      BY <2>1 DEF Due
    <2>12. running # {s} /\ running' # {s}
      BY <1>1
    <2> QED
      BY <1>1, <1>2, <2>0, <2>10, <2>11, <2>12 DEF Bounded
  <1> QED
    BY <1>1, <1>7, <1>8, <1>9, <1>10, <1>11 DEF ThreadsInv

LEMMA UnsubscribeKeeps ==
  ASSUME ConstantsOK, ThreadsInv, NEW q \in Subscribers, Unsubscribe(q)
  PROVE  ThreadsInv'
  <1>0. ThreadTypes /\ Once /\ OneAtATime /\ Loop \in Threads
    BY DEF ThreadsInv, Threads
  <1> DEFINE Entries == [to : SUBSET Subscribers, event : Nat]
  <1>1. /\ running = {} /\ subscribers' = subscribers \ {q}
        /\ offered' = [offered EXCEPT ![q] = <<>>]
        /\ ready' = [i \in DOMAIN ready |->
                       IF ready[i].to = {q} THEN [ready[i] EXCEPT !.to = {}] ELSE ready[i]]
        /\ targets' = [t \in Threads |-> targets[t] \ {q}]
        /\ UNCHANGED <<emitted, finished, events, stage, event, running>>
    BY DEF Unsubscribe, LoopFree, Nobody
  <1>2. Elements(events)' = Elements(events)
    BY <1>1 DEF Elements
  <1>3. offered'[q] = <<>> /\ \A s \in Subscribers : s # q => offered'[s] = offered[s]
    BY <1>0, <1>1 DEF ThreadTypes
  <1> PICK n \in Nat : n = Len(ready)
    BY <1>0, LenProperties DEF ThreadTypes
  <1>4. DOMAIN ready = 1 .. n /\ DOMAIN ready' = 1 .. n /\ \A i \in 1 .. n : ready[i] \in Entries
    BY <1>0, <1>1, LenProperties, ElementOfSeq DEF ThreadTypes
  <1>5. ASSUME NEW i \in 1 .. n
        PROVE  /\ ready'[i] \in Entries /\ ready'[i].event = ready[i].event
               /\ ready'[i].to # {q} /\ (ready[i].to # {q} => ready'[i] = ready[i])
               /\ \A s : ready'[i].to = {s} => ready'[i] = ready[i]
    <2>1. ready[i] \in Entries
      BY <1>4
    <2>2. CASE ready[i].to = {q}
      <3>1. ready'[i] = [ready[i] EXCEPT !.to = {}]
        BY <1>1, <1>4, <2>2
      <3>2. ready'[i].to = {} /\ ready'[i].event = ready[i].event /\ ready'[i] \in Entries
        BY <2>1, <3>1
      <3>3. \A s : {} # {s}
        OBVIOUS
      <3> QED
        BY <2>2, <3>2, <3>3
    <2>3. CASE ready[i].to # {q}
      <3>1. ready'[i] = ready[i]
        BY <1>1, <1>4, <2>3
      <3> QED
        BY <2>1, <2>3, <3>1
    <2> QED
      BY <2>2, <2>3
  <1>6. ready' \in Seq(Entries)
    <2> HIDE DEF Entries
    <2>1. ready' = [i \in 1 .. n |-> ready'[i]]
      BY <1>1, <1>4
    <2>2. \A i \in 1 .. n : ready'[i] \in Entries
      BY <1>5
    <2> QED
      BY <2>1, <2>2, SeqDef
  <1>7. ThreadTypes'
    <2>1. /\ offered' \in [Subscribers -> Seq(Nat)] /\ targets' \in [Threads -> SUBSET Subscribers]
          /\ subscribers' \subseteq Subscribers
      BY <1>0, <1>1, EmptySeq DEF ThreadTypes
    <2>2. ASSUME NEW s \in Subscribers PROVE Elements(offered[s])' \subseteq DOMAIN emitted'
      <3>1. CASE s = q
        <4>1. DOMAIN offered'[s] = {}
          BY <1>3, <3>1
        <4> QED
          BY <4>1 DEF Elements
      <3>2. CASE s # q
        BY <1>0, <1>1, <1>3, <3>2 DEF ThreadTypes, Elements
      <3> QED
        BY <3>1, <3>2
    <2>3. \A i \in DOMAIN ready' : ready'[i].event \in DOMAIN emitted'
      BY <1>0, <1>1, <1>4, <1>5 DEF ThreadTypes
    <2> QED
      BY <1>0, <1>1, <1>2, <1>6, <2>1, <2>2, <2>3 DEF ThreadTypes
  <1>8. Once' /\ OneAtATime'
    <2>1. \A s \in Subscribers : running # {s}
      BY <1>1
    <2> QED
      BY <1>0, <1>1, <2>1 DEF Once, OneAtATime
  <1>9. ASSUME NEW u \in Threads PROVE OwnEvent(u)'
    BY <1>1, <1>2 DEF ThreadsInv, OwnEvent
  <1>10. ASSUME NEW s \in Subscribers PROVE Cleared(s)'
    <2>1. CASE s = q
      BY <1>1, <1>3, <1>4, <1>5, <2>1 DEF Cleared
    <2>2. ASSUME s # q, s \notin subscribers
          PROVE  /\ offered'[s] = <<>> /\ \A t \in Threads : s \notin targets'[t]
                 /\ \A i \in DOMAIN ready' : ready'[i].to # {s}
      <3>1. Cleared(s)
        BY DEF ThreadsInv
      <3>2. \A i \in 1 .. n : ready'[i].to # {s}
        BY <1>4, <1>5, <2>2, <3>1 DEF Cleared
      <3> QED
        BY <1>1, <1>3, <1>4, <2>2, <3>1, <3>2 DEF Cleared
    <2> QED
      BY <1>1, <2>1, <2>2 DEF Cleared
  <1>11. ASSUME NEW s \in subscribers', NEW e \in DOMAIN emitted PROVE Bounded(s, e)'
    <2>0. s \in Subscribers /\ s \in subscribers /\ s # q /\ Bounded(s, e)
      BY <1>0, <1>1 DEF ThreadTypes, ThreadsInv
    <2>1. ASSUME NEW u \in Threads PROVE Unscheduled(s, e, u)' <=> Unscheduled(s, e, u)
      BY <1>1, <2>0 DEF Unscheduled
    <2>2. ToCome(s, e)' <=> ToCome(s, e)
      BY <2>1 DEF ToCome
    <2>3. Scheduled(s, e)' = Scheduled(s, e)
      <3> DEFINE x == [to |-> {s}, event |-> e]
      <3>1. Scheduled(s, e) = Count(ready, x) /\ Scheduled(s, e)' = Count(ready', x)
        BY DEF Scheduled, Count
      <3>2. ASSUME NEW i \in 1 .. n PROVE ready[i] = x <=> ready'[i] = x
        <4>1. x.to = {s} /\ {s} # {q}
          BY <2>0
        <4> HIDE DEF x
        <4> QED
          BY <1>5, <4>1
      <3> HIDE DEF x
      <3>3. Count(ready, x) = Count(ready', x)
        BY <1>4, <3>2, CountSame
      <3> QED
        BY <3>1, <3>3
    <2> QED
      BY <1>1, <1>2, <1>3, <2>0, <2>2, <2>3, StaysBounded DEF Same
  <1> QED
    BY <1>1, <1>7, <1>8, <1>9, <1>10, <1>11 DEF ThreadsInv

LEMMA ThreadsStart ==
  ASSUME ConstantsOK, Init
  PROVE  ThreadsInv
  <1>1. emitted = <<>> /\ DOMAIN emitted = {} /\ Elements(<<>>) = {}
    BY DEF Init, Elements
  <1>2. ThreadTypes
    BY <1>1, EmptySeq DEF Init, ThreadTypes, Elements
  <1>3. Once /\ OneAtATime
    <2>1. Once
      BY DEF Init, Once
    <2>2. \A s : {} # {s}
      OBVIOUS
    <2> QED
      BY <2>1, <2>2 DEF Init, OneAtATime, Nobody, Threads
  <1>4. (\A t \in Threads : OwnEvent(t)) /\ (\A s \in Subscribers : Cleared(s))
    BY DEF Init, OwnEvent, Cleared
  <1>5. subscribers = {}
    BY DEF Init
  <1> QED
    BY <1>2, <1>3, <1>4, <1>5 DEF ThreadsInv

LEMMA ThreadsStutter ==
  ASSUME ThreadsInv, UNCHANGED vars
  PROVE  ThreadsInv'
  <1>1. UNCHANGED <<emitted, finished, events, subscribers, stage, event, targets,
                    ready, running, offered>>
    BY DEF vars
  <1>2. ThreadTypes'
    BY <1>1 DEF ThreadsInv, ThreadTypes, Elements
  <1>3. Once' /\ OneAtATime'
    BY <1>1 DEF ThreadsInv, Once, OneAtATime
  <1>4. (\A t \in Threads : OwnEvent(t)') /\ (\A s \in Subscribers : Cleared(s)')
    BY <1>1 DEF ThreadsInv, OwnEvent, Cleared, Elements
  <1>5. ASSUME NEW s \in subscribers, NEW e \in DOMAIN emitted PROVE Bounded(s, e)'
    <2>1. Scheduled(s, e)' = Scheduled(s, e) /\ Elements(events)' = Elements(events)
      BY <1>1 DEF Scheduled, Count, Elements
    <2>2. ToCome(s, e)' <=> ToCome(s, e)
      BY <1>1 DEF ToCome, Unscheduled
    <2> QED
      BY <1>1, <2>1, <2>2, StaysBounded DEF Same, ThreadsInv
  <1> QED
    BY <1>1, <1>2, <1>3, <1>4, <1>5 DEF ThreadsInv

(* TraceThreads.tla, Spec: the invariant holds for every number of worker  *)
(* threads, of clients and of events, and for every buffer of one event or *)
(* more.                                                                   *)
THEOREM ThreadsInvariant == Spec => []ThreadsInv
  <1>1. Init => ThreadsInv
    BY ThreadsStart, ConstantsOK
  <1>2. ThreadsInv /\ [Next]_vars => ThreadsInv'
    <2> SUFFICES ASSUME ThreadsInv, [Next]_vars PROVE ThreadsInv'
      OBVIOUS
    <2> USE ConstantsOK
    <2>1. CASE \E t \in Threads : Emit(t)
      BY <2>1, EmitKeeps
    <2>2. CASE \E t \in Threads : AppendEvent(t)
      BY <2>2, AppendKeeps
    <2>3. CASE \E t \in Threads : CopySubscribers(t)
      BY <2>3, CopyKeeps
    <2>4. CASE \E t \in Threads : EmitReturns(t)
      BY <2>4, ReturnKeeps
    <2>5. CASE \E t \in Threads : \E s \in Subscribers : Schedule(t, s)
      BY <2>5, ScheduleKeeps
    <2>6. CASE \E s \in Subscribers : Attach(s)
      BY <2>6, AttachKeeps
    <2>7. CASE \E s \in Subscribers : Replay(s)
      BY <2>7, ReplayKeeps
    <2>8. CASE \E s \in Subscribers : Unsubscribe(s)
      BY <2>8, UnsubscribeKeeps
    <2>9. CASE RunOffer
      BY <2>9, RunKeeps
    <2>10. CASE UNCHANGED vars
      BY <2>10, ThreadsStutter
    <2> QED
      BY <2>1, <2>2, <2>3, <2>4, <2>5, <2>6, <2>7, <2>8, <2>9, <2>10 DEF Next
  <1> QED
    BY <1>1, <1>2, PTL DEF Spec

(* TraceThreads.tla, NoSilentLoss: a client that is subscribed has, or has *)
(* scheduled for it, every event of the buffer whose emit() returned, at   *)
(* most twice, and at most once when the loop thread emitted it.           *)
THEOREM NothingLostBetween == Spec => []NoSilentLoss
  <1>1. ThreadsInv => NoSilentLoss
    <2> SUFFICES ASSUME ThreadsInv, NEW s \in subscribers, running # {s}
                 PROVE  /\ \A i \in DOMAIN events : events[i] \in finished => Copies(s, events[i]) > 0
                        /\ \A e \in DOMAIN emitted :
                             Copies(s, e) <= IF emitted[e] = Loop THEN 1 ELSE 2
      BY DEF NoSilentLoss
    <2>1. ThreadTypes /\ s \in Subscribers
      BY DEF ThreadsInv, ThreadTypes
    <2>2. ASSUME NEW e \in DOMAIN emitted
          PROVE  /\ Copies(s, e) \in Nat /\ Due(s, e) \in {0, 1}
                 /\ Copies(s, e) + Due(s, e) <= IF emitted[e] = Loop THEN 1 ELSE 2
                 /\ e \in Elements(events) => Copies(s, e) + Due(s, e) >= 1
      <3>1. Bounded(s, e)
        BY DEF ThreadsInv
      <3> QED
        BY <2>1, <3>1, CountsAre DEF Bounded
    <2>3. ASSUME NEW i \in DOMAIN events, events[i] \in finished PROVE Copies(s, events[i]) > 0
      <3>1. events[i] \in DOMAIN emitted /\ events[i] \in Elements(events)
        BY <2>1, <2>3 DEF ThreadTypes, Elements
      <3>2. ~ToCome(s, events[i])
        BY <2>3 DEF ThreadsInv, OwnEvent, ToCome, Unscheduled
      <3>3. Due(s, events[i]) = 0
        BY <3>2 DEF Due
      <3> QED
        BY <2>2, <3>1, <3>3
    <2>4. ASSUME NEW e \in DOMAIN emitted
          PROVE  Copies(s, e) <= IF emitted[e] = Loop THEN 1 ELSE 2
      BY <2>2
    <2> QED
      BY <2>3, <2>4
  <1> QED
    BY <1>1, ThreadsInvariant, PTL
=============================================================================
