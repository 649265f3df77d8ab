------------------------- MODULE TraceEmitterProofs -------------------------
(***************************************************************************)
(* Theorems about TraceEmitter for any number of requests, sessions and    *)
(* events and any sizes of the buffer and the queues.                      *)
(***************************************************************************)
EXTENDS TraceEmitter, SequenceTheorems, FiniteSetTheorems, TLAPS

-----------------------------------------------------------------------------
(* What one deque or queue operation does to a sequence of event ids.      *)

\* Offering an event keeps the queue's elements, adds at most that event.
LEMMA OfferedElements ==
  ASSUME NEW S, NEW q \in Seq(S), NEW e \in S, Len(q) <= QueueSize
  PROVE  /\ Offered(q, e) \in Seq(S)
         /\ Len(Offered(q, e)) <= QueueSize
         /\ \A i \in DOMAIN Offered(q, e) :
              Offered(q, e)[i] = e \/ \E j \in DOMAIN q : Offered(q, e)[i] = q[j]
  <1>1. CASE Len(q) < QueueSize
    BY <1>1, AppendProperties, LenProperties, ConstantsOK DEF Offered
  <1>2. CASE ~(Len(q) < QueueSize)
    <2>1. q # <<>>
      BY <1>2, ConstantsOK
    <2>2. /\ Tail(q) \in Seq(S)
          /\ Len(Tail(q)) = Len(q) - 1
          /\ \A i \in 1 .. Len(Tail(q)) : Tail(q)[i] = q[i + 1]
      BY <2>1, HeadTailProperties
    <2>3. Offered(q, e) = Append(Tail(q), e)
      BY <1>2 DEF Offered
    <2> QED
      BY <2>2, <2>3, <1>2, AppendProperties, LenProperties, ConstantsOK
  <1> QED
    BY <1>1, <1>2

\* Appending an id above all others keeps a sequence increasing.
LEMMA AppendIncreasing ==
  ASSUME NEW q \in Seq(Nat), NEW e \in Nat,
         Increasing(q), \A i \in DOMAIN q : q[i] < e
  PROVE  Increasing(Append(q, e))
  BY AppendProperties, LenProperties, SMTT(30) DEF Increasing

LEMMA TailIncreasing ==
  ASSUME NEW q \in Seq(Nat), q # <<>>, Increasing(q)
  PROVE  /\ Tail(q) \in Seq(Nat)
         /\ Increasing(Tail(q))
         /\ \A i \in DOMAIN Tail(q) : Head(q) < Tail(q)[i] /\ i + 1 \in DOMAIN q /\ Tail(q)[i] = q[i + 1]
  <1>1. /\ Tail(q) \in Seq(Nat)
        /\ Len(Tail(q)) = Len(q) - 1
        /\ \A i \in 1 .. Len(Tail(q)) : Tail(q)[i] = q[i + 1]
    BY HeadTailProperties
  <1>2. DOMAIN q = 1 .. Len(q) /\ DOMAIN Tail(q) = 1 .. Len(Tail(q))
        /\ Len(q) \in Nat \ {0} /\ \A i \in DOMAIN q : q[i] \in Nat
    BY <1>1, LenProperties, EmptySeq
  <1>3. Head(q) = q[1]
    OBVIOUS
  <1>4. ASSUME NEW i \in DOMAIN Tail(q)
        PROVE  i + 1 \in DOMAIN q /\ 1 \in DOMAIN q /\ Tail(q)[i] = q[i + 1] /\ 1 < i + 1
    BY <1>1, <1>2
  <1>5. Increasing(Tail(q))
    BY <1>1, <1>2, <1>4 DEF Increasing
  <1>6. \A i \in DOMAIN Tail(q) : q[1] < q[i + 1]
    BY <1>2, <1>4 DEF Increasing
  <1> QED
    BY <1>1, <1>2, <1>3, <1>4, <1>5, <1>6

LEMMA OfferedIncreasing ==
  ASSUME NEW q \in Seq(Nat), NEW e \in Nat,
         Increasing(q), \A i \in DOMAIN q : q[i] < e
  PROVE  Increasing(Offered(q, e))
  <1>1. CASE Len(q) < QueueSize
    BY <1>1, AppendIncreasing DEF Offered
  <1>2. CASE ~(Len(q) < QueueSize)
    <2>1. q # <<>>
      BY <1>2, ConstantsOK
    <2>2. Tail(q) \in Seq(Nat) /\ Increasing(Tail(q)) /\ \A i \in DOMAIN Tail(q) : Tail(q)[i] < e
      BY <2>1, TailIncreasing
    <2> QED
      BY <1>2, <2>2, AppendIncreasing DEF Offered
  <1> QED
    BY <1>1, <1>2

\* The replay buffer grows by the newest event and stays in order.
LEMMA RememberedElements ==
  ASSUME NEW S, NEW b \in Seq(S), NEW e \in S, Len(b) <= MaxEvents
  PROVE  Remembered(b, e) \in Seq(S) /\ Len(Remembered(b, e)) <= MaxEvents
  <1>1. CASE Len(b) < MaxEvents
    BY <1>1, AppendProperties, LenProperties, ConstantsOK DEF Remembered
  <1>2. CASE ~(Len(b) < MaxEvents)
    <2>1. b # <<>>
      BY <1>2, ConstantsOK
    <2> QED
      BY <2>1, <1>2, HeadTailProperties, AppendProperties, LenProperties, ConstantsOK DEF Remembered
  <1> QED
    BY <1>1, <1>2

LEMMA RememberedIncreasing ==
  ASSUME NEW b \in Seq(Nat), NEW e \in Nat,
         Increasing(b), \A i \in DOMAIN b : b[i] < e
  PROVE  Increasing(Remembered(b, e))
  <1>1. CASE Len(b) < MaxEvents
    BY <1>1, AppendIncreasing DEF Remembered
  <1>2. CASE ~(Len(b) < MaxEvents)
    <2>1. b # <<>>
      BY <1>2, ConstantsOK
    <2>2. Tail(b) \in Seq(Nat) /\ Increasing(Tail(b)) /\ \A i \in DOMAIN Tail(b) : Tail(b)[i] < e
      BY <2>1, TailIncreasing
    <2> QED
      BY <1>2, <2>2, AppendIncreasing DEF Remembered
  <1> QED
    BY <1>1, <1>2

-----------------------------------------------------------------------------
(* Type correctness.                                                       *)

\* A step that leaves the log alone only has to keep its own variables typed.
LEMMA TypeStep ==
  ASSUME TypeOK, [Next]_vars
  PROVE  TypeOK'
  <1> USE DEF Filters
  <1>0. Len(log) \in Nat /\ DOMAIN log = 1 .. Len(log)
    BY LenProperties DEF TypeOK
  <1>1. ASSUME NEW about \in Filters, NEW ts \in Clock .. MaxClock, Emit(about, ts)
        PROVE  TypeOK'
    <2> DEFINE e == Len(log) + 1
               r == [ts |-> ts, session |-> about]
    <2>1. Clock \in Nat \ {0}
      <3>1. CASE log = <<>>
        BY <3>1 DEF Clock
      <3>2. CASE log # <<>>
        <4>1. Len(log) \in DOMAIN log
          BY <1>0, <3>2, EmptySeq DEF TypeOK
        <4>2. log[Len(log)] \in [ts : 1 .. MaxClock, session : Filters]
          BY <4>1, <1>0, ElementOfSeq DEF TypeOK
        <4> QED
          BY <3>2, <4>2 DEF Clock
      <3> QED
        BY <3>1, <3>2
    <2>2. r \in [ts : 1 .. MaxClock, session : Filters]
      BY <2>1, ConstantsOK
    <2>3. /\ log' \in Seq([ts : 1 .. MaxClock, session : Filters])
          /\ Len(log') = Len(log) + 1
          /\ DOMAIN log' = 1 .. Len(log) + 1
      <3>1. log' = Append(log, r)
        BY <1>1 DEF Emit
      <3> QED
        BY <3>1, <2>2, <1>0, AppendProperties, LenProperties DEF TypeOK
    <2>4. DOMAIN log \subseteq DOMAIN log' /\ e \in DOMAIN log'
      BY <2>3, <1>0
    <2>5. ASSUME NEW q \in Seq(DOMAIN log)
          PROVE  q \in Seq(DOMAIN log')
      BY <2>4, SeqMonotonic
    <2>6. events' \in Seq(DOMAIN log') /\ Len(events') <= MaxEvents
      <3>1. events' = Remembered(events, e)
        BY <1>1 DEF Emit
      <3> QED
        BY <3>1, <2>4, <2>5, RememberedElements DEF TypeOK
    <2>7. ASSUME NEW s \in Subscribers
          PROVE  pending'[s] \in Seq(DOMAIN log')
      <3>1. pending[s] \in Seq(DOMAIN log')
        BY <2>5 DEF TypeOK
      <3>2. pending'[s] \in {pending[s], Append(pending[s], e)}
        BY <1>1 DEF Emit
      <3>3. Append(pending[s], e) \in Seq(DOMAIN log')
        BY <3>1, <2>4, AppendProperties
      <3> QED
        BY <3>1, <3>2, <3>3
    <2>8. pending' \in [Subscribers -> Seq(DOMAIN log')]
      <3>1. pending' = [s \in Subscribers |-> pending'[s]]
        BY <1>1 DEF Emit
      <3> QED
        BY <2>7, <3>1
    <2>9. queue' \in [Subscribers -> Seq(DOMAIN log')] /\ \A s \in Subscribers : Len(queue'[s]) <= QueueSize
      BY <1>1, <2>5 DEF Emit, TypeOK
    <2>10. replay' \in [to : {{}} \cup {{s} : s \in Subscribers},
                        since : 0 .. MaxClock, rest : Seq(DOMAIN log')]
      BY <1>1, <2>5 DEF Emit, TypeOK
    <2>11. last' \in [Subscribers -> {0} \cup DOMAIN log']
      BY <1>1, <2>4 DEF Emit, TypeOK
    <2>12. Len(log') <= MaxEmits
      BY <1>1, <2>3, <1>0, ConstantsOK DEF Emit
    <2>13. UNCHANGED <<subscribers, wanted, handler>>
      BY <1>1 DEF Emit
    <2> QED
      BY <2>3, <2>6, <2>8, <2>9, <2>10, <2>11, <2>12, <2>13 DEF TypeOK
  <1>2. ASSUME NEW s \in Subscribers, NEW filter \in Filters, NEW resumes \in BOOLEAN,
               Subscribe(s, filter, resumes)
        PROVE  TypeOK'
    <2>1. Since(s, resumes) \in 0 .. MaxClock
      <3>1. CASE resumes /\ last[s] # 0
        <4>1. last[s] \in 1 .. Len(log)
          BY <3>1, <1>0 DEF TypeOK
        <4>2. log[last[s]] \in [ts : 1 .. MaxClock, session : Filters]
          BY <4>1, ElementOfSeq DEF TypeOK
        <4> QED
          BY <3>1, <4>2, ConstantsOK DEF Since
      <3>2. CASE ~(resumes /\ last[s] # 0)
        BY <3>2, ConstantsOK DEF Since
      <3> QED
        BY <3>1, <3>2
    <2>2. replay' \in [to : {{}} \cup {{r} : r \in Subscribers},
                       since : 0 .. MaxClock, rest : Seq(DOMAIN log')]
      BY <1>2, <2>1 DEF Subscribe, TypeOK
    <2>3. last' \in [Subscribers -> {0} \cup DOMAIN log']
      BY <1>2 DEF Subscribe, TypeOK
    <2> QED
      BY <1>2, <2>2, <2>3 DEF Subscribe, TypeOK
  <1>3. ASSUME NEW s \in Subscribers, Replay(s)
        PROVE  TypeOK'
    <2> DEFINE e == Head(replay.rest)
    <2>1. e \in DOMAIN log /\ Tail(replay.rest) \in Seq(DOMAIN log)
      BY <1>3, HeadTailProperties DEF Replay, TypeOK
    <2>2. Offered(queue[s], e) \in Seq(DOMAIN log) /\ Len(Offered(queue[s], e)) <= QueueSize
      BY <2>1, OfferedElements DEF TypeOK
    <2>3. queue' \in {queue, [queue EXCEPT ![s] = Offered(queue[s], e)]}
      BY <1>3 DEF Replay
    <2>4. replay' \in [to : {{}} \cup {{r} : r \in Subscribers},
                       since : 0 .. MaxClock, rest : Seq(DOMAIN log')]
      BY <1>3, <2>1 DEF Replay, TypeOK
    <2> QED
      BY <1>3, <2>2, <2>3, <2>4 DEF Replay, TypeOK
  <1>4. ASSUME NEW s \in Subscribers, Subscribed(s)
        PROVE  TypeOK'
    <2>1. Idle \in [to : {{}} \cup {{r} : r \in Subscribers},
                    since : 0 .. MaxClock, rest : Seq(DOMAIN log)]
      BY ConstantsOK, EmptySeq DEF Idle
    <2> QED
      BY <1>4, <2>1 DEF Subscribed, TypeOK
  <1>5. ASSUME NEW s \in Subscribers, RunOffer(s)
        PROVE  TypeOK'
    <2> DEFINE e == Head(pending[s])
    <2>1. e \in DOMAIN log /\ Tail(pending[s]) \in Seq(DOMAIN log)
      BY <1>5, HeadTailProperties DEF RunOffer, TypeOK
    <2>2. Offered(queue[s], e) \in Seq(DOMAIN log) /\ Len(Offered(queue[s], e)) <= QueueSize
      BY <2>1, OfferedElements DEF TypeOK
    <2> QED
      BY <1>5, <2>1, <2>2 DEF RunOffer, TypeOK
  <1>6. ASSUME NEW s \in Subscribers, Get(s)
        PROVE  TypeOK'
    <2>1. /\ Head(queue[s]) \in DOMAIN log
          /\ Tail(queue[s]) \in Seq(DOMAIN log)
          /\ Len(Tail(queue[s])) <= QueueSize
      BY <1>6, HeadTailProperties, LenProperties, ConstantsOK, SMTT(30) DEF Get, TypeOK
    <2> QED
      BY <1>6, <2>1 DEF Get, TypeOK
  <1>7. ASSUME NEW s \in Subscribers, Disconnect(s)
        PROVE  TypeOK'
    <2>1. <<>> \in Seq(DOMAIN log) /\ Len(<<>>) <= QueueSize
      BY EmptySeq, ConstantsOK
    <2> QED
      BY <1>7, <2>1 DEF Disconnect, TypeOK
  <1>8. ASSUME NEW s \in Subscribers,
               Prepared(s) \/ PrepareFails(s) \/ Heartbeat(s) \/ Written(s)
        PROVE  TypeOK'
    BY <1>8 DEF Prepared, PrepareFails, Heartbeat, Written, TypeOK
  <1>9. CASE UNCHANGED vars
    BY <1>9 DEF vars, TypeOK
  <1> QED
    BY <1>1, <1>2, <1>3, <1>4, <1>5, <1>6, <1>7, <1>8, <1>9 DEF Next

(* The daemon's buffers and queues keep their types and their bounds.      *)
THEOREM TypeCorrect == Spec => []TypeOK
  <1>1. Init => TypeOK
    BY ConstantsOK, EmptySeq DEF Init, TypeOK, Idle, Filters
  <1>2. TypeOK /\ [Next]_vars => TypeOK'
    BY TypeStep
  <1> QED
    BY <1>1, <1>2, PTL DEF Spec

-----------------------------------------------------------------------------
(* Order of delivery. DeliveredInOrder alone is not inductive: that replay *)
(* does not repeat or overtake live events needs Consistent.               *)

IInv == TypeOK /\ Consistent /\ DeliveredInOrder

SlotInv(s) == SlotConsistent(s) /\ SlotInOrder(s)

\* A step that leaves a slot and its replay alone keeps the slot's part.
Framed(r) ==
  /\ log' = log
  /\ queue'[r] = queue[r] /\ pending'[r] = pending[r]
  /\ last'[r] = last[r] /\ handler'[r] = handler[r]
  /\ r \in subscribers' <=> r \in subscribers
  /\ replay'.to = {r} <=> replay.to = {r}
  /\ replay.to = {r} => replay' = replay

LEMMA SlotFrame ==
  ASSUME NEW r \in Subscribers, SlotInv(r), Framed(r)
  PROVE  SlotInv(r)'
  BY DEF Framed, SlotInv, SlotConsistent, SlotInOrder, Increasing, Precedes

\* So a step of one slot that leaves log and buffer alone has to be shown
\* to keep that slot's part only.
LEMMA OneSlotStep ==
  ASSUME IInv, NEW s \in Subscribers, UNCHANGED <<log, events>>,
         \A r \in Subscribers \ {s} : Framed(r), SlotInv(s)'
  PROVE  Consistent' /\ DeliveredInOrder'
  <1>1. \A r \in Subscribers : SlotInv(r)'
    BY SlotFrame DEF IInv, Consistent, DeliveredInOrder, SlotInv
  <1> QED
    BY <1>1 DEF IInv, Consistent, DeliveredInOrder, SlotInv, Increasing

\* Facts about ids used below: they are naturals, and first of a sequence.
LEMMA TypedSlot ==
  ASSUME TypeOK, NEW s \in Subscribers
  PROVE  /\ queue[s] \in Seq(Nat) /\ pending[s] \in Seq(Nat)
         /\ replay.rest \in Seq(Nat) /\ events \in Seq(Nat)
         /\ last[s] \in Nat /\ Len(queue[s]) <= QueueSize
         /\ Len(log) \in Nat /\ DOMAIN log = 1 .. Len(log)
  <1>1. Len(log) \in Nat /\ DOMAIN log = 1 .. Len(log)
    BY LenProperties DEF TypeOK
  <1>2. DOMAIN log \subseteq Nat
    BY <1>1
  <1> QED
    BY <1>1, <1>2, SeqMonotonic DEF TypeOK

LEMMA PrecedesOne ==
  ASSUME NEW x, NEW q
  PROVE  Precedes(<<x>>, q) <=> \A i \in DOMAIN q : x < q[i]
  BY DEF Precedes

LEMMA SubscribeStep ==
  ASSUME IInv, NEW s \in Subscribers, NEW filter \in Filters, NEW resumes \in BOOLEAN,
         Subscribe(s, filter, resumes)
  PROVE  SlotInv(s)'
  <1>1. queue[s] = <<>> /\ pending[s] = <<>>
    BY DEF IInv, Consistent, SlotConsistent, Subscribe
  <1>2. /\ queue'[s] = <<>> /\ pending'[s] = <<>>
        /\ replay' = [to |-> {s}, since |-> Since(s, resumes), rest |-> events]
        /\ last'[s] = IF resumes THEN last[s] ELSE 0
        /\ handler'[s] = "subscribing" /\ s \in subscribers' /\ log' = log
    BY <1>1 DEF Subscribe, IInv, TypeOK
  <1>3. ASSUME NEW i \in DOMAIN events, log[events[i]].ts > Since(s, resumes)
        PROVE  events[i] > last'[s]
    <2>1. events[i] \in DOMAIN log
      BY ElementOfSeq, LenProperties DEF IInv, TypeOK
    <2>2. DOMAIN log = 1 .. Len(log) /\ Len(log) \in Nat /\ last[s] \in Nat
      BY TypedSlot DEF IInv
    <2>3. \A e \in DOMAIN log : log[e].ts \in Nat
      <3>1. ASSUME NEW e \in DOMAIN log
            PROVE  log[e] \in [ts : 1 .. MaxClock, session : Filters]
        BY <2>2, ElementOfSeq DEF IInv, TypeOK
      <3> QED
        BY <3>1, ConstantsOK
    <2>4. CASE resumes /\ last[s] # 0
      <3>1. last[s] \in DOMAIN log
        BY <2>4 DEF IInv, TypeOK
      <3>2. events[i] <= last[s] => log[events[i]].ts <= log[last[s]].ts
        BY <2>1, <3>1 DEF IInv, Consistent
      <3> QED
        BY <1>2, <1>3, <2>1, <2>2, <2>3, <2>4, <3>1, <3>2 DEF Since
    <2>5. CASE ~(resumes /\ last[s] # 0)
      BY <1>2, <2>1, <2>2, <2>5
    <2> QED
      BY <2>4, <2>5
  <1>4. SlotConsistent(s)'
    BY <1>2, <1>3 DEF SlotConsistent, Precedes, IInv, Consistent, Increasing
  <1>5. SlotInOrder(s)'
    BY <1>2 DEF SlotInOrder, Precedes, Increasing
  <1> QED
    BY <1>4, <1>5 DEF SlotInv

LEMMA ReplayStep ==
  ASSUME IInv, NEW s \in Subscribers, Replay(s)
  PROVE  SlotInv(s)'
  <1> DEFINE e == Head(replay.rest)
             more == Tail(replay.rest)
  <1>1. /\ pending[s] = <<>> /\ Increasing(replay.rest) /\ Precedes(queue[s], replay.rest)
        /\ \A i \in DOMAIN replay.rest :
             log[replay.rest[i]].ts > replay.since => replay.rest[i] > last[s]
        /\ handler[s] = "subscribing" /\ s \in subscribers
        /\ Increasing(queue[s]) /\ Precedes(<<last[s]>>, queue[s])
    BY DEF IInv, Consistent, SlotConsistent, DeliveredInOrder, SlotInOrder, Replay
  <1>2. /\ replay.rest \in Seq(Nat) /\ replay.rest # <<>> /\ queue[s] \in Seq(Nat)
        /\ last[s] \in Nat /\ Len(queue[s]) <= QueueSize
    BY TypedSlot DEF IInv, Replay
  <1>3. /\ more \in Seq(Nat) /\ Increasing(more)
        /\ \A i \in DOMAIN more :
             e < more[i] /\ i + 1 \in DOMAIN replay.rest /\ more[i] = replay.rest[i + 1]
    BY <1>1, <1>2, TailIncreasing
  <1>4. 1 \in DOMAIN replay.rest /\ e = replay.rest[1] /\ e \in Nat
    BY <1>2, EmptySeq, LenProperties, HeadTailProperties
  <1>5. \A i \in DOMAIN queue[s] : queue[s][i] < e
    BY <1>1, <1>4 DEF Precedes
  <1>6. /\ replay'.to = {s} /\ replay'.rest = more /\ replay'.since = replay.since
        /\ log' = log /\ pending'[s] = <<>> /\ last'[s] = last[s]
        /\ handler'[s] = "subscribing" /\ s \in subscribers'
    BY <1>1 DEF Replay, IInv, TypeOK
  <1>7. /\ queue'[s] \in Seq(Nat) /\ Increasing(queue'[s])
        /\ \A i \in DOMAIN queue'[s] :
             \/ queue'[s][i] = e /\ log[e].ts > replay.since
             \/ \E j \in DOMAIN queue[s] : queue'[s][i] = queue[s][j]
    <2>1. CASE Replays(s, e)
      <3>1. queue'[s] = Offered(queue[s], e)
        BY <2>1 DEF Replay, IInv, TypeOK
      <3>2. Increasing(Offered(queue[s], e))
        BY <1>1, <1>2, <1>4, <1>5, OfferedIncreasing
      <3>3. /\ Offered(queue[s], e) \in Seq(Nat)
            /\ \A i \in DOMAIN Offered(queue[s], e) :
                 \/ Offered(queue[s], e)[i] = e
                 \/ \E j \in DOMAIN queue[s] : Offered(queue[s], e)[i] = queue[s][j]
        <4>1. e \in Nat /\ queue[s] \in Seq(Nat) /\ Len(queue[s]) <= QueueSize
          BY <1>2, <1>4
        <4> HIDE DEF e
        <4> QED
          BY <4>1, OfferedElements
      <3>4. log[e].ts > replay.since
        BY <2>1 DEF Replays
      <3> QED
        BY <3>1, <3>2, <3>3, <3>4
    <2>2. CASE ~Replays(s, e)
      <3>1. queue'[s] = queue[s]
        BY <2>2 DEF Replay
      <3> QED
        BY <3>1, <1>1, <1>2
    <2> QED
      BY <2>1, <2>2
  <1>8. \A i \in DOMAIN queue'[s] : last[s] < queue'[s][i] /\ queue'[s][i] <= e
    <2>1. \A j \in DOMAIN queue[s] : last[s] < queue[s][j] /\ queue[s][j] \in Nat
      BY <1>1, <1>2, PrecedesOne, ElementOfSeq, LenProperties
    <2> QED
      BY <1>7, <1>1, <1>2, <1>4, <1>5, <2>1, SMTT(30)
  <1>9. Precedes(queue'[s], more)
    <2>1. \A i \in DOMAIN more : more[i] \in Nat
      BY <1>3, ElementOfSeq, LenProperties
    <2>2. \A i \in DOMAIN queue'[s] : queue'[s][i] \in Nat
      BY <1>7, ElementOfSeq, LenProperties
    <2> QED
      BY <1>3, <1>4, <1>8, <2>1, <2>2 DEF Precedes
  <1>10. SlotConsistent(s)'
    BY <1>1, <1>3, <1>6, <1>9 DEF SlotConsistent
  <1>11. SlotInOrder(s)'
    BY <1>6, <1>7, <1>8 DEF SlotInOrder, Precedes, Increasing
  <1> QED
    BY <1>10, <1>11 DEF SlotInv

LEMMA OfferStep ==
  ASSUME IInv, NEW s \in Subscribers, RunOffer(s)
  PROVE  SlotInv(s)'
  <1> DEFINE e == Head(pending[s])
             more == Tail(pending[s])
  <1>1. /\ SlotInOrder(s) /\ replay.to # {s}
        /\ s \in subscribers /\ handler[s] # "closed" /\ handler[s] # "subscribing"
    BY DEF IInv, Consistent, SlotConsistent, DeliveredInOrder, RunOffer, LoopFree
  <1>2. /\ pending[s] \in Seq(Nat) /\ pending[s] # <<>> /\ queue[s] \in Seq(Nat)
        /\ last[s] \in Nat /\ Len(queue[s]) <= QueueSize
    BY TypedSlot DEF IInv, RunOffer
  <1>3. /\ more \in Seq(Nat) /\ Increasing(more)
        /\ \A i \in DOMAIN more :
             e < more[i] /\ i + 1 \in DOMAIN pending[s] /\ more[i] = pending[s][i + 1]
    BY <1>1, <1>2, TailIncreasing DEF SlotInOrder
  <1>4. 1 \in DOMAIN pending[s] /\ e = pending[s][1] /\ e \in Nat
    BY <1>2, EmptySeq, LenProperties, HeadTailProperties
  <1>5. /\ \A i \in DOMAIN queue[s] : queue[s][i] < e /\ last[s] < queue[s][i]
        /\ last[s] < e
    BY <1>1, <1>4, PrecedesOne DEF SlotInOrder, Precedes
  <1>6. /\ queue'[s] = Offered(queue[s], e) /\ pending'[s] = more
        /\ last'[s] = last[s] /\ handler'[s] = handler[s]
        /\ s \in subscribers' /\ replay' = replay
    BY <1>1 DEF RunOffer, IInv, TypeOK
  <1>7. Increasing(queue'[s])
    BY <1>1, <1>2, <1>4, <1>5, <1>6, OfferedIncreasing DEF SlotInOrder
  <1>8. /\ queue'[s] \in Seq(Nat)
        /\ \A i \in DOMAIN queue'[s] :
             queue'[s][i] = e \/ \E j \in DOMAIN queue[s] : queue'[s][i] = queue[s][j]
    BY <1>2, <1>4, <1>6, OfferedElements
  <1>9. \A i \in DOMAIN queue'[s] : last[s] < queue'[s][i] /\ queue'[s][i] <= e
    BY <1>5, <1>8, <1>4
  <1>10. Precedes(queue'[s], more)
    <2>1. \A i \in DOMAIN more : more[i] \in Nat
      BY <1>3, ElementOfSeq, LenProperties
    <2>2. \A i \in DOMAIN queue'[s] : queue'[s][i] \in Nat
      BY <1>8, ElementOfSeq, LenProperties
    <2> QED
      BY <1>3, <1>4, <1>9, <2>1, <2>2 DEF Precedes
  <1>11. \A i \in DOMAIN more : last[s] < more[i]
    BY <1>1, <1>3, PrecedesOne DEF SlotInOrder
  <1>12. SlotInOrder(s)'
    BY <1>3, <1>6, <1>7, <1>9, <1>10, <1>11 DEF SlotInOrder, Precedes, Increasing
  <1>13. SlotConsistent(s)'
    BY <1>1, <1>6 DEF SlotConsistent
  <1> QED
    BY <1>12, <1>13 DEF SlotInv

LEMMA GetStep ==
  ASSUME IInv, NEW s \in Subscribers, Get(s)
  PROVE  SlotInv(s)' /\ last'[s] > last[s]
  <1> DEFINE e == Head(queue[s])
             more == Tail(queue[s])
  <1>1. /\ SlotInOrder(s) /\ replay.to # {s} /\ s \in subscribers
    BY DEF IInv, Consistent, SlotConsistent, DeliveredInOrder, Get, LoopFree
  <1>2. queue[s] \in Seq(Nat) /\ queue[s] # <<>>
    BY TypedSlot DEF IInv, Get
  <1>3. /\ more \in Seq(Nat) /\ Increasing(more)
        /\ \A i \in DOMAIN more :
             e < more[i] /\ i + 1 \in DOMAIN queue[s] /\ more[i] = queue[s][i + 1]
    BY <1>1, <1>2, TailIncreasing DEF SlotInOrder
  <1>4. 1 \in DOMAIN queue[s] /\ e = queue[s][1]
    BY <1>2, EmptySeq, LenProperties
  <1>5. /\ queue'[s] = more /\ last'[s] = e /\ pending'[s] = pending[s]
        /\ handler'[s] = "writing" /\ subscribers' = subscribers /\ replay' = replay
    BY DEF Get, IInv, TypeOK
  <1>6. Precedes(more, pending[s]) /\ \A i \in DOMAIN pending[s] : e < pending[s][i]
    BY <1>1, <1>3, <1>4 DEF SlotInOrder, Precedes
  <1>7. SlotInOrder(s)'
    BY <1>1, <1>3, <1>5, <1>6 DEF SlotInOrder, Precedes, Increasing
  <1>8. SlotConsistent(s)'
    BY <1>1, <1>5 DEF SlotConsistent
  <1>9. last[s] < e
    BY <1>1, <1>4, PrecedesOne DEF SlotInOrder
  <1> QED
    BY <1>5, <1>7, <1>8, <1>9 DEF SlotInv

LEMMA EmitStep ==
  ASSUME IInv, NEW about \in Filters, NEW ts \in Clock .. MaxClock, Emit(about, ts)
  PROVE  Consistent' /\ DeliveredInOrder'
  <1> DEFINE e == Len(log) + 1
             r == [ts |-> ts, session |-> about]
  <1>1. Len(log) \in Nat /\ DOMAIN log = 1 .. Len(log)
    BY LenProperties DEF IInv, TypeOK
  <1>2. ASSUME NEW i \in DOMAIN log
        PROVE  log[i].ts \in Nat
    <2>1. log[i] \in [ts : 1 .. MaxClock, session : Filters]
      BY <1>1, ElementOfSeq DEF IInv, TypeOK
    <2> QED
      BY <2>1, ConstantsOK
  <1>3. Clock \in Nat /\ ts \in Nat /\ \A i \in DOMAIN log : log[i].ts <= Clock
    <2>1. CASE log = <<>>
      BY <2>1, ConstantsOK DEF Clock
    <2>2. CASE log # <<>>
      <3>1. Len(log) \in DOMAIN log
        BY <2>2, <1>1, EmptySeq DEF IInv, TypeOK
      <3>2. Clock = log[Len(log)].ts
        BY <2>2 DEF Clock
      <3>3. \A i \in DOMAIN log : log[i].ts <= log[Len(log)].ts
        BY <3>1, <1>1 DEF IInv, Consistent
      <3> QED
        BY <3>1, <3>2, <3>3, <1>2, ConstantsOK
    <2> QED
      BY <2>1, <2>2
  <1>4. /\ DOMAIN log' = 1 .. e
        /\ \A i \in DOMAIN log : log'[i] = log[i]
        /\ log'[e].ts = ts
    <2>1. log' = Append(log, r)
      BY DEF Emit
    <2> QED
      BY <2>1, <1>1
  <1>5. \A i, j \in DOMAIN log' : i <= j => log'[i].ts <= log'[j].ts
    <2> SUFFICES ASSUME NEW i \in DOMAIN log', NEW j \in DOMAIN log', i <= j
                 PROVE  log'[i].ts <= log'[j].ts
      OBVIOUS
    <2>1. CASE j \in DOMAIN log
      BY <2>1, <1>1, <1>4 DEF IInv, Consistent
    <2>2. CASE j = e /\ i \in DOMAIN log
      BY <2>2, <1>2, <1>3, <1>4
    <2>3. CASE j = e /\ i = e
      BY <2>3, <1>3, <1>4
    <2> QED
      BY <2>1, <2>2, <2>3, <1>1, <1>4
  <1>6. Increasing(events)'
    <2>1. events \in Seq(Nat) /\ \A i \in DOMAIN events : events[i] < e
      <3>1. \A i \in DOMAIN events : events[i] \in DOMAIN log
        BY ElementOfSeq, LenProperties DEF IInv, TypeOK
      <3> QED
        BY <3>1, <1>1, TypedSlot, SeqMonotonic DEF IInv, TypeOK
    <2>2. events' = Remembered(events, e)
      BY DEF Emit
    <2> QED
      BY <2>1, <2>2, <1>1, RememberedIncreasing DEF IInv, Consistent, Increasing
  <1>7. ASSUME NEW s \in Subscribers
        PROVE  SlotInv(s)'
    <2>1. /\ SlotInOrder(s) /\ SlotConsistent(s) /\ replay.to # {s}
      BY DEF IInv, Consistent, DeliveredInOrder, Emit, LoopFree
    <2>2. /\ pending[s] \in Seq(Nat) /\ \A i \in DOMAIN pending[s] : pending[s][i] < e
          /\ \A i \in DOMAIN queue[s] : queue[s][i] < e
          /\ last[s] < e
      <3>1. \A i \in DOMAIN pending[s] : pending[s][i] \in DOMAIN log
        BY ElementOfSeq, LenProperties DEF IInv, TypeOK
      <3>2. \A i \in DOMAIN queue[s] : queue[s][i] \in DOMAIN log
        BY ElementOfSeq, LenProperties DEF IInv, TypeOK
      <3>3. last[s] \in {0} \cup DOMAIN log
        BY DEF IInv, TypeOK
      <3>4. pending[s] \in Seq(Nat)
        BY TypedSlot DEF IInv
      <3> QED
        BY <3>1, <3>2, <3>3, <3>4, <1>1
    <2>3. UNCHANGED <<queue, last, handler, subscribers, replay>>
      BY DEF Emit
    <2>4. CASE pending'[s] = pending[s]
      BY <2>1, <2>3, <2>4 DEF SlotInv, SlotInOrder, SlotConsistent, Precedes, Increasing
    <2>5. CASE s \in subscribers /\ pending'[s] = Append(pending[s], e)
      <3>1. Increasing(Append(pending[s], e))
        BY <2>1, <2>2, <1>1, AppendIncreasing DEF SlotInOrder
      <3>2. \A i \in DOMAIN Append(pending[s], e) :
              \/ Append(pending[s], e)[i] = e
              \/ i \in DOMAIN pending[s] /\ Append(pending[s], e)[i] = pending[s][i]
        BY <2>2, <1>1
      <3>3. SlotInOrder(s)'
        BY <2>1, <2>2, <2>3, <2>5, <3>1, <3>2, SMTT(30) DEF SlotInOrder, Precedes, Increasing
      <3>4. SlotConsistent(s)'
        BY <2>1, <2>3, <2>5 DEF SlotConsistent
      <3> QED
        BY <3>3, <3>4 DEF SlotInv
    <2> QED
      BY <2>4, <2>5 DEF Emit
  <1> QED
    BY <1>5, <1>6, <1>7 DEF Consistent, DeliveredInOrder, SlotInv

\* No step disturbs the invariant, and none hands a client an earlier event.
LEMMA InvStep ==
  ASSUME IInv, [Next]_vars
  PROVE  /\ IInv'
         /\ \A s \in Subscribers : last'[s] \notin {0, last[s]} => last'[s] > last[s]
  <1> DEFINE Forward == \A s \in Subscribers :
                          last'[s] \notin {0, last[s]} => last'[s] > last[s]
  <1>0. TypeOK'
    BY TypeStep DEF IInv
  <1>1. ASSUME NEW about \in Filters, NEW ts \in Clock .. MaxClock, Emit(about, ts)
        PROVE  IInv' /\ Forward
    <2>1. Forward
      BY <1>1 DEF Emit
    <2> QED
      BY <1>0, <1>1, <2>1, EmitStep DEF IInv
  <1>2. ASSUME NEW s \in Subscribers, NEW filter \in Filters, NEW resumes \in BOOLEAN,
               Subscribe(s, filter, resumes)
        PROVE  IInv' /\ Forward
    <2>1. \A r \in Subscribers \ {s} : Framed(r)
      BY <1>2 DEF Subscribe, LoopFree, Framed, IInv, TypeOK
    <2>2. SlotInv(s)'
      BY <1>2, SubscribeStep
    <2>3. Forward
      BY <1>2 DEF Subscribe, IInv, TypeOK
    <2>4. UNCHANGED <<log, events>>
      BY <1>2 DEF Subscribe
    <2> QED
      BY <1>0, <2>1, <2>2, <2>3, <2>4, OneSlotStep DEF IInv
  <1>3. ASSUME NEW s \in Subscribers, Replay(s)
        PROVE  IInv' /\ Forward
    <2>1. \A r \in Subscribers \ {s} : Framed(r)
      BY <1>3 DEF Replay, Framed, IInv, TypeOK
    <2>2. SlotInv(s)'
      BY <1>3, ReplayStep
    <2>3. Forward /\ UNCHANGED <<log, events>>
      BY <1>3 DEF Replay
    <2> QED
      BY <1>0, <2>1, <2>2, <2>3, OneSlotStep DEF IInv
  <1>4. ASSUME NEW s \in Subscribers, Subscribed(s)
        PROVE  IInv' /\ Forward
    <2>1. \A r \in Subscribers \ {s} : Framed(r)
      BY <1>4 DEF Subscribed, Idle, Framed, IInv, TypeOK
    <2>2. SlotInv(s)'
      BY <1>4 DEF Subscribed, Idle, IInv, TypeOK, Consistent, DeliveredInOrder,
                  SlotInv, SlotConsistent, SlotInOrder, Increasing, Precedes
    <2>3. Forward /\ UNCHANGED <<log, events>>
      BY <1>4 DEF Subscribed
    <2> QED
      BY <1>0, <2>1, <2>2, <2>3, OneSlotStep DEF IInv
  <1>5. ASSUME NEW s \in Subscribers, RunOffer(s)
        PROVE  IInv' /\ Forward
    <2>1. \A r \in Subscribers \ {s} : Framed(r)
      BY <1>5 DEF RunOffer, Framed, IInv, TypeOK
    <2>2. SlotInv(s)'
      BY <1>5, OfferStep
    <2>3. Forward /\ UNCHANGED <<log, events>>
      BY <1>5 DEF RunOffer
    <2> QED
      BY <1>0, <2>1, <2>2, <2>3, OneSlotStep DEF IInv
  <1>6. ASSUME NEW s \in Subscribers, Get(s)
        PROVE  IInv' /\ Forward
    <2>1. \A r \in Subscribers \ {s} : Framed(r)
      BY <1>6 DEF Get, Framed, IInv, TypeOK
    <2>2. SlotInv(s)' /\ last'[s] > last[s]
      BY <1>6, GetStep
    <2>3. Forward
      BY <2>1, <2>2 DEF Framed
    <2>4. UNCHANGED <<log, events>>
      BY <1>6 DEF Get
    <2> QED
      BY <1>0, <2>1, <2>2, <2>3, <2>4, OneSlotStep DEF IInv
  <1>7. ASSUME NEW s \in Subscribers, Disconnect(s)
        PROVE  IInv' /\ Forward
    <2>1. \A r \in Subscribers \ {s} : Framed(r)
      BY <1>7 DEF Disconnect, Framed, IInv, TypeOK
    <2>2. SlotInv(s)'
      <3>1. /\ queue'[s] = <<>> /\ pending'[s] = <<>>
            /\ handler'[s] = "closed" /\ s \notin subscribers' /\ replay'.to # {s}
        BY <1>7 DEF Disconnect, LoopFree, IInv, TypeOK
      <3> QED
        BY <3>1 DEF SlotInv, SlotConsistent, SlotInOrder, Increasing, Precedes
    <2>3. Forward /\ UNCHANGED <<log, events>>
      BY <1>7 DEF Disconnect
    <2> QED
      BY <1>0, <2>1, <2>2, <2>3, OneSlotStep DEF IInv
  <1>8. ASSUME NEW s \in Subscribers,
               Prepared(s) \/ PrepareFails(s) \/ Heartbeat(s) \/ Written(s)
        PROVE  IInv' /\ Forward
    <2>1. \A r \in Subscribers \ {s} : Framed(r)
      BY <1>8 DEF Prepared, PrepareFails, Heartbeat, Written, Framed, IInv, TypeOK
    <2>2. SlotInv(s)'
      BY <1>8 DEF Prepared, PrepareFails, Heartbeat, Written, LoopFree, IInv, TypeOK, Consistent,
                  DeliveredInOrder, SlotInv, SlotConsistent, SlotInOrder, Increasing, Precedes
    <2>3. Forward /\ UNCHANGED <<log, events>>
      BY <1>8 DEF Prepared, PrepareFails, Heartbeat, Written
    <2> QED
      BY <1>0, <2>1, <2>2, <2>3, OneSlotStep DEF IInv
  <1>9. CASE UNCHANGED vars
    <2>1. Consistent' /\ DeliveredInOrder' /\ Forward
      BY <1>9 DEF vars, IInv, Consistent, DeliveredInOrder, SlotConsistent, SlotInOrder,
                  Increasing, Precedes
    <2> QED
      BY <1>0, <2>1 DEF IInv
  <1> QED
    BY <1>1, <1>2, <1>3, <1>4, <1>5, <1>6, <1>7, <1>8, <1>9 DEF Next

LEMMA InvInit == Init => IInv
  <1>1. Init => TypeOK
    BY ConstantsOK, EmptySeq DEF Init, TypeOK, Idle, Filters
  <1>2. Init => Consistent /\ DeliveredInOrder
    BY DEF Init, Idle, Consistent, DeliveredInOrder, SlotConsistent, SlotInOrder,
           Increasing, Precedes
  <1> QED
    BY <1>1, <1>2 DEF IInv

(* A subscription is handed, has queued and is scheduled events in the     *)
(* order of emission, none twice, for any buffer and queue sizes.          *)
THEOREM OrderedDelivery == Spec => []DeliveredInOrder
  <1>1. IInv /\ [Next]_vars => IInv'
    BY InvStep
  <1>2. IInv => DeliveredInOrder
    BY DEF IInv
  <1> QED
    BY InvInit, <1>1, <1>2, PTL DEF Spec

(* Emitter and handlers agree on who is subscribed and what is replayed.   *)
THEOREM EmitterConsistent == Spec => []Consistent
  <1>1. IInv /\ [Next]_vars => IInv'
    BY InvStep
  <1>2. IInv => Consistent
    BY DEF IInv
  <1> QED
    BY InvInit, <1>1, <1>2, PTL DEF Spec

(* A client that resumes is never handed an event it had already received. *)
THEOREM ResumeNeverRepeats == Spec => NeverHandedTwice
  <1>1. IInv /\ [Next]_vars => IInv'
    BY InvStep
  <1>2. IInv /\ [Next]_vars =>
          [\A s \in Subscribers : last'[s] \notin {0, last[s]} => last'[s] > last[s]]_vars
    BY InvStep
  <1> QED
    BY InvInit, <1>1, <1>2, PTL DEF Spec, NeverHandedTwice

-----------------------------------------------------------------------------
(* What replay leaves in the queue. ReplayIsNewest speaks of the end of    *)
(* subscribe()'s loop; the loop keeps the queue at the newest of what it   *)
(* has looked at.                                                          *)

\* The queue holds owed events, and an owed one it does not hold left it full
\* of newer ones.
Keeps(q, owed) ==
  /\ Ids(q) \subseteq owed
  /\ \A e \in owed \ Ids(q) : Len(q) = QueueSize /\ \A i \in DOMAIN q : e < q[i]

Looked == Ids(events) \ Ids(replay.rest)

OwedSoFar(s) == {e \in Looked : Replays(s, e)}

ReplayInv ==
  \A s \in Subscribers : replay.to = {s} =>
    /\ Ids(replay.rest) \subseteq Ids(events)
    /\ \A e \in Looked : \A i \in DOMAIN replay.rest : e < replay.rest[i]
    /\ Keeps(queue[s], OwedSoFar(s))

LEMMA IdsCount ==
  ASSUME NEW q \in Seq(Nat), Increasing(q)
  PROVE  Ids(q) \subseteq Nat /\ IsFiniteSet(Ids(q)) /\ Cardinality(Ids(q)) = Len(q)
  <1>1. DOMAIN q = 1 .. Len(q) /\ Len(q) \in Nat /\ \A i \in DOMAIN q : q[i] \in Nat /\ q[i] \in Ids(q)
    BY LenProperties, ElementOfSeq DEF Ids
  <1>2. q \in [1 .. Len(q) -> Ids(q)]
    BY <1>1
  <1>3. \A i, j \in 1 .. Len(q) : q[i] = q[j] => i = j
    <2>1. ASSUME NEW i \in 1 .. Len(q), NEW j \in 1 .. Len(q), q[i] = q[j], i # j PROVE FALSE
      <3>1. (i < j \/ j < i) /\ q[i] \in Nat /\ q[j] \in Nat
        BY <1>1, <2>1
      <3> QED
        BY <1>1, <2>1, <3>1 DEF Increasing
    <2> QED
      BY <2>1
  <1>4. \A x \in Ids(q) : \E i \in 1 .. Len(q) : q[i] = x
    BY <1>1 DEF Ids
  <1>5. q \in Bijection(1 .. Len(q), Ids(q))
    BY <1>2, <1>3, <1>4 DEF Bijection, Injection, IsInjective, Surjection
  <1>6. ExistsBijection(1 .. Len(q), Ids(q))
    BY <1>5 DEF ExistsBijection
  <1> QED
    BY <1>1, <1>6, FS_CountingElements, FS_NatBijection DEF Ids

LEMMA KeepsNewest ==
  ASSUME NEW q \in Seq(Nat), Increasing(q), Len(q) <= QueueSize,
         NEW owed \in SUBSET Nat, IsFiniteSet(owed), Keeps(q, owed)
  PROVE  Ids(q) = {e \in owed : Cardinality({f \in owed : f > e}) < QueueSize}
  <1>1. Ids(q) \subseteq owed /\ IsFiniteSet(Ids(q)) /\ Cardinality(Ids(q)) = Len(q) /\ Len(q) \in Nat
    BY IdsCount, LenProperties DEF Keeps
  <1>2. ASSUME NEW x \in Ids(q) PROVE Cardinality({f \in owed : f > x}) < QueueSize
    <2> DEFINE above == {f \in owed : f > x}
    <2>1. PICK i \in DOMAIN q : x = q[i]
      BY DEF Ids
    <2>2. above \subseteq Ids(q)
      <3>1. ASSUME NEW f \in above, f \notin Ids(q) PROVE FALSE
        <4>1. f < q[i] /\ f > q[i] /\ f \in Nat /\ q[i] \in Nat
          BY <1>1, <2>1, <3>1 DEF Keeps
        <4> QED
          BY <4>1
      <3> QED
        BY <3>1
    <2>3. x \notin above
      <3>1. x \in Nat
        BY <1>1
      <3>2. ~(x > x)
        BY <3>1
      <3> QED
        BY <3>2
    <2> HIDE DEF above
    <2>4. above \in SUBSET Ids(q) /\ above # Ids(q)
      BY <2>2, <2>3
    <2>5. /\ IsFiniteSet(above) /\ Cardinality(above) <= Cardinality(Ids(q))
          /\ Cardinality(above) # Cardinality(Ids(q))
      BY <1>1, <2>4, FS_Subset
    <2>6. Cardinality(above) < QueueSize
      BY <1>1, <2>5, FS_CardinalityType, ConstantsOK
    <2> QED
      BY <2>6 DEF above
  <1>3. ASSUME NEW x \in owed, x \notin Ids(q) PROVE ~(Cardinality({f \in owed : f > x}) < QueueSize)
    <2> DEFINE above == {f \in owed : f > x}
    <2>1. above \in SUBSET owed
      OBVIOUS
    <2>2. Ids(q) \subseteq above /\ Len(q) = QueueSize
      <3>1. Len(q) = QueueSize /\ \A i \in DOMAIN q : x < q[i] /\ q[i] \in Nat
        BY <1>1, <1>3, LenProperties, ElementOfSeq DEF Keeps
      <3> QED
        BY <1>1, <3>1 DEF Ids
    <2> HIDE DEF above
    <2>3. IsFiniteSet(above) /\ Ids(q) \in SUBSET above
      BY <2>1, <2>2, FS_Subset
    <2>4. Cardinality(Ids(q)) <= Cardinality(above) /\ Cardinality(above) \in Nat
      BY <2>3, FS_Subset, FS_CardinalityType
    <2>5. ~(Cardinality(above) < QueueSize)
      BY <1>1, <2>2, <2>4, ConstantsOK
    <2> QED
      BY <2>5 DEF above
  <1> QED
    BY <1>1, <1>2, <1>3

\* A queue that is offered the newest of what it is owed.
LEMMA KeepsOffered ==
  ASSUME NEW q \in Seq(Nat), Increasing(q), Len(q) <= QueueSize, NEW owed \in SUBSET Nat, Keeps(q, owed),
         NEW e \in Nat, \A x \in owed : x < e
  PROVE  Keeps(Offered(q, e), owed \cup {e})
  <1> PICK n \in Nat : n = Len(q)
    BY LenProperties
  <1> PICK size \in Nat \ {0} : size = QueueSize
    BY ConstantsOK
  <1>0. DOMAIN q = 1 .. n /\ n <= size
    BY LenProperties
  <1>1. DOMAIN q = 1 .. Len(q) /\ Len(q) \in Nat /\ \A i \in DOMAIN q : q[i] \in Nat /\ q[i] \in Ids(q) /\ q[i] < e
    BY LenProperties, ElementOfSeq DEF Ids, Keeps
  <1>2. CASE Len(q) < QueueSize
    <2>1. /\ Offered(q, e) \in Seq(Nat) /\ DOMAIN Offered(q, e) = 1 .. Len(q) + 1
          /\ \A i \in 1 .. Len(q) : Offered(q, e)[i] = q[i]
          /\ Offered(q, e)[Len(q) + 1] = e
      BY <1>1, <1>2, AppendProperties, LenProperties DEF Offered
    <2>2. owed = Ids(q)
      <3>0. n < size
        BY <1>2
      <3>1. n # size
        BY ONLY <3>0
      <3> QED
        BY <3>1 DEF Keeps
    <2>3. Ids(Offered(q, e)) = Ids(q) \cup {e}
      <3>1. 1 .. Len(q) + 1 = (1 .. Len(q)) \cup {Len(q) + 1}
        BY <1>1
      <3> QED
        BY <1>1, <2>1, <3>1 DEF Ids
    <2> QED
      BY <2>2, <2>3 DEF Keeps
  <1>3. CASE ~(Len(q) < QueueSize)
    <2>1. q # <<>> /\ Len(q) = QueueSize /\ 1 \in DOMAIN q
      <3>0. ~(n < size)
        BY <1>3
      <3>1. n = size /\ n # 0 /\ 1 \in 1 .. n
        BY ONLY <1>0, <3>0
      <3> QED
        BY <1>0, <3>1, EmptySeq
    <2> DEFINE o == Offered(q, e)
    <2>2. /\ Tail(q) \in Seq(Nat) /\ Len(Tail(q)) = n - 1 /\ DOMAIN Tail(q) = 1 .. n - 1
          /\ \A i \in 1 .. n - 1 : Tail(q)[i] = q[i + 1]
      BY <2>1, HeadTailProperties, LenProperties
    <2>3. /\ o \in Seq(Nat) /\ Len(o) = n /\ DOMAIN o = 1 .. n /\ o[n] = e
          /\ \A i \in 1 .. n - 1 : o[i] = q[i + 1]
      BY <1>1, <1>3, <2>1, <2>2, AppendProperties, LenProperties DEF Offered
    <2>4. Ids(o) \subseteq owed \cup {e}
      <3>1. ASSUME NEW i \in 1 .. n PROVE o[i] \in owed \cup {e}
        <4>1. CASE i = n
          BY <2>3, <4>1
        <4>2. CASE i # n
          <5>1. i \in 1 .. n - 1 /\ i + 1 \in DOMAIN q
            BY ONLY <1>0, <4>2, i \in 1 .. n
          <5> QED
            BY <1>1, <2>3, <5>1 DEF Keeps
        <4> QED
          BY <4>1, <4>2
      <3> QED
        BY <2>3, <3>1 DEF Ids
    <2>5. ASSUME NEW x \in owed \cup {e}, x \notin Ids(o), NEW i \in 1 .. n PROVE x < o[i]
      <3>1. x # e /\ x \in owed /\ x \in Nat
        <4>1. e \in Ids(o)
          BY <1>1, <2>1, <2>3 DEF Ids
        <4> QED
          BY <2>5, <4>1
      <3>2. CASE i = n
        BY <2>3, <3>1, <3>2
      <3>3. CASE i # n
        <4>0. i \in 1 .. n - 1 /\ i + 1 \in DOMAIN q /\ 1 < i + 1
          BY ONLY <1>0, <3>3, i \in 1 .. n
        <4>1. i \in 1 .. n - 1 /\ i + 1 \in DOMAIN q /\ o[i] = q[i + 1] /\ 1 < i + 1
          BY <2>3, <4>0
        <4>2. CASE x \in Ids(q)
          <5>1. PICK j \in DOMAIN q : x = q[j]
            BY <4>2 DEF Ids
          <5>2. j = 1
            <6>1. ASSUME j # 1 PROVE FALSE
              <7>0. j - 1 \in 1 .. n - 1 /\ j - 1 \in 1 .. n /\ (j - 1) + 1 = j
                BY <1>0, <6>1
              <7>1. j - 1 \in 1 .. n - 1 /\ (j - 1) + 1 = j /\ j - 1 \in DOMAIN o
                BY <2>3, <7>0
              <7>2. o[j - 1] = x
                BY <2>3, <5>1, <7>1
              <7> QED
                BY <2>5, <7>1, <7>2 DEF Ids
            <6> QED
              BY <6>1
          <5> QED
            BY <2>1, <4>1, <5>1, <5>2 DEF Increasing
        <4>3. CASE x \notin Ids(q)
          BY <3>1, <4>1, <4>3 DEF Keeps
        <4> QED
          BY <4>2, <4>3
      <3> QED
        BY <3>2, <3>3
    <2> QED
      BY <2>1, <2>3, <2>4, <2>5 DEF Keeps
  <1> QED
    BY <1>2, <1>3

\* One round of the loop looks at the oldest event of the rest.
LEMMA LooksAtNext ==
  ASSUME NEW q \in Seq(Nat), q # <<>>, Increasing(q)
  PROVE  /\ Head(q) \in Nat /\ Ids(q) = Ids(Tail(q)) \cup {Head(q)} /\ Head(q) \notin Ids(Tail(q))
         /\ \A i \in DOMAIN Tail(q) : Head(q) < Tail(q)[i] /\ Tail(q)[i] \in Ids(q)
  <1>1. /\ Tail(q) \in Seq(Nat) /\ \A i \in DOMAIN Tail(q) :
                Head(q) < Tail(q)[i] /\ i + 1 \in DOMAIN q /\ Tail(q)[i] = q[i + 1]
    BY TailIncreasing
  <1>2. /\ Len(q) \in Nat \ {0} /\ DOMAIN q = 1 .. Len(q) /\ Head(q) = q[1] /\ Head(q) \in Nat
        /\ DOMAIN Tail(q) = 1 .. Len(q) - 1
    BY <1>1, LenProperties, EmptySeq, HeadTailProperties
  <1>3. ASSUME NEW i \in DOMAIN q, i # 1 PROVE q[i] \in Ids(Tail(q))
    <2>1. i - 1 \in DOMAIN Tail(q) /\ (i - 1) + 1 = i
      BY <1>2, <1>3
    <2> QED
      BY <1>1, <2>1 DEF Ids
  <1>4. ASSUME NEW x \in Ids(Tail(q)) PROVE x \in Ids(q) /\ x # Head(q)
    BY <1>1, <1>2 DEF Ids
  <1>5. Head(q) \in Ids(q)
    BY <1>2 DEF Ids
  <1>6. Ids(q) \subseteq Ids(Tail(q)) \cup {Head(q)}
    BY <1>2, <1>3 DEF Ids
  <1>7. \A i \in DOMAIN Tail(q) : Tail(q)[i] \in Ids(Tail(q))
    BY DEF Ids
  <1> QED
    BY <1>1, <1>2, <1>4, <1>5, <1>6, <1>7

LEMMA ReplayKeeps ==
  ASSUME IInv, ReplayInv, NEW s \in Subscribers, Replay(s)
  PROVE  ReplayInv'
  <1> DEFINE rest == replay.rest
  <1> PICK e \in Nat : e = Head(replay.rest)
    <2>1. rest \in Seq(Nat) /\ rest # <<>>
      BY TypedSlot DEF IInv, Replay
    <2> QED
      BY <2>1, HeadTailProperties
  <1>1. /\ replay.to = {s} /\ rest \in Seq(Nat) /\ rest # <<>> /\ Increasing(rest)
        /\ queue[s] \in Seq(Nat) /\ Increasing(queue[s]) /\ Len(queue[s]) <= QueueSize
        /\ events \in Seq(Nat)
    BY TypedSlot DEF IInv, Replay, Consistent, SlotConsistent, DeliveredInOrder, SlotInOrder
  <1>2. /\ Ids(rest) \subseteq Ids(events)
        /\ \A x \in Looked : \A i \in DOMAIN rest : x < rest[i]
        /\ Keeps(queue[s], OwedSoFar(s))
    BY <1>1 DEF ReplayInv
  <1>3. /\ Ids(rest) = Ids(Tail(rest)) \cup {e} /\ e \notin Ids(Tail(rest))
        /\ \A i \in DOMAIN Tail(rest) : e < Tail(rest)[i] /\ Tail(rest)[i] \in Ids(rest)
    BY <1>1, LooksAtNext
  <1>4. /\ replay'.to = {s} /\ replay'.rest = Tail(rest) /\ replay'.since = replay.since
        /\ UNCHANGED <<log, events, wanted>>
    BY <1>1 DEF Replay, IInv, TypeOK
  <1>5. Looked' = Looked \cup {e} /\ e \notin Looked /\ Looked \subseteq Nat
    <2>1. Ids(events) \subseteq Nat
      BY <1>1, LenProperties, ElementOfSeq DEF Ids
    <2>2. Looked' = Ids(events) \ Ids(Tail(rest))
      BY <1>4 DEF Looked
    <2> QED
      BY <1>2, <1>3, <2>1, <2>2 DEF Looked
  <1>6. \A x \in Looked : x < e
    <2>1. 1 \in DOMAIN rest /\ rest[1] = e
      BY <1>1, EmptySeq, LenProperties, HeadTailProperties
    <2> QED
      BY <1>2, <2>1
  <1>7. \A x : Replays(s, x)' <=> Replays(s, x)
    BY <1>4 DEF Replays
  <1>8. Keeps(queue'[s], OwedSoFar(s)')
    <2>1. CASE Replays(s, e)
      <3>1. queue'[s] = Offered(queue[s], e)
        BY <2>1 DEF Replay, IInv, TypeOK
      <3>2. OwedSoFar(s)' = OwedSoFar(s) \cup {e}
        BY <1>5, <1>7, <2>1 DEF OwedSoFar
      <3>3. OwedSoFar(s) \in SUBSET Nat /\ \A x \in OwedSoFar(s) : x < e
        BY <1>5, <1>6 DEF OwedSoFar
      <3> QED
        <4>1. PICK owed \in SUBSET Nat : owed = OwedSoFar(s)
          BY <3>3
        <4>2. Keeps(Offered(queue[s], e), owed \cup {e})
          BY <1>1, <1>2, <3>3, <4>1, KeepsOffered
        <4> QED
          BY <3>1, <3>2, <4>1, <4>2
    <2>2. CASE ~Replays(s, e)
      <3>1. queue'[s] = queue[s]
        BY <2>2 DEF Replay
      <3>2. OwedSoFar(s)' = OwedSoFar(s)
        BY <1>5, <1>7, <2>2 DEF OwedSoFar
      <3> QED
        BY <1>2, <3>1, <3>2
    <2> QED
      BY <2>1, <2>2
  <1>9. \A x \in Looked' : \A i \in DOMAIN Tail(rest) : x < Tail(rest)[i]
    <2>1. ASSUME NEW x \in Looked, NEW i \in DOMAIN Tail(rest) PROVE x < Tail(rest)[i]
      <3>1. x < e /\ e < Tail(rest)[i] /\ x \in Nat
        BY <1>3, <1>5, <1>6
      <3>2. Tail(rest)[i] \in Nat
        BY <1>1, HeadTailProperties, LenProperties, ElementOfSeq
      <3> QED
        BY <3>1, <3>2
    <2> QED
      BY <1>3, <1>5, <2>1
  <1> SUFFICES ASSUME NEW r \in Subscribers, replay'.to = {r}
               PROVE  /\ Ids(replay'.rest) \subseteq Ids(events')
                      /\ \A x \in Looked' : \A i \in DOMAIN replay'.rest : x < replay'.rest[i]
                      /\ Keeps(queue'[r], OwedSoFar(r)')
    BY DEF ReplayInv, Keeps, Ids
  <1>10. r = s
    BY <1>4
  <1> QED
    BY <1>2, <1>3, <1>4, <1>8, <1>9, <1>10

LEMMA ReplayInvStep == IInv /\ ReplayInv /\ [Next]_vars => ReplayInv'
  <1> SUFFICES ASSUME IInv, ReplayInv, [Next]_vars PROVE ReplayInv'
    OBVIOUS
  <1>1. ASSUME NEW s \in Subscribers, NEW filter \in Filters, NEW resumes \in BOOLEAN,
               Subscribe(s, filter, resumes)
        PROVE  ReplayInv'
    <2>1. queue[s] = <<>>
      BY <1>1 DEF IInv, Consistent, SlotConsistent, Subscribe
    <2>2. /\ queue' = queue /\ events' = events /\ replay'.to = {s} /\ replay'.rest = events
      BY <1>1 DEF Subscribe
    <2>3. Looked' = {} /\ OwedSoFar(s)' = {}
      BY <2>2 DEF Looked, OwedSoFar, Ids
    <2>4. Keeps(queue'[s], OwedSoFar(s)')
      <3>1. Ids(<<>>) = {}
        BY DEF Ids
      <3> QED
        BY <2>1, <2>2, <2>3, <3>1 DEF Keeps
    <2>5. ASSUME NEW r \in Subscribers, replay'.to = {r} PROVE r = s
      BY <2>2, <2>5
    <2> QED
      BY <2>2, <2>3, <2>4, <2>5 DEF ReplayInv, Keeps, Ids
  <1>2. ASSUME NEW s \in Subscribers, Replay(s) PROVE ReplayInv'
    BY <1>2, ReplayKeeps
  <1>3. ASSUME NEW s \in Subscribers, Subscribed(s) PROVE ReplayInv'
    <2>1. replay'.to = {}
      BY <1>3 DEF Subscribed, Idle
    <2> QED
      BY <2>1 DEF ReplayInv
  <1>4. CASE LoopFree /\ replay' = replay
    <2>1. replay'.to = {}
      BY <1>4 DEF LoopFree
    <2> QED
      BY <2>1 DEF ReplayInv
  <1>5. CASE UNCHANGED vars
    <2>1. UNCHANGED <<events, replay, queue, log, wanted>>
      BY <1>5 DEF vars
    <2>2. Looked' = Looked
      BY <2>1 DEF Looked, Ids
    <2>3. \A s \in Subscribers : OwedSoFar(s)' = OwedSoFar(s)
      BY <2>1, <2>2 DEF OwedSoFar, Replays
    <2> QED
      BY <2>1, <2>2, <2>3 DEF ReplayInv, Keeps, Ids
  <1>6. ASSUME NEW about \in Filters, NEW ts \in Clock .. MaxClock, Emit(about, ts) PROVE ReplayInv'
    BY <1>4, <1>6 DEF Emit
  <1>7. ASSUME NEW s \in Subscribers,
               \/ RunOffer(s) \/ Prepared(s) \/ PrepareFails(s)
               \/ Get(s) \/ Heartbeat(s) \/ Written(s) \/ Disconnect(s)
        PROVE  ReplayInv'
    BY <1>4, <1>7 DEF RunOffer, Prepared, PrepareFails, Get, Heartbeat, Written, Disconnect
  <1> QED
    BY <1>1, <1>2, <1>3, <1>5, <1>6, <1>7 DEF Next

LEMMA ReplayInvNewest == IInv /\ ReplayInv => ReplayIsNewest
  <1> SUFFICES ASSUME IInv, ReplayInv, NEW s \in Subscribers, replay.to = {s}, replay.rest = <<>>
               PROVE  LET owed == {e \in Ids(events) : Replays(s, e)}
                      IN Ids(queue[s]) = {e \in owed : Cardinality({f \in owed : f > e}) < QueueSize}
    BY DEF ReplayIsNewest
  <1> DEFINE owed == {e \in Ids(events) : Replays(s, e)}
  <1>1. /\ queue[s] \in Seq(Nat) /\ Increasing(queue[s]) /\ Len(queue[s]) <= QueueSize
        /\ events \in Seq(Nat) /\ Increasing(events)
    BY TypedSlot DEF IInv, Consistent, DeliveredInOrder, SlotInOrder
  <1>2. Looked = Ids(events)
    BY DEF Looked, Ids
  <1>3. OwedSoFar(s) = owed /\ Keeps(queue[s], OwedSoFar(s))
    BY <1>2 DEF OwedSoFar, ReplayInv
  <1>4. Ids(events) \subseteq Nat /\ IsFiniteSet(Ids(events))
    BY <1>1, IdsCount
  <1>5. owed \in SUBSET Nat /\ IsFiniteSet(owed) /\ Keeps(queue[s], owed)
    <2>1. owed \in SUBSET Ids(events)
      OBVIOUS
    <2> HIDE DEF owed
    <2> QED
      BY <1>3, <1>4, <2>1, FS_Subset
  <1> HIDE DEF owed
  <1>6. Ids(queue[s]) = {e \in owed : Cardinality({f \in owed : f > e}) < QueueSize}
    BY <1>1, <1>5, KeepsNewest
  <1> QED
    BY <1>6 DEF owed

(* subscribe()'s loop leaves exactly the newest QueueSize of the buffered  *)
(* events that match the request and are newer than `since`.               *)
THEOREM ReplaysNewest == Spec => []ReplayIsNewest
  <1>1. Init => IInv /\ ReplayInv
    <2>1. Init => ReplayInv
      BY DEF Init, Idle, ReplayInv
    <2> QED
      BY <2>1, InvInit
  <1>2. IInv /\ ReplayInv /\ [Next]_vars => IInv' /\ ReplayInv'
    BY InvStep, ReplayInvStep
  <1> QED
    BY <1>1, <1>2, ReplayInvNewest, PTL DEF Spec

-----------------------------------------------------------------------------
(* Sessions are kept apart.                                                *)

LEMMA OfferedIds ==
  ASSUME NEW S, NEW q \in Seq(S), NEW e \in S, Len(q) <= QueueSize
  PROVE  Ids(Offered(q, e)) \subseteq Ids(q) \cup {e}
  BY OfferedElements DEF Ids

LEMMA HeadTailIds ==
  ASSUME NEW S, NEW q \in Seq(S), q # <<>>
  PROVE  Head(q) \in Ids(q) /\ Ids(Tail(q)) \subseteq Ids(q)
  <1>1. 1 \in DOMAIN q /\ Head(q) = q[1]
    BY EmptySeq, LenProperties
  <1>2. ASSUME NEW i \in DOMAIN Tail(q)
        PROVE  i + 1 \in DOMAIN q /\ Tail(q)[i] = q[i + 1]
    BY HeadTailProperties, LenProperties
  <1> QED
    BY <1>1, <1>2 DEF Ids

LEMMA AppendIds ==
  ASSUME NEW S, NEW q \in Seq(S), NEW e \in S
  PROVE  Ids(Append(q, e)) = Ids(q) \cup {e}
  <1>1. /\ DOMAIN q = 1 .. Len(q) /\ DOMAIN Append(q, e) = 1 .. Len(q) + 1 /\ Len(q) \in Nat
        /\ \A i \in 1 .. Len(q) : Append(q, e)[i] = q[i]
        /\ Append(q, e)[Len(q) + 1] = e
    BY AppendProperties, LenProperties
  <1> QED
    BY <1>1 DEF Ids

\* What slot s is owed matches what it asked for.
SlotWanted(s) ==
  \A e \in Ids(queue[s]) \cup Ids(pending[s]) : MatchesSession(log[e].session, wanted[s])

LEMMA OnlyWantedStep ==
  ASSUME IInv, OnlyWanted, [Next]_vars
  PROVE  OnlyWanted'
  <1> SUFFICES ASSUME NEW r \in Subscribers
               PROVE  SlotWanted(r)'
    BY DEF OnlyWanted, SlotWanted
  <1>0. /\ SlotWanted(r) /\ SlotConsistent(r)
        /\ queue[r] \in Seq(DOMAIN log) /\ pending[r] \in Seq(DOMAIN log)
        /\ Len(queue[r]) <= QueueSize /\ Len(log) \in Nat /\ DOMAIN log = 1 .. Len(log)
    BY TypedSlot DEF IInv, TypeOK, OnlyWanted, SlotWanted, Consistent
  <1>1. ASSUME NEW about \in Filters, NEW ts \in Clock .. MaxClock, Emit(about, ts)
        PROVE  SlotWanted(r)'
    <2> DEFINE e == Len(log) + 1
    <2>1. /\ \A i \in DOMAIN log : log'[i] = log[i]
          /\ log'[e].session = about
      <3>1. log' = Append(log, [ts |-> ts, session |-> about])
        BY <1>1 DEF Emit
      <3> QED
        BY <3>1, <1>0
    <2>2. queue' = queue /\ wanted' = wanted
      BY <1>1 DEF Emit
    <2>3. Ids(queue[r]) \subseteq DOMAIN log /\ Ids(pending[r]) \subseteq DOMAIN log
      BY <1>0, ElementOfSeq, LenProperties DEF Ids
    <2>4. \/ pending'[r] = pending[r]
          \/ pending'[r] = Append(pending[r], e) /\ MatchesSession(about, wanted[r])
      BY <1>1 DEF Emit
    <2>5. Ids(Append(pending[r], e)) = Ids(pending[r]) \cup {e}
      <3>1. pending[r] \in Seq(Nat) /\ e \in Nat
        BY <1>0, TypedSlot DEF IInv
      <3> HIDE DEF e
      <3> QED
        BY <3>1, AppendIds
    <2>6. Ids(pending'[r]) \subseteq Ids(pending[r]) \cup {e}
      BY <2>4, <2>5
    <2>7. ASSUME NEW d \in Ids(queue[r]) \cup Ids(pending[r])
          PROVE  MatchesSession(log'[d].session, wanted[r])
      BY <1>0, <2>1, <2>3 DEF SlotWanted
    <2> QED
      BY <2>1, <2>2, <2>4, <2>5, <2>7 DEF SlotWanted
  <1>2. ASSUME NEW s \in Subscribers, NEW filter \in Filters, NEW resumes \in BOOLEAN,
               Subscribe(s, filter, resumes)
        PROVE  SlotWanted(r)'
    <2>1. CASE r = s
      <3>1. queue'[r] = <<>> /\ pending'[r] = <<>>
        BY <1>0, <1>2, <2>1 DEF Subscribe, SlotConsistent
      <3> QED
        BY <3>1 DEF SlotWanted, Ids
    <2>2. CASE r # s
      BY <1>0, <1>2, <2>2 DEF Subscribe, SlotWanted, IInv, TypeOK
    <2> QED
      BY <2>1, <2>2
  <1>3. ASSUME NEW s \in Subscribers, Replay(s)
        PROVE  SlotWanted(r)'
    <2> DEFINE e == Head(replay.rest)
    <2>1. UNCHANGED <<log, wanted, pending>>
      BY <1>3 DEF Replay
    <2>2. CASE r = s /\ Replays(s, e)
      <3>1. queue'[r] = Offered(queue[r], e) /\ e \in DOMAIN log
        BY <1>3, <2>2, HeadTailProperties DEF Replay, IInv, TypeOK
      <3>2. Ids(queue'[r]) \subseteq Ids(queue[r]) \cup {e}
        BY <3>1, <1>0, OfferedIds
      <3> QED
        BY <1>0, <2>1, <2>2, <3>2 DEF SlotWanted, Replays
    <2>3. CASE ~(r = s /\ Replays(s, e))
      <3>1. queue'[r] = queue[r]
        BY <1>3, <2>3 DEF Replay, IInv, TypeOK
      <3> QED
        BY <1>0, <2>1, <3>1 DEF SlotWanted
    <2> QED
      BY <2>2, <2>3
  <1>4. ASSUME NEW s \in Subscribers, RunOffer(s)
        PROVE  SlotWanted(r)'
    <2> DEFINE e == Head(pending[s])
    <2>1. UNCHANGED <<log, wanted>>
      BY <1>4 DEF RunOffer
    <2>2. CASE r = s
      <3>1. queue'[r] = Offered(queue[r], e) /\ pending'[r] = Tail(pending[r])
            /\ e \in DOMAIN log
        BY <1>4, <2>2, HeadTailProperties DEF RunOffer, IInv, TypeOK
      <3>2. Ids(queue'[r]) \subseteq Ids(queue[r]) \cup {e}
        BY <3>1, <1>0, OfferedIds
      <3>3. e \in Ids(pending[r]) /\ Ids(pending'[r]) \subseteq Ids(pending[r])
        BY <1>4, <2>2, <3>1, <1>0, HeadTailIds DEF RunOffer
      <3> QED
        BY <1>0, <2>1, <3>2, <3>3 DEF SlotWanted
    <2>3. CASE r # s
      BY <1>0, <1>4, <2>1, <2>3 DEF RunOffer, SlotWanted, IInv, TypeOK
    <2> QED
      BY <2>2, <2>3
  <1>5. ASSUME NEW s \in Subscribers, Get(s)
        PROVE  SlotWanted(r)'
    <2>1. UNCHANGED <<log, wanted, pending>>
      BY <1>5 DEF Get
    <2>2. Ids(queue'[r]) \subseteq Ids(queue[r])
      <3>1. CASE r = s
        BY <3>1, <1>0, <1>5, HeadTailIds DEF Get, IInv, TypeOK
      <3>2. CASE r # s
        BY <3>2, <1>5 DEF Get, IInv, TypeOK
      <3> QED
        BY <3>1, <3>2
    <2> QED
      BY <1>0, <2>1, <2>2 DEF SlotWanted
  <1>6. ASSUME NEW s \in Subscribers, Disconnect(s)
        PROVE  SlotWanted(r)'
    <2>1. UNCHANGED <<log, wanted>>
      BY <1>6 DEF Disconnect
    <2>2. /\ queue'[r] = queue[r] \/ queue'[r] = <<>>
          /\ pending'[r] = pending[r] \/ pending'[r] = <<>>
      BY <1>6 DEF Disconnect, IInv, TypeOK
    <2>3. Ids(<<>>) = {}
      BY DEF Ids
    <2> QED
      BY <1>0, <2>1, <2>2, <2>3 DEF SlotWanted
  <1>7. ASSUME NEW s \in Subscribers,
               Subscribed(s) \/ Prepared(s) \/ PrepareFails(s) \/ Heartbeat(s) \/ Written(s)
        PROVE  SlotWanted(r)'
    BY <1>0, <1>7 DEF Subscribed, Prepared, PrepareFails, Heartbeat, Written, SlotWanted
  <1>8. CASE UNCHANGED vars
    BY <1>0, <1>8 DEF vars, SlotWanted
  <1> QED
    BY <1>1, <1>2, <1>3, <1>4, <1>5, <1>6, <1>7, <1>8 DEF Next

(* A trace request for one session is never owed another session's event.  *)
THEOREM SessionsKeptApart == Spec => []OnlyWanted
  <1>1. Init => OnlyWanted
    BY DEF Init, OnlyWanted, Ids
  <1>2. IInv /\ [Next]_vars => IInv'
    BY InvStep
  <1>3. IInv /\ OnlyWanted /\ [Next]_vars => OnlyWanted'
    BY OnlyWantedStep
  <1> QED
    BY InvInit, <1>1, <1>2, <1>3, PTL DEF Spec

-----------------------------------------------------------------------------
(* The refinement. Owed(s) is the backlog the mapping gives subscription s *)
(* and About the history it gives LossyFanout.                             *)

Owed(s) == IF s \in Open THEN queue[s] \o pending[s] ELSE <<>>
About == [i \in DOMAIN log |-> log[i].session]

LEMMA ConcatTail ==
  ASSUME NEW q \in Seq(Nat), NEW p \in Seq(Nat), q # <<>>
  PROVE  Tail(q \o p) = Tail(q) \o p /\ Head(q \o p) = Head(q) /\ q \o p # <<>>
  <1>1. /\ q \o p \in Seq(Nat) /\ Len(q \o p) = Len(q) + Len(p)
        /\ \A i \in 1 .. Len(q) + Len(p) :
             (q \o p)[i] = IF i <= Len(q) THEN q[i] ELSE p[i - Len(q)]
    BY ConcatProperties
  <1>2. Len(q) \in Nat \ {0} /\ Len(p) \in Nat
    BY EmptySeq
  <1>3. q \o p # <<>> /\ Head(q \o p) = Head(q)
    BY <1>1, <1>2
  <1>4. /\ Tail(q) \in Seq(Nat) /\ Len(Tail(q)) = Len(q) - 1
        /\ \A i \in 1 .. Len(Tail(q)) : Tail(q)[i] = q[i + 1]
    BY HeadTailProperties
  <1>5. /\ Tail(q) \o p \in Seq(Nat) /\ Len(Tail(q) \o p) = Len(q) - 1 + Len(p)
        /\ \A i \in 1 .. Len(q) - 1 + Len(p) :
             (Tail(q) \o p)[i] = IF i <= Len(q) - 1 THEN q[i + 1] ELSE p[i - (Len(q) - 1)]
    BY <1>2, <1>4, ConcatProperties
  <1>6. /\ Tail(q \o p) \in Seq(Nat) /\ Len(Tail(q \o p)) = Len(q) + Len(p) - 1
        /\ \A i \in 1 .. Len(q) + Len(p) - 1 : Tail(q \o p)[i] = (q \o p)[i + 1]
    BY <1>1, <1>3, HeadTailProperties
  <1>7. \A i \in 1 .. Len(q) + Len(p) - 1 : Tail(q \o p)[i] = (Tail(q) \o p)[i]
    BY <1>1, <1>2, <1>5, <1>6
  <1>8. Tail(q \o p) = Tail(q) \o p
    BY <1>2, <1>5, <1>6, <1>7, SeqEqual
  <1> QED
    BY <1>3, <1>8

LEMMA AppendToConcat ==
  ASSUME NEW q \in Seq(Nat), NEW p \in Seq(Nat), NEW e \in Nat
  PROVE  q \o Append(p, e) = Append(q \o p, e)
  <1>1. <<e>> \in Seq(Nat) /\ q \o p \in Seq(Nat)
    BY ConcatProperties
  <1>2. Append(p, e) = p \o <<e>> /\ Append(q \o p, e) = (q \o p) \o <<e>>
    BY <1>1, AppendIsConcat
  <1> QED
    BY <1>1, <1>2, ConcatAssociative

\* Delivering the oldest scheduled event either leaves what is owed as it
\* is or, when the queue is full, loses the oldest of it.
LEMMA OfferOwed ==
  ASSUME NEW q \in Seq(Nat), NEW p \in Seq(Nat), p # <<>>, Len(q) <= QueueSize
  PROVE  /\ Len(q) < QueueSize => Offered(q, Head(p)) \o Tail(p) = q \o p
         /\ Len(q) = QueueSize => /\ Offered(q, Head(p)) \o Tail(p) = Tail(q \o p)
                                  /\ Len(q \o p) > QueueSize
  <1>1. PICK e \in Nat, r \in Seq(Nat) : p = <<e>> \o r /\ e = Head(p) /\ r = Tail(p)
    <2>1. Head(p) \in Nat /\ Tail(p) \in Seq(Nat) /\ Len(Tail(p)) = Len(p) - 1
          /\ \A i \in 1 .. Len(Tail(p)) : Tail(p)[i] = p[i + 1]
      BY HeadTailProperties
    <2>2. <<Head(p)>> \in Seq(Nat) /\ Len(<<Head(p)>>) = 1 /\ <<Head(p)>>[1] = p[1]
      BY <2>1
    <2>3. Len(p) \in Nat \ {0}
      BY EmptySeq
    <2>4. /\ <<Head(p)>> \o Tail(p) \in Seq(Nat)
          /\ Len(<<Head(p)>> \o Tail(p)) = Len(p)
          /\ \A i \in 1 .. Len(p) : (<<Head(p)>> \o Tail(p))[i] = p[i]
      BY <2>1, <2>2, <2>3, ConcatProperties
    <2>5. p = <<Head(p)>> \o Tail(p)
      BY <2>4, SeqEqual
    <2> QED
      BY <2>1, <2>5
  <1>2. <<e>> \in Seq(Nat)
    BY <1>1
  <1>3. ASSUME NEW t \in Seq(Nat)
        PROVE  Append(t, e) \o r = t \o p
    BY <1>1, <1>2, AppendIsConcat, ConcatAssociative, SMTT(30)
  <1>4. CASE Len(q) < QueueSize
    BY <1>1, <1>3, <1>4, ConstantsOK DEF Offered
  <1>5. CASE Len(q) = QueueSize
    <2>1. q # <<>> /\ Tail(q) \in Seq(Nat)
      BY <1>5, ConstantsOK, HeadTailProperties
    <2>2. Offered(q, e) \o r = Tail(q) \o p
      <3>1. ~(Len(q) < QueueSize)
        BY <1>5, ConstantsOK
      <3>2. Offered(q, e) = Append(Tail(q), e)
        BY <3>1 DEF Offered
      <3> QED
        BY <1>3, <2>1, <3>2
    <2>3. Tail(q \o p) = Tail(q) \o p
      BY <2>1, ConcatTail
    <2>4. Len(q \o p) = Len(q) + Len(p) /\ Len(p) \in Nat \ {0}
      BY ConcatProperties, EmptySeq
    <2>5. ~(Len(q) < QueueSize) /\ Len(q \o p) > QueueSize
      BY <1>5, <2>4, ConstantsOK
    <2> QED
      BY <1>1, <2>2, <2>3, <2>5
  <1> QED
    BY <1>4, <1>5, ConstantsOK, LenProperties

\* A step of slot s that frames the others changes nothing they are owed.
LEMMA OthersOwed ==
  ASSUME NEW s \in Subscribers, \A r \in Subscribers \ {s} : Framed(r)
  PROVE  \A r \in Subscribers \ {s} : (r \in Open' <=> r \in Open) /\ Owed(r)' = Owed(r)
  BY DEF Framed, Open, Owed

(* The step of the emitter that each action of LossyFanout stands for.     *)
LEMMA EmitPublishes ==
  ASSUME IInv, NEW about \in Filters, NEW ts \in Clock .. MaxClock, Emit(about, ts)
  PROVE  Fanout!Publish(about)
  <1> DEFINE e == Len(log) + 1
  <1>1. Open = subscribers /\ UNCHANGED Open
    BY DEF Emit, LoopFree, Open
  <1>2. About' = Append(About, about) /\ Len(About) = Len(log)
    <2>1. /\ Len(log) \in Nat /\ DOMAIN log = 1 .. Len(log)
          /\ \A i \in DOMAIN log : log[i] \in [ts : 1 .. MaxClock, session : Filters]
      <3>1. log \in Seq([ts : 1 .. MaxClock, session : Filters])
        BY DEF IInv, TypeOK
      <3> QED
        BY <3>1, LenProperties, ElementOfSeq
    <2>2. About \in Seq(Filters) /\ Len(About) = Len(log)
      BY <2>1 DEF About
    <2>3. /\ DOMAIN log' = 1 .. e
          /\ \A i \in DOMAIN log : log'[i] = log[i]
          /\ log'[e].session = about
      <3>1. log' = Append(log, [ts |-> ts, session |-> about])
        BY DEF Emit
      <3> QED
        BY <3>1, <2>1
    <2>4. About' = [i \in 1 .. e |-> log'[i].session]
      BY <2>3 DEF About
    <2>5. About' \in Seq(Filters) /\ Len(About') = e
      BY <2>1, <2>3, <2>4
    <2>6. /\ Append(About, about) \in Seq(Filters) /\ Len(Append(About, about)) = e
          /\ \A i \in 1 .. Len(About) : Append(About, about)[i] = About[i]
          /\ Append(About, about)[e] = about
      BY <2>2, AppendProperties
    <2>7. \A i \in 1 .. e : About'[i] = Append(About, about)[i]
      BY <2>1, <2>2, <2>3, <2>4, <2>6 DEF About
    <2>8. About' = Append(About, about)
      BY <2>5, <2>6, <2>7, SeqEqual
    <2> QED
      BY <2>2, <2>8
  <1>3. ASSUME NEW s \in Subscribers
        PROVE  Owed(s)' = IF s \in Open /\ Fanout!Wants(wanted[s], about)
                          THEN Append(Owed(s), e) ELSE Owed(s)
    <2>1. queue[s] \in Seq(Nat) /\ pending[s] \in Seq(Nat) /\ e \in Nat
      BY TypedSlot DEF IInv
    <2>2. queue[s] \o Append(pending[s], e) = Append(queue[s] \o pending[s], e)
      BY <2>1, AppendToConcat
    <2>3. MatchesSession(about, wanted[s]) <=> Fanout!Wants(wanted[s], about)
      BY DEF MatchesSession, Fanout!Wants
    <2>4. /\ pending'[s] = IF s \in subscribers /\ MatchesSession(about, wanted[s])
                           THEN Append(pending[s], e) ELSE pending[s]
          /\ queue'[s] = queue[s]
      BY DEF Emit
    <2> QED
      BY <1>1, <2>2, <2>3, <2>4 DEF Owed
  <1>4. UNCHANGED <<wanted, last>>
    BY DEF Emit
  <1> HIDE DEF Owed
  <1>5. [s \in Subscribers |-> Owed(s)]' =
          [s \in Subscribers |-> IF s \in Open /\ Fanout!Wants(wanted[s], about)
                                 THEN Append(Owed(s), e) ELSE Owed(s)]
    BY <1>3
  <1> QED
    BY <1>1, <1>2, <1>3, <1>4, <1>5 DEF Fanout!Publish, Owed, About

LEMMA SubscribeAsks ==
  ASSUME IInv, NEW s \in Subscribers, NEW filter \in Filters, NEW resumes \in BOOLEAN,
         Subscribe(s, filter, resumes)
  PROVE  Fanout!Ask(s)
  <1>1. \A r \in Subscribers \ {s} : (r \in Open' <=> r \in Open) /\ Owed(r)' = Owed(r)
    <2>1. \A r \in Subscribers \ {s} : Framed(r)
      BY DEF Subscribe, LoopFree, Framed, IInv, TypeOK
    <2> QED
      BY <2>1, OthersOwed
  <1>2. s \notin Open /\ s \notin Open'
    BY DEF Open, Subscribe, IInv, Consistent, SlotConsistent
  <1>3. Open \subseteq Subscribers /\ Open' \subseteq Subscribers
    BY DEF Open, Subscribe, IInv, TypeOK
  <1>4. Open' = Open /\ \A r \in Subscribers : Owed(r)' = Owed(r)
    <2>1. Open' = Open
      BY <1>1, <1>2, <1>3
    <2>2. Owed(s)' = Owed(s)
      BY <1>2 DEF Owed
    <2> QED
      BY <1>1, <2>1, <2>2
  <1>5. last' = [last EXCEPT ![s] = IF resumes THEN last[s] ELSE 0]
    BY DEF Subscribe
  <1> QED
    BY <1>2, <1>4, <1>5 DEF Fanout!Ask, Subscribe, Owed, Filters

LEMMA SubscribedAttaches ==
  ASSUME IInv, OnlyWanted, NEW s \in Subscribers, Subscribed(s)
  PROVE  Fanout!Attach(s)
  <1>1. \A r \in Subscribers \ {s} : (r \in Open' <=> r \in Open) /\ Owed(r)' = Owed(r)
    <2>1. \A r \in Subscribers \ {s} : Framed(r)
      BY DEF Subscribed, Idle, Framed, IInv, TypeOK
    <2> QED
      BY <2>1, OthersOwed
  <1>2. s \notin Open /\ Open' = Open \cup {s}
    <2>1. replay.to = {s} /\ replay'.to = {} /\ subscribers' = subscribers
      BY DEF Subscribed, Idle
    <2>2. s \in subscribers
      BY <2>1 DEF IInv, Consistent, SlotConsistent
    <2>3. \A r : {r} # {} /\ ({s} = {r} => s = r)
      OBVIOUS
    <2> QED
      BY <2>1, <2>2, <2>3 DEF Open
  <1>3. queue[s] \in Seq(Nat) /\ pending[s] = <<>> /\ queue[s] \o <<>> = queue[s]
    BY TypedSlot, ConcatEmptySeq DEF Subscribed, IInv, Consistent, SlotConsistent
  <1>4. Owed(s)' = queue[s]
    BY <1>2, <1>3 DEF Owed, Subscribed
  <1>5. Increasing(queue[s]) /\ Len(queue[s]) <= QueueSize
        /\ \A i \in DOMAIN queue[s] : last[s] < queue[s][i]
    BY PrecedesOne DEF IInv, TypeOK, DeliveredInOrder, SlotInOrder
  <1>6. ASSUME NEW i \in DOMAIN queue[s]
        PROVE  queue[s][i] \in DOMAIN log /\ Fanout!Wants(wanted[s], About[queue[s][i]])
    <2>1. queue[s][i] \in DOMAIN log
      BY ElementOfSeq, LenProperties DEF IInv, TypeOK
    <2>2. MatchesSession(log[queue[s][i]].session, wanted[s])
      BY DEF OnlyWanted, Ids
    <2> QED
      BY <2>1, <2>2 DEF MatchesSession, Fanout!Wants, About
  <1> QED
    BY <1>1, <1>2, <1>4, <1>5, <1>6 DEF Fanout!Attach, Fanout!Increasing, Increasing,
       Owed, About, Subscribed

LEMMA OfferKeepsOrLoses ==
  ASSUME IInv, NEW s \in Subscribers, RunOffer(s)
  PROVE  Fanout!LoseOldest(s) \/ UNCHANGED Fanout!vars
  <1>1. \A r \in Subscribers \ {s} : (r \in Open' <=> r \in Open) /\ Owed(r)' = Owed(r)
    <2>1. \A r \in Subscribers \ {s} : Framed(r)
      BY DEF RunOffer, Framed, IInv, TypeOK
    <2> QED
      BY <2>1, OthersOwed
  <1>2. s \in Open /\ Open' = Open
    BY DEF Open, RunOffer, LoopFree, IInv, Consistent, SlotConsistent
  <1>3. /\ queue[s] \in Seq(Nat) /\ pending[s] \in Seq(Nat) /\ pending[s] # <<>>
        /\ Len(queue[s]) <= QueueSize
    BY TypedSlot DEF RunOffer, IInv
  <1>4. queue'[s] = Offered(queue[s], Head(pending[s])) /\ pending'[s] = Tail(pending[s])
    BY DEF RunOffer, IInv, TypeOK
  <1>5. Owed(s) = queue[s] \o pending[s] /\ Owed(s)' = queue'[s] \o pending'[s]
    BY <1>2 DEF Owed
  <1>6. UNCHANGED <<log, wanted, last>>
    BY DEF RunOffer
  <1>7. CASE Len(queue[s]) < QueueSize
    <2>1. Owed(s)' = Owed(s)
      BY <1>3, <1>4, <1>5, <1>7, OfferOwed
    <2> QED
      BY <1>1, <1>2, <1>6, <2>1 DEF Fanout!vars, Owed
  <1>8. CASE Len(queue[s]) = QueueSize
    <2>1. Owed(s)' = Tail(Owed(s)) /\ Len(Owed(s)) > QueueSize
      BY <1>3, <1>4, <1>5, <1>8, OfferOwed
    <2> QED
      BY <1>1, <1>2, <1>6, <2>1 DEF Fanout!LoseOldest, Owed
  <1> QED
    BY <1>3, <1>7, <1>8, ConstantsOK, LenProperties

LEMMA GetTakes ==
  ASSUME IInv, NEW s \in Subscribers, Get(s)
  PROVE  Fanout!Take(s)
  <1>1. \A r \in Subscribers \ {s} : (r \in Open' <=> r \in Open) /\ Owed(r)' = Owed(r)
    <2>1. \A r \in Subscribers \ {s} : Framed(r)
      BY DEF Get, Framed, IInv, TypeOK
    <2> QED
      BY <2>1, OthersOwed
  <1>2. s \in Open /\ Open' = Open
    BY DEF Open, Get, LoopFree, IInv, Consistent, SlotConsistent
  <1>3. queue[s] \in Seq(Nat) /\ pending[s] \in Seq(Nat) /\ queue[s] # <<>>
    BY TypedSlot DEF Get, IInv
  <1>4. queue'[s] = Tail(queue[s]) /\ pending'[s] = pending[s]
    BY DEF Get, IInv, TypeOK
  <1>5. Owed(s) = queue[s] \o pending[s] /\ Owed(s)' = queue'[s] \o pending'[s]
    BY <1>2 DEF Owed
  <1>6. Owed(s)' = Tail(Owed(s)) /\ Head(Owed(s)) = Head(queue[s]) /\ Owed(s) # <<>>
    <2>1. /\ Tail(queue[s] \o pending[s]) = Tail(queue[s]) \o pending[s]
          /\ Head(queue[s] \o pending[s]) = Head(queue[s])
          /\ queue[s] \o pending[s] # <<>>
      BY <1>3, ConcatTail
    <2>2. Owed(s)' = Tail(queue[s]) \o pending[s]
      BY <1>4, <1>5
    <2> QED
      BY <1>5, <2>1, <2>2
  <1>7. UNCHANGED <<log, wanted>> /\ last' = [last EXCEPT ![s] = Head(queue[s])]
    BY DEF Get
  <1> QED
    BY <1>1, <1>2, <1>6, <1>7 DEF Fanout!Take, Owed

LEMMA DisconnectDetaches ==
  ASSUME IInv, NEW s \in Subscribers, Disconnect(s)
  PROVE  Fanout!Detach(s)
  <1>1. \A r \in Subscribers \ {s} : (r \in Open' <=> r \in Open) /\ Owed(r)' = Owed(r)
    <2>1. \A r \in Subscribers \ {s} : Framed(r)
      BY DEF Disconnect, Framed, IInv, TypeOK
    <2> QED
      BY <2>1, OthersOwed
  <1>2. s \in Open /\ Open' = Open \ {s}
    BY DEF Open, Disconnect, LoopFree, IInv, Consistent, SlotConsistent
  <1>3. Owed(s)' = <<>> /\ UNCHANGED <<log, wanted, last>>
    BY <1>2 DEF Owed, Disconnect
  <1> QED
    BY <1>1, <1>2, <1>3 DEF Fanout!Detach, Owed

LEMMA OthersStutter ==
  ASSUME IInv, NEW s \in Subscribers,
         Replay(s) \/ Prepared(s) \/ PrepareFails(s) \/ Heartbeat(s) \/ Written(s)
  PROVE  UNCHANGED Fanout!vars
  <1>1. UNCHANGED <<log, wanted, last>> /\ Open' = Open
    <2>1. replay'.to = replay.to /\ UNCHANGED <<log, wanted, last, subscribers>>
      BY DEF Replay, Prepared, PrepareFails, Heartbeat, Written, IInv, TypeOK
    <2> QED
      BY <2>1 DEF Open
  <1>2. ASSUME NEW r \in Subscribers
        PROVE  Owed(r)' = Owed(r)
    BY <1>1 DEF Replay, Prepared, PrepareFails, Heartbeat, Written, Owed, Open, IInv, TypeOK
  <1> QED
    BY <1>1, <1>2 DEF Fanout!vars, Owed

(* Whatever the sizes of buffer and queues and the number of readers, the  *)
(* emitter delivers in order, at most once, and loses only what a reader   *)
(* more than a queue behind is owed first.                                 *)
THEOREM ImplementsLossyFanout == Spec => FanoutSpec
  <1>1. Init => Fanout!Init
    BY DEF Init, Fanout!Init, Open
  <1>2. IInv /\ OnlyWanted /\ [Next]_vars => [Fanout!Next]_(Fanout!vars)
    <2> SUFFICES ASSUME IInv, OnlyWanted, [Next]_vars
                 PROVE  Fanout!Next \/ UNCHANGED Fanout!vars
      OBVIOUS
    <2>1. CASE UNCHANGED vars
      BY <2>1 DEF vars, Fanout!vars, Open
    <2>2. CASE Next
      BY <2>2, EmitPublishes, SubscribeAsks, SubscribedAttaches, OfferKeepsOrLoses,
         GetTakes, DisconnectDetaches, OthersStutter DEF Next, Fanout!Next, Filters
    <2> QED
      BY <2>1, <2>2
  <1>3. IInv /\ [Next]_vars => IInv'
    BY InvStep
  <1> QED
    BY <1>1, <1>2, <1>3, InvInit, SessionsKeptApart, PTL DEF Spec, FanoutSpec, Fanout!Spec
=============================================================================
