---------------------------- MODULE TraceEmitter ----------------------------
(***************************************************************************)
(* sw/runtime/server/trace_emitter.py and the /api/trace handler of        *)
(* routes_http.py, as the daemon runs them: every emit() is called by a    *)
(* coroutine on the event-loop thread, so emit, subscribe, unsubscribe and *)
(* a deferred _offer each run without interruption. TraceThreads models    *)
(* sessions that emit from a worker thread.                                *)
(*                                                                         *)
(* An event is its index in `log`, a history of everything emitted. A      *)
(* subscriber is one slot for /api/trace requests: a client that           *)
(* reconnects reuses its slot with a fresh queue.                          *)
(***************************************************************************)
EXTENDS Naturals, Sequences, FiniteSets

CONSTANTS Subscribers,  \* trace request slots
          Sessions,     \* chat session ids
          AnySession,   \* session_id = None, of an event or of a request
          MaxEvents,    \* max_events: length of the replay buffer (2048)
          QueueSize,    \* queue_size: length of a subscriber's queue (512)
          MaxEmits,     \* bound of the model: events emitted in a behaviour
          MaxClock      \* bound of the model: readings of the wall clock

ASSUME ConstantsOK ==
  /\ AnySession \notin Sessions
  /\ MaxEvents \in Nat \ {0}
  /\ QueueSize \in Nat \ {0}
  /\ MaxEmits \in Nat
  /\ MaxClock \in Nat \ {0}

VARIABLES log,          \* history: ts and session of every event emitted
          events,       \* TraceEmitter._events, the replay buffer
          subscribers,  \* TraceEmitter._subscribers
          wanted,       \* _Subscriber.session_id
          queue,        \* _Subscriber.queue
          pending,      \* _offer calls handed to call_soon_threadsafe, in order
          handler,      \* where the request's trace() coroutine is
          replay,       \* what subscribe() still has to replay, and to whom
          last          \* history: the last event each client received (0: none)

vars == <<log, events, subscribers, wanted, queue, pending, handler, replay, last>>

Filters == Sessions \cup {AnySession}
EventIds == 1 .. MaxEmits
Idle == [to |-> {}, since |-> 0, rest |-> <<>>]

LoopFree == replay.to = {}

Init ==
  /\ log = <<>>
  /\ events = <<>>
  /\ subscribers = {}
  /\ wanted = [s \in Subscribers |-> AnySession]
  /\ queue = [s \in Subscribers |-> <<>>]
  /\ pending = [s \in Subscribers |-> <<>>]
  /\ handler = [s \in Subscribers |-> "closed"]
  /\ replay = Idle
  /\ last = [s \in Subscribers |-> 0]

-----------------------------------------------------------------------------
MatchesSession_Loose(about, filter) == AnySession \in {about, filter} \/ about = filter

MatchesSession(about, filter) == filter = AnySession \/ about = filter

\* deque(maxlen=max_events).append
Remembered(buffer, e) ==
  IF Len(buffer) < MaxEvents THEN Append(buffer, e) ELSE Append(Tail(buffer), e)

Offered_Front(q, e) == <<e>> \o (IF Len(q) < QueueSize THEN q ELSE Tail(q))
Offered_KeepOldest(q, e) == IF Len(q) < QueueSize THEN Append(q, e) ELSE q

\* _offer: a full queue loses its oldest event to make room for the new one.
Offered(q, e) ==
  IF Len(q) < QueueSize THEN Append(q, e) ELSE Append(Tail(q), e)

\* A client resumes with the ts of the last event it received; 0 is since=None.
Since(s, resumes) == IF resumes /\ last[s] # 0 THEN log[last[s]].ts ELSE 0

\* time.time() of two events may be equal and is taken not to step back.
Clock == IF log = <<>> THEN 1 ELSE log[Len(log)].ts

Emit(about, ts) ==
  /\ LoopFree
  /\ Len(log) < MaxEmits
  /\ log' = Append(log, [ts |-> ts, session |-> about])
  /\ events' = Remembered(events, Len(log) + 1)
  /\ pending' = [s \in Subscribers |->
                   IF s \in subscribers /\ MatchesSession(about, wanted[s])
                   THEN Append(pending[s], Len(log) + 1)
                   ELSE pending[s]]
  /\ UNCHANGED <<subscribers, wanted, queue, handler, replay, last>>

\* subscribe() registers a fresh queue, then takes the buffer to replay.
Subscribe(s, filter, resumes) ==
  /\ LoopFree
  /\ handler[s] = "closed"
  /\ subscribers' = subscribers \cup {s}
  /\ wanted' = [wanted EXCEPT ![s] = filter]
  /\ handler' = [handler EXCEPT ![s] = "subscribing"]
  /\ replay' = [to |-> {s}, since |-> Since(s, resumes), rest |-> events]
  /\ last' = [last EXCEPT ![s] = IF resumes THEN @ ELSE 0]
  /\ UNCHANGED <<log, events, queue, pending>>

Replays_Inclusive(s, e) ==
  /\ log[e].ts >= replay.since
  /\ MatchesSession(log[e].session, wanted[s])

Replays_AnySession(s, e) == log[e].ts > replay.since

\* One round of subscribe()'s loop: skip what is not newer than `since`.
Replays(s, e) ==
  /\ log[e].ts > replay.since
  /\ MatchesSession(log[e].session, wanted[s])

Replay(s) ==
  /\ replay.to = {s}
  /\ replay.rest # <<>>
  /\ replay' = [replay EXCEPT !.rest = Tail(@)]
  /\ LET e == Head(replay.rest)
     IN queue' = IF Replays(s, e)
                 THEN [queue EXCEPT ![s] = Offered(@, e)] ELSE queue
  /\ UNCHANGED <<log, events, subscribers, wanted, pending, handler, last>>

\* subscribe() returns; trace() awaits response.prepare().
Subscribed(s) ==
  /\ replay.to = {s}
  /\ replay.rest = <<>>
  /\ replay' = Idle
  /\ handler' = [handler EXCEPT ![s] = "preparing"]
  /\ UNCHANGED <<log, events, subscribers, wanted, queue, pending, last>>

RunOffer_WhenRead(s) ==
  /\ LoopFree
  /\ handler[s] = "waiting"
  /\ pending[s] # <<>>
  /\ queue' = [queue EXCEPT ![s] = Offered(@, Head(pending[s]))]
  /\ pending' = [pending EXCEPT ![s] = Tail(@)]
  /\ UNCHANGED <<log, events, subscribers, wanted, handler, replay, last>>

\* The loop runs the oldest _offer scheduled for s.
RunOffer(s) ==
  /\ LoopFree
  /\ pending[s] # <<>>
  /\ queue' = [queue EXCEPT ![s] = Offered(@, Head(pending[s]))]
  /\ pending' = [pending EXCEPT ![s] = Tail(@)]
  /\ UNCHANGED <<log, events, subscribers, wanted, handler, replay, last>>

Prepared(s) ==
  /\ LoopFree
  /\ handler[s] = "preparing"
  /\ handler' = [handler EXCEPT ![s] = "waiting"]
  /\ UNCHANGED <<log, events, subscribers, wanted, queue, pending, replay, last>>

\* prepare() is outside trace()'s try: when it raises, nobody unsubscribes.
PrepareFails(s) ==
  /\ LoopFree
  /\ handler[s] = "preparing"
  /\ handler' = [handler EXCEPT ![s] = "leaked"]
  /\ UNCHANGED <<log, events, subscribers, wanted, queue, pending, replay, last>>

Get_WhenFull(s) ==
  /\ LoopFree
  /\ handler[s] = "waiting"
  /\ Len(queue[s]) = QueueSize
  /\ last' = [last EXCEPT ![s] = Head(queue[s])]
  /\ queue' = [queue EXCEPT ![s] = Tail(@)]
  /\ handler' = [handler EXCEPT ![s] = "writing"]
  /\ UNCHANGED <<log, events, subscribers, wanted, pending, replay>>

\* queue.get() returns an event and trace() starts to write it.
Get(s) ==
  /\ LoopFree
  /\ handler[s] = "waiting"
  /\ queue[s] # <<>>
  /\ last' = [last EXCEPT ![s] = Head(queue[s])]
  /\ queue' = [queue EXCEPT ![s] = Tail(@)]
  /\ handler' = [handler EXCEPT ![s] = "writing"]
  /\ UNCHANGED <<log, events, subscribers, wanted, pending, replay>>

\* wait_for(queue.get(), 5.0) times out: a heartbeat is written instead.
Heartbeat(s) ==
  /\ LoopFree
  /\ handler[s] = "waiting"
  /\ queue[s] = <<>>
  /\ handler' = [handler EXCEPT ![s] = "writing"]
  /\ UNCHANGED <<log, events, subscribers, wanted, queue, pending, replay, last>>

Written(s) ==
  /\ LoopFree
  /\ handler[s] = "writing"
  /\ handler' = [handler EXCEPT ![s] = "waiting"]
  /\ UNCHANGED <<log, events, subscribers, wanted, queue, pending, replay, last>>

Disconnect_StaysSubscribed(s) ==
  /\ LoopFree
  /\ handler[s] \in {"waiting", "writing"}
  /\ handler' = [handler EXCEPT ![s] = "closed"]
  /\ queue' = [queue EXCEPT ![s] = <<>>]
  /\ UNCHANGED <<log, events, subscribers, wanted, pending, replay, last>>

\* Cancelled, reset or broken pipe at an await of the loop: `finally`
\* unsubscribes. Offers still scheduled fill a queue that nobody holds.
Disconnect(s) ==
  /\ LoopFree
  /\ handler[s] \in {"waiting", "writing"}
  /\ handler' = [handler EXCEPT ![s] = "closed"]
  /\ subscribers' = subscribers \ {s}
  /\ queue' = [queue EXCEPT ![s] = <<>>]
  /\ pending' = [pending EXCEPT ![s] = <<>>]
  /\ UNCHANGED <<log, events, wanted, replay, last>>

Next ==
  \/ \E about \in Filters, ts \in Clock .. MaxClock : Emit(about, ts)
  \/ \E s \in Subscribers, filter \in Filters, resumes \in BOOLEAN :
       Subscribe(s, filter, resumes)
  \/ \E s \in Subscribers :
       \/ Replay(s) \/ Subscribed(s)
       \/ RunOffer(s)
       \/ Prepared(s) \/ PrepareFails(s)
       \/ Get(s) \/ Heartbeat(s) \/ Written(s) \/ Disconnect(s)

Spec == Init /\ [][Next]_vars

(* asyncio runs ready callbacks in the order they became ready, so none is *)
(* passed over for ever: a subscribe() in progress, a scheduled _offer, a  *)
(* coroutine whose queue.get() can return. Clients owe nothing: a write    *)
(* may never complete, a connection may never close.                       *)
Fairness ==
  \A s \in Subscribers :
    /\ WF_vars(Replay(s)) /\ WF_vars(Subscribed(s))
    /\ SF_vars(RunOffer(s)) /\ SF_vars(Get(s))

FairSpec == Spec /\ Fairness

-----------------------------------------------------------------------------
Ids(q) == {q[i] : i \in DOMAIN q}

Increasing(q) == \A i, j \in DOMAIN q : i < j => q[i] < q[j]

Precedes(q, r) == \A i \in DOMAIN q, j \in DOMAIN r : q[i] < r[j]

(* Types, and the sizes the emitter promises: a reader that stops reading  *)
(* costs at most QueueSize events, the replay buffer at most MaxEvents.    *)
TypeOK ==
  /\ log \in Seq([ts : 1 .. MaxClock, session : Filters])
  /\ Len(log) <= MaxEmits
  /\ events \in Seq(DOMAIN log) /\ Len(events) <= MaxEvents
  /\ subscribers \subseteq Subscribers
  /\ wanted \in [Subscribers -> Filters]
  /\ queue \in [Subscribers -> Seq(DOMAIN log)]
  /\ \A s \in Subscribers : Len(queue[s]) <= QueueSize
  /\ pending \in [Subscribers -> Seq(DOMAIN log)]
  /\ handler \in [Subscribers -> {"closed", "subscribing", "preparing",
                                  "leaked", "waiting", "writing"}]
  /\ replay \in [to : {{}} \cup {{s} : s \in Subscribers},
                 since : 0 .. MaxClock, rest : Seq(DOMAIN log)]
  /\ last \in [Subscribers -> {0} \cup DOMAIN log]

(* What a reader received, has queued and is about to be offered is one    *)
(* sequence in emission order without repetition: replay and live delivery *)
(* never overlap, though _offer runs later than the emit that scheduled it.*)
SlotInOrder(s) ==
  /\ Increasing(queue[s])
  /\ Increasing(pending[s])
  /\ Precedes(queue[s], pending[s])
  /\ Precedes(<<last[s]>>, queue[s])
  /\ Precedes(<<last[s]>>, pending[s])

DeliveredInOrder == \A s \in Subscribers : SlotInOrder(s)

(* subscribe()'s loop of lossy offers leaves exactly the newest QueueSize  *)
(* of the buffered events that match the request and are newer than since. *)
ReplayIsNewest ==
  \A s \in Subscribers :
    replay.to = {s} /\ replay.rest = <<>> =>
      LET owed == {e \in Ids(events) : Replays(s, e)}
      IN Ids(queue[s]) = {e \in owed : Cardinality({f \in owed : f > e}) < QueueSize}

(* A client that reconnects with the ts of the last event it received is   *)
(* never handed that event, or an earlier one, again.                      *)
NeverHandedTwice ==
  [][\A s \in Subscribers : last'[s] \notin {0, last[s]} => last'[s] > last[s]]_vars

(* A scheduled _offer is not held up by readers that stall: it runs, or    *)
(* its subscription ends, whatever the clients do.                         *)
OffersRun ==
  \A s \in Subscribers, e \in EventIds :
    e \in Ids(pending[s]) ~> e \notin Ids(pending[s])

(* A queued event does not rot while its handler waits for one: it is      *)
(* taken, displaced by newer ones, or its handler is busy writing or gone. *)
QueuedIsTaken ==
  \A s \in Subscribers, e \in EventIds :
    e \in Ids(queue[s]) /\ handler[s] = "waiting"
      ~> e \notin Ids(queue[s]) \/ handler[s] # "waiting"

(* A request for one session is owed no other session's events.            *)
OnlyWanted ==
  \A s \in Subscribers : \A e \in Ids(queue[s]) \cup Ids(pending[s]) :
    MatchesSession(log[e].session, wanted[s])

(* Why the order holds. The buffer is in emission order and the clock does *)
(* not step back, so `since` cuts the buffer where the client stopped      *)
(* reading; nothing is scheduled for a request that is still replaying,    *)
(* so the rest of its replay comes after what it has queued and before     *)
(* what emit will schedule; a closed request has nothing left over.        *)
SlotConsistent(s) ==
  /\ s \in subscribers <=> handler[s] # "closed"
  /\ replay.to = {s} <=> handler[s] = "subscribing"
  /\ s \notin subscribers => queue[s] = <<>> /\ pending[s] = <<>>
  /\ replay.to = {s} =>
       /\ pending[s] = <<>>
       /\ Increasing(replay.rest)
       /\ Precedes(queue[s], replay.rest)
       /\ \A i \in DOMAIN replay.rest :
            log[replay.rest[i]].ts > replay.since => replay.rest[i] > last[s]

Consistent ==
  /\ \A i, j \in DOMAIN log : i <= j => log[i].ts <= log[j].ts
  /\ Increasing(events)
  /\ \A s \in Subscribers : SlotConsistent(s)

-----------------------------------------------------------------------------
(* The emitter keeps LossyFanout's promise. A subscription is open once    *)
(* subscribe() returned; it is owed what is queued, then what is scheduled.*)
Open == {s \in subscribers : replay.to # {s}}

Fanout == INSTANCE LossyFanout WITH
  Capacity <- QueueSize,
  history <- [i \in DOMAIN log |-> log[i].session],
  attached <- Open,
  backlog <- [s \in Subscribers |-> IF s \in Open THEN queue[s] \o pending[s] ELSE <<>>]

FanoutSpec == Fanout!Spec
=============================================================================
