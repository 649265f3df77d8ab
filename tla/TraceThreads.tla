---------------------------- MODULE TraceThreads ----------------------------
(***************************************************************************)
(* TraceEmitter.emit called off the event loop: a session that is handed   *)
(* trace_emitter (routes_ws.py, _invoke_generate) emits from the worker    *)
(* thread that runs its generator, while the loop thread subscribes and    *)
(* unsubscribes clients and emits itself. emit() is split where threads    *)
(* can switch: it appends to the buffer, copies the list of subscribers,   *)
(* and schedules an _offer for each. Timestamps, session filters and the   *)
(* bound of a client's queue are those of TraceEmitter and left out here.  *)
(***************************************************************************)
EXTENDS Naturals, Sequences, FiniteSets

CONSTANTS Subscribers,
          Workers,      \* worker threads
          Loop,         \* the event-loop thread
          MaxEvents,    \* length of the replay buffer
          MaxEmits      \* bound of the model: events emitted in a behaviour

ASSUME ConstantsOK ==
  /\ Loop \notin Workers \cup Subscribers
  /\ MaxEvents \in Nat \ {0}
  /\ MaxEmits \in Nat

Threads == Workers \cup {Loop}
Nobody == {}

VARIABLES emitted,      \* history: the thread that emitted each event
          finished,     \* history: events whose emit() returned
          events,       \* TraceEmitter._events
          subscribers,  \* TraceEmitter._subscribers
          stage,        \* where a thread's emit() is
          event,        \* the event it emits
          targets,      \* its copy of the subscribers it has still to schedule
          ready,        \* _offer calls scheduled on the loop, in order
          running,      \* whose subscribe(), or whose emit(), the loop thread runs
          offered       \* history: events offered to a subscription, in order

vars == <<emitted, finished, events, subscribers, stage, event, targets,
          ready, running, offered>>

LoopFree == running = Nobody

Init ==
  /\ emitted = <<>>
  /\ finished = {}
  /\ events = <<>>
  /\ subscribers = {}
  /\ stage = [t \in Threads |-> "idle"]
  /\ event = [t \in Threads |-> 0]
  /\ targets = [t \in Threads |-> {}]
  /\ ready = <<>>
  /\ running = Nobody
  /\ offered = [s \in Subscribers |-> <<>>]

-----------------------------------------------------------------------------
Goes(t, next) == stage' = [stage EXCEPT ![t] = next]

\* The loop thread emits between two callbacks, a worker thread at any time.
Emit(t) ==
  /\ stage[t] = "idle"
  /\ Len(emitted) < MaxEmits
  /\ IF t = Loop THEN LoopFree /\ running' = {Loop} ELSE UNCHANGED running
  /\ emitted' = Append(emitted, t)
  /\ event' = [event EXCEPT ![t] = Len(emitted')]
  /\ Goes(t, "append")
  /\ UNCHANGED <<finished, events, subscribers, targets, ready, offered>>

\* deque(maxlen=max_events).append
Remembered(e) ==
  IF Len(events) < MaxEvents THEN Append(events, e) ELSE Append(Tail(events), e)

AppendEvent_AfterCopy(t) ==
  \/ /\ stage[t] = "append"
     /\ targets' = [targets EXCEPT ![t] = subscribers]
     /\ Goes(t, "late")
     /\ UNCHANGED <<emitted, finished, events, subscribers, event, ready, running, offered>>
  \/ /\ stage[t] = "late"
     /\ events' = Remembered(event[t])
     /\ Goes(t, "schedule")
     /\ UNCHANGED <<emitted, finished, subscribers, event, targets, ready, running, offered>>

\* self._events.append(event)
AppendEvent(t) ==
  /\ stage[t] = "append"
  /\ events' = Remembered(event[t])
  /\ Goes(t, "copy")
  /\ UNCHANGED <<emitted, finished, subscribers, event, targets, ready, running, offered>>

\* list(self._subscribers)
CopySubscribers(t) ==
  /\ stage[t] = "copy"
  /\ targets' = [targets EXCEPT ![t] = subscribers]
  /\ Goes(t, "schedule")
  /\ UNCHANGED <<emitted, finished, events, subscribers, event, ready, running, offered>>

\* call_soon_threadsafe for one subscriber of the copy.
Schedule(t, s) ==
  /\ stage[t] = "schedule"
  /\ s \in targets[t]
  /\ targets' = [targets EXCEPT ![t] = @ \ {s}]
  /\ ready' = Append(ready, [to |-> {s}, event |-> event[t]])
  /\ UNCHANGED <<emitted, finished, events, subscribers, stage, event, running, offered>>

EmitReturns(t) ==
  /\ stage[t] = "schedule"
  /\ targets[t] = {}
  /\ finished' = finished \cup {event[t]}
  /\ running' = IF t = Loop THEN Nobody ELSE running
  /\ Goes(t, "idle")
  /\ UNCHANGED <<emitted, events, subscribers, event, targets, ready, offered>>

\* subscribe() attaches a new queue ...
Attach(s) ==
  /\ LoopFree
  /\ s \notin subscribers
  /\ subscribers' = subscribers \cup {s}
  /\ running' = {s}
  /\ UNCHANGED <<emitted, finished, events, stage, event, targets, ready, offered>>

\* ... and then offers it a copy of the buffer.
Replay(s) ==
  /\ running = {s}
  /\ offered' = [offered EXCEPT ![s] = events]
  /\ running' = Nobody
  /\ UNCHANGED <<emitted, finished, events, subscribers, stage, event, targets, ready>>

\* The loop runs the oldest _offer; one whose client left is seen by nobody.
RunOffer ==
  /\ LoopFree
  /\ ready # <<>>
  /\ LET r == Head(ready)
     IN offered' = [s \in Subscribers |->
                      IF r.to = {s} THEN Append(offered[s], r.event) ELSE offered[s]]
  /\ ready' = Tail(ready)
  /\ UNCHANGED <<emitted, finished, events, subscribers, stage, event, targets, running>>

\* A slot whose client left is reused: what is still scheduled for it goes to
\* a queue that nobody holds.
Unsubscribe(s) ==
  /\ LoopFree
  /\ s \in subscribers
  /\ subscribers' = subscribers \ {s}
  /\ offered' = [offered EXCEPT ![s] = <<>>]
  /\ ready' = [i \in DOMAIN ready |->
                 IF ready[i].to = {s} THEN [ready[i] EXCEPT !.to = Nobody] ELSE ready[i]]
  /\ targets' = [t \in Threads |-> targets[t] \ {s}]
  /\ UNCHANGED <<emitted, finished, events, stage, event, running>>

Next ==
  \/ \E t \in Threads :
       \/ Emit(t) \/ AppendEvent(t) \/ CopySubscribers(t) \/ EmitReturns(t)
       \/ \E s \in Subscribers : Schedule(t, s)
  \/ \E s \in Subscribers : Attach(s) \/ Replay(s) \/ Unsubscribe(s)
  \/ RunOffer

Spec == Init /\ [][Next]_vars

-----------------------------------------------------------------------------
Count(q, x) == Cardinality({i \in DOMAIN q : q[i] = x})

Copies(s, e) == Count(offered[s], e) + Count(ready, [to |-> {s}, event |-> e])

(* An event that a thread emits while a client subscribes is not lost      *)
(* between the replay and live delivery: emit() fills the buffer before it *)
(* copies the subscribers, subscribe() attaches before it copies the       *)
(* buffer, so one of the two sees the other. The price is a second copy,   *)
(* of an event that a worker thread emitted while the client subscribed;   *)
(* never a third, and never a second one of the loop thread's events.      *)
NoSilentLoss ==
  \A s \in subscribers : running # {s} =>
    /\ \A i \in DOMAIN events : events[i] \in finished => Copies(s, events[i]) > 0
    /\ \A e \in DOMAIN emitted :
         Copies(s, e) <= IF emitted[e] = Loop THEN 1 ELSE 2
=============================================================================
