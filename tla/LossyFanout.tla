---------------------------- MODULE LossyFanout ----------------------------
(***************************************************************************)
(* What the daemon's trace stream promises to one HTTP reader, whatever    *)
(* deque, queue and callback the emitter uses to keep the promise:         *)
(*   - a subscription is handed events in the order they were emitted,     *)
(*     each at most once;                                                  *)
(*   - an event addressed to the reader is lost only when the reader is    *)
(*     more than Capacity events behind, and it is then the oldest one;    *)
(*   - publishing waits for nobody.                                        *)
(* An event is its index in `history`.                                     *)
(***************************************************************************)
EXTENDS Naturals, Sequences

CONSTANTS Subscribers,   \* concurrent trace requests
          Sessions,      \* chat sessions that events are about
          AnySession,    \* no session: an event of the daemon, a reader of all
          Capacity       \* how far behind a reader may be without loss

VARIABLES history,       \* every event ever published: the session it is about
          attached,      \* the subscriptions that are open
          wanted,        \* the session each subscription asked for
          backlog,       \* events owed to each subscription, oldest first
          last           \* the last event each reader was handed (0: none)

vars == <<history, attached, wanted, backlog, last>>

Wants(filter, about) == filter \in {AnySession, about}

Increasing(s) == \A i, j \in DOMAIN s : i < j => s[i] < s[j]

Init ==
  /\ history = <<>>
  /\ attached = {}
  /\ wanted = [s \in Subscribers |-> AnySession]
  /\ backlog = [s \in Subscribers |-> <<>>]
  /\ last = [s \in Subscribers |-> 0]

Publish(about) ==
  /\ history' = Append(history, about)
  /\ backlog' = [s \in Subscribers |->
                   IF s \in attached /\ Wants(wanted[s], about)
                   THEN Append(backlog[s], Len(history) + 1)
                   ELSE backlog[s]]
  /\ UNCHANGED <<attached, wanted, last>>

(* A subscription opens on some recent events it asked for; a reader that  *)
(* resumes keeps `last` and is owed nothing it was handed before.          *)
Attach(s) ==
  /\ s \notin attached
  /\ attached' = attached \cup {s}
  /\ Increasing(backlog'[s])
  /\ Len(backlog'[s]) <= Capacity
  /\ \A i \in DOMAIN backlog'[s] :
        /\ backlog'[s][i] \in DOMAIN history
        /\ backlog'[s][i] > last[s]
        /\ Wants(wanted[s], history[backlog'[s][i]])
  /\ backlog' = [backlog EXCEPT ![s] = backlog'[s]]
  /\ UNCHANGED <<history, wanted, last>>

(* Before it opens a subscription the reader picks a session and whether   *)
(* it resumes after what it was handed last or starts afresh.              *)
Ask(s) ==
  /\ s \notin attached
  /\ \E filter \in Sessions \cup {AnySession} : wanted' = [wanted EXCEPT ![s] = filter]
  /\ \E from \in {0, last[s]} : last' = [last EXCEPT ![s] = from]
  /\ UNCHANGED <<history, attached, backlog>>

Take(s) ==
  /\ s \in attached
  /\ backlog[s] # <<>>
  /\ last' = [last EXCEPT ![s] = Head(backlog[s])]
  /\ backlog' = [backlog EXCEPT ![s] = Tail(@)]
  /\ UNCHANGED <<history, attached, wanted>>

LoseOldest(s) ==
  /\ s \in attached
  /\ Len(backlog[s]) > Capacity
  /\ backlog' = [backlog EXCEPT ![s] = Tail(@)]
  /\ UNCHANGED <<history, attached, wanted, last>>

Detach(s) ==
  /\ s \in attached
  /\ attached' = attached \ {s}
  /\ backlog' = [backlog EXCEPT ![s] = <<>>]
  /\ UNCHANGED <<history, wanted, last>>

Next ==
  \/ \E about \in Sessions \cup {AnySession} : Publish(about)
  \/ \E s \in Subscribers :
       Ask(s) \/ Attach(s) \/ Take(s) \/ LoseOldest(s) \/ Detach(s)

Spec == Init /\ [][Next]_vars
=============================================================================
