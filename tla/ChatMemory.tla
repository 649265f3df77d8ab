----------------------------- MODULE ChatMemory -----------------------------
(***************************************************************************)
(* What /api/chat promises about the memory of a session, whatever lists,  *)
(* copies and awaits the daemon keeps the promise with:                    *)
(*   - a request is answered on what the session remembered when it was    *)
(*     accepted, and on nothing of what happens while it is answered;      *)
(*   - a turn is remembered whole, at the moment its answer ends, once and *)
(*     after all that the session remembers by then, or not at all;        *)
(*   - a client that is told "done" can rely on it: its turn is remembered *)
(*     then, or the session it wanted reset has forgotten everything;      *)
(*   - a session forgets only its oldest turns, or everything.             *)
(* A turn is the number of the request it answers.                         *)
(***************************************************************************)
EXTENDS Naturals, Sequences

CONSTANTS Clients,   \* those that may be answered at the same time
          Sessions,
          Kept       \* turns that a session remembers

VARIABLES memory,    \* the turns each session remembers, oldest first
          asking,    \* the requests that are being answered, by client
          asks,      \* number of requests accepted so far
          confirmed  \* the clients whose last frame was answered "done"

vars == <<memory, asking, asks, confirmed>>

Latest(turns) == SubSeq(turns, IF Len(turns) > Kept THEN Len(turns) - Kept + 1 ELSE 1, Len(turns))

Init ==
  /\ memory = [s \in Sessions |-> <<>>]
  /\ asking = [c \in {} |-> <<>>]
  /\ asks = 0
  /\ confirmed = {}

\* c is told "done", or is gone.
Confirm(c) == confirmed' \in {confirmed \cup {c}, confirmed \ {c}}
Deny(c)    == confirmed' = confirmed \ {c}

Ask(c, session) ==
  /\ c \notin DOMAIN asking
  /\ asks' = asks + 1
  /\ asking' = [d \in DOMAIN asking \cup {c} |->
                  IF d = c THEN [turn |-> asks', session |-> session, recalls |-> memory[session]]
                  ELSE asking[d]]
  /\ Deny(c)
  /\ UNCHANGED memory

Ended(c) == c \in DOMAIN asking /\ asking' = [d \in DOMAIN asking \ {c} |-> asking[d]]

Answer(c) ==
  /\ Ended(c)
  /\ memory' = [memory EXCEPT ![asking[c].session] = Latest(Append(@, asking[c].turn))]
  /\ Confirm(c)
  /\ UNCHANGED asks

(* The generator failed, the client left or the server stopped.            *)
GiveUp(c) == Ended(c) /\ Deny(c) /\ UNCHANGED <<memory, asks>>

Forget(c, session) ==
  /\ c \notin DOMAIN asking
  /\ memory' = [memory EXCEPT ![session] = <<>>]
  /\ Confirm(c)
  /\ UNCHANGED <<asking, asks>>

(* A frame that is refused, a client that leaves or comes back.            *)
Refuse(c) == Deny(c) /\ UNCHANGED <<memory, asking, asks>>

Next ==
  \E c \in Clients :
    \/ Answer(c) \/ GiveUp(c) \/ Refuse(c)
    \/ \E session \in Sessions : Ask(c, session) \/ Forget(c, session)

Spec == Init /\ [][Next]_vars
=============================================================================
