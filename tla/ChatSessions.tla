---------------------------- MODULE ChatSessions ----------------------------
(***************************************************************************)
(* The /api/chat WebSocket of sw/runtime/server/routes_ws.py and the       *)
(* session histories of ServerState in app.py. Every connection has one    *)
(* handler, which reads a frame, answers it, and only then reads the next. *)
(* Handlers interleave at each await: while the worker thread produces an  *)
(* item, and while a frame drains to the client. session_id comes from the *)
(* client, so any connection may name any session. A turn is the number    *)
(* of the request it answers; texts, sampling parameters and timing are    *)
(* left out, and so are items without text, which change no state here.    *)
(***************************************************************************)
EXTENDS Integers, Sequences, FiniteSets

CONSTANTS Connections,  \* WebSocket slots; a slot is reused once its handler ended
          SessionIds,
          MaxMessages,  \* messages kept per session (16)
          Limits,       \* values of max_new_tokens after clamping
          MaxRequests   \* bound of the model: requests accepted in a behaviour

ASSUME ConstantsOK ==
  /\ MaxMessages \in Nat \ {0}
  /\ Limits \subseteq Nat \ {0}
  /\ MaxRequests \in Nat

VARIABLES histories,    \* ServerState.histories, session -> messages
          modelLoaded,  \* ServerState.model_loaded
          tokensTotal,  \* ServerState.tokens_total
          handler,      \* where the connection's chat() coroutine is
          alive,        \* can the connection's transport still send?
          request,      \* locals of _stream_response
          accepted,     \* number of requests accepted so far
          reply,        \* history: frames the client was sent for its last frame
          ledger,       \* history: turns appended to a session since its reset
          sentTotal     \* history: token frames sent

vars == <<histories, modelLoaded, tokensTotal, handler, alive, request,
          accepted, reply, ledger, sentTotal>>

Turns == 1 .. MaxRequests
Idle == [turn |-> 0]

Init ==
  /\ histories = [s \in {} |-> <<>>]
  /\ modelLoaded = FALSE
  /\ tokensTotal = 0
  /\ handler = [c \in Connections |-> "closed"]
  /\ alive = [c \in Connections |-> FALSE]
  /\ request = [c \in Connections |-> Idle]
  /\ accepted = 0
  /\ reply = [c \in Connections |-> <<>>]
  /\ ledger = [s \in SessionIds |-> <<>>]
  /\ sentTotal = 0

-----------------------------------------------------------------------------
Newest_Oldest(seq, n) == SubSeq(seq, 1, IF Len(seq) > n THEN n ELSE Len(seq))

\* seq[-n:]
Newest(seq, n) == SubSeq(seq, IF Len(seq) > n THEN Len(seq) - n + 1 ELSE 1, Len(seq))

Turn(t) == <<[role |-> "user", turn |-> t], [role |-> "assistant", turn |-> t]>>

\* histories.setdefault(session, [])
Ensured(session) ==
  [s \in DOMAIN histories \cup {session} |->
     IF s \in DOMAIN histories THEN histories[s] ELSE <<>>]

Appended_FromSnapshot(c) ==
  [Ensured(request[c].session) EXCEPT ![request[c].session] =
     Newest(request[c].history \o Turn(request[c].turn), MaxMessages)]

\* append_turn extends the history as it is now, not the request's snapshot.
Appended(c) ==
  [Ensured(request[c].session) EXCEPT ![request[c].session] =
     Newest(@ \o Turn(request[c].turn), MaxMessages)]

\* ws.send_json of the frame that closes an answer: it is on its way and the
\* handler awaits the drain, or it raises and chat() ends with it.
SendLast(c, frames) ==
  /\ request' = [request EXCEPT ![c] = Idle]
  /\ reply' = [reply EXCEPT ![c] = IF alive[c] THEN frames ELSE <<>>]
  /\ handler' = [handler EXCEPT ![c] = IF alive[c] THEN "replying" ELSE "closed"]

Frame(kind, n) == [kind |-> kind, n |-> n]

LoadEnds ==
  /\ ~modelLoaded
  /\ modelLoaded' = TRUE
  /\ UNCHANGED <<histories, tokensTotal, handler, alive, request, accepted,
                 reply, ledger, sentTotal>>

Connect(c) ==
  /\ handler[c] = "closed"
  /\ handler' = [handler EXCEPT ![c] = "reading"]
  /\ alive' = [alive EXCEPT ![c] = TRUE]
  /\ UNCHANGED <<histories, modelLoaded, tokensTotal, request, accepted,
                 reply, ledger, sentTotal>>

\* The client closes, resets or misses a heartbeat; the handler is not told.
ConnectionLost(c) ==
  /\ alive[c]
  /\ alive' = [alive EXCEPT ![c] = FALSE]
  /\ UNCHANGED <<histories, modelLoaded, tokensTotal, handler, request,
                 accepted, reply, ledger, sentTotal>>

\* `async for msg in ws` ends, or the server cancels the handler as it stops.
HandlerEnds(c) ==
  /\ handler[c] # "closed"
  /\ handler' = [handler EXCEPT ![c] = "closed"]
  /\ alive' = [alive EXCEPT ![c] = FALSE]
  /\ request' = [request EXCEPT ![c] = Idle]
  /\ reply' = [reply EXCEPT ![c] = <<>>]
  /\ UNCHANGED <<histories, modelLoaded, tokensTotal, accepted, ledger, sentTotal>>

\* Not JSON, an unknown type, no content, or no model: an error frame. A
\* frame that was buffered is still read after the connection is lost.
Refuse(c) ==
  /\ handler[c] = "reading"
  /\ SendLast(c, <<Frame("error", 0)>>)
  /\ UNCHANGED <<histories, modelLoaded, tokensTotal, alive, accepted,
                 ledger, sentTotal>>

Reset(c, session) ==
  /\ handler[c] = "reading"
  /\ histories' = [s \in DOMAIN histories \ {session} |-> histories[s]]
  /\ ledger' = [ledger EXCEPT ![session] = <<>>]
  /\ SendLast(c, <<Frame("done", 0)>>)
  /\ UNCHANGED <<modelLoaded, tokensTotal, alive, accepted, sentTotal>>

\* A user_message: the history is copied before the first await.
Accept(c, session, limit) ==
  /\ handler[c] = "reading"
  /\ modelLoaded
  /\ accepted < MaxRequests
  /\ accepted' = accepted + 1
  /\ histories' = Ensured(session)
  /\ request' = [request EXCEPT ![c] =
                   [turn |-> accepted', session |-> session, limit |-> limit,
                    tokens |-> 0, history |-> Ensured(session)[session]]]
  /\ handler' = [handler EXCEPT ![c] = "generating"]
  /\ reply' = [reply EXCEPT ![c] = <<>>]
  /\ UNCHANGED <<modelLoaded, tokensTotal, alive, ledger, sentTotal>>

Token_CountsSent(c) ==
  /\ handler[c] = "generating"
  /\ request[c].tokens < request[c].limit
  /\ tokensTotal' = tokensTotal + 1
  /\ IF alive[c]
     THEN /\ reply' = [reply EXCEPT ![c] = Append(@, Frame("token", request[c].tokens + 1))]
          /\ request' = [request EXCEPT ![c].tokens = @ + 1]
          /\ handler' = [handler EXCEPT ![c] = "sending"]
          /\ sentTotal' = sentTotal + 1
     ELSE /\ SendLast(c, <<>>)
          /\ UNCHANGED sentTotal
  /\ UNCHANGED <<histories, modelLoaded, alive, accepted, ledger>>

\* The thread returned a token. A send that raises is caught, but the error
\* frame sent in its place raises too, out of chat().
Token(c) ==
  /\ handler[c] = "generating"
  /\ request[c].tokens < request[c].limit
  /\ tokensTotal' = tokensTotal + 1
  /\ IF alive[c]
     THEN /\ reply' = [reply EXCEPT ![c] = Append(@, Frame("token", request[c].tokens))]
          /\ request' = [request EXCEPT ![c].tokens = @ + 1]
          /\ handler' = [handler EXCEPT ![c] = "sending"]
          /\ sentTotal' = sentTotal + 1
     ELSE /\ SendLast(c, <<>>)
          /\ UNCHANGED sentTotal
  /\ UNCHANGED <<histories, modelLoaded, alive, accepted, ledger>>

\* A token arrived above the limit, or the generator is exhausted: the turn
\* is appended and done is sent, with no await in between.
Finish(c) ==
  /\ handler[c] = "generating"
  /\ histories' = Appended(c)
  /\ ledger' = [ledger EXCEPT ![request[c].session] = Append(@, request[c].turn)]
  /\ SendLast(c, Append(reply[c], Frame("done", request[c].tokens)))
  /\ UNCHANGED <<modelLoaded, tokensTotal, alive, accepted, sentTotal>>

\* generate() raised in the worker thread.
Fail(c) ==
  /\ handler[c] = "generating"
  /\ SendLast(c, Append(reply[c], Frame("error", 0)))
  /\ UNCHANGED <<histories, modelLoaded, tokensTotal, alive, accepted,
                 ledger, sentTotal>>

Drained_WhenAlive(c) ==
  /\ alive[c]
  /\ \/ handler[c] = "sending" /\ handler' = [handler EXCEPT ![c] = "generating"]
     \/ handler[c] = "replying" /\ handler' = [handler EXCEPT ![c] = "reading"]
  /\ UNCHANGED <<histories, modelLoaded, tokensTotal, alive, request,
                 accepted, reply, ledger, sentTotal>>

\* send_json returns. If the connection is lost it may raise: HandlerEnds.
Drained(c) ==
  /\ \/ handler[c] = "sending" /\ handler' = [handler EXCEPT ![c] = "generating"]
     \/ handler[c] = "replying" /\ handler' = [handler EXCEPT ![c] = "reading"]
  /\ UNCHANGED <<histories, modelLoaded, tokensTotal, alive, request,
                 accepted, reply, ledger, sentTotal>>

Next ==
  \/ LoadEnds
  \/ \E c \in Connections :
       \/ Connect(c) \/ ConnectionLost(c) \/ HandlerEnds(c)
       \/ Refuse(c)
       \/ \E s \in SessionIds : Reset(c, s)
       \/ \E s \in SessionIds, limit \in Limits : Accept(c, s, limit)
       \/ Token(c) \/ Finish(c) \/ Fail(c) \/ Drained(c)

Spec == Init /\ [][Next]_vars

(* The thread returns from every next(), with a token, the end or an       *)
(* exception. A drain ends because the client reads, or because the        *)
(* heartbeat (30 s) closes a connection whose client does not.             *)
Fairness ==
  \A c \in Connections :
    /\ WF_vars(Token(c) \/ Finish(c) \/ Fail(c))
    /\ WF_vars(Drained(c))

FairSpec == Spec /\ Fairness

-----------------------------------------------------------------------------
Transcript(turns) ==
  [i \in 1 .. 2 * Len(turns) |->
     [role |-> IF i % 2 = 1 THEN "user" ELSE "assistant", turn |-> turns[(i + 1) \div 2]]]

(* Whatever the interleaving, a session's history is the transcript of all *)
(* turns finished in it since its last reset, cut to the newest messages:  *)
(* a turn that finishes while another is generated is not overwritten by   *)
(* it, none is kept twice, and trimming parts no question from its answer. *)
KeepsNewestTurns ==
  \A s \in SessionIds :
    Newest(Transcript(ledger[s]), MaxMessages) =
      IF s \in DOMAIN histories THEN histories[s] ELSE <<>>

(* The turns whose answers are in a history, counted from its end.         *)
TurnsIn(messages) ==
  LET n == Len(messages) \div 2
  IN [i \in 1 .. n |-> messages[Len(messages) - 2 * (n - i)].turn]

(* The daemon keeps ChatMemory's promise: a session remembers the turns in *)
(* its history, and who is asking is a handler that generates or sends,    *)
(* with the copy it took of the history for what it recalls. All that the  *)
(* awaits let the other handlers do in between amounts to whole requests   *)
(* taken up, answered or given up one at a time.                           *)
Answering == {c \in Connections : handler[c] \in {"generating", "sending"}}

Memory == INSTANCE ChatMemory WITH
  Clients <- Connections,
  Sessions <- SessionIds,
  Kept <- MaxMessages \div 2,
  memory <- [s \in SessionIds |-> TurnsIn(IF s \in DOMAIN histories THEN histories[s] ELSE <<>>)],
  asking <- [c \in Answering |-> [turn |-> request[c].turn, session |-> request[c].session,
                                 recalls |-> TurnsIn(request[c].history)]],
  asks <- accepted,
  confirmed <- {c \in Connections : reply[c] # <<>> /\ reply[c][Len(reply[c])].kind = "done"}

MemorySpec == Memory!Spec

Closes(frame) == frame.kind \in {"done", "error"}

(* What a client is sent for one frame of its own: tokens numbered from 0  *)
(* without a gap and at most max_new_tokens of them, then one frame that   *)
(* closes the answer and counts them. The handler reads on only after it.  *)
(* tokens_total counts a token before it is sent; a send that fails ends   *)
(* the answer, so a request adds at most one token nobody was sent.        *)
RepliesWellFormed ==
  /\ sentTotal <= tokensTotal /\ tokensTotal <= sentTotal + accepted
  /\ \A c \in Connections : LET r == reply[c] IN
       /\ \A i \in DOMAIN r :
            /\ r[i].kind = "token" => r[i].n = i - 1
            /\ r[i].kind = "done" => r[i].n = i - 1
            /\ Closes(r[i]) => i = Len(r)
       /\ handler[c] = "replying" => r # <<>> /\ Closes(r[Len(r)])
       /\ handler[c] = "reading" /\ r # <<>> => Closes(r[Len(r)])
       /\ handler[c] \in {"generating", "sending"} =>
            Len(r) = request[c].tokens /\ Len(r) <= request[c].limit

(* Every frame's handling ends: with its answer, or with the connection.   *)
HandlerReturns ==
  \A c \in Connections :
    handler[c] \notin {"reading", "closed"} ~> handler[c] \in {"reading", "closed"}
=============================================================================
