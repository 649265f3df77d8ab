------------------------- MODULE ChatSessionsProofs -------------------------
(***************************************************************************)
(* Theorems about ChatSessions for all values of its constants: however    *)
(* the connections interleave and whenever they are lost, a session's      *)
(* history is the newest part of its transcript, and every frame of a      *)
(* client is answered in order. The invariant adds what each place of a    *)
(* handler relies on, and that a request pays for at most one token that   *)
(* was counted and never sent. Connections need not be finitely many.      *)
(* The same invariant maps every step to a step of ChatMemory or to none:  *)
(* cutting a transcript to the newest messages cuts its turns (TurnsOf).   *)
(***************************************************************************)
EXTENDS ChatSessions, FiniteSetTheorems, SequenceTheorems, TLAPS

-----------------------------------------------------------------------------
(* The newest messages and the transcript.                                 *)

Messages == [role : {"user", "assistant"}, turn : Nat]

LEMMA NewestIs ==
  ASSUME NEW S, NEW s \in Seq(S), NEW n \in Nat
  PROVE  /\ Newest(s, n) \in Seq(S)
         /\ Len(s) > n => /\ Len(Newest(s, n)) = n
                          /\ \A i \in 1 .. n : Newest(s, n)[i] = s[Len(s) - n + i]
         /\ ~(Len(s) > n) => /\ Len(Newest(s, n)) = Len(s)
                             /\ \A i \in 1 .. Len(s) : Newest(s, n)[i] = s[i]
  <1> PICK m \in Nat : m = Len(s)
    BY LenProperties
  <1>1. \A i \in 1 .. m : s[i] \in S
    BY ElementOfSeq
  <1>2. CASE m > n
    <2>1. \A i \in m - n + 1 .. m : i \in 1 .. m
      BY <1>2
    <2>2. Newest(s, n) = SubSeq(s, m - n + 1, m)
      BY <1>2 DEF Newest
    <2>3. \A i \in m - n + 1 .. m : s[i] \in S
      BY <1>1, <2>1
    <2> DEFINE a == m - n + 1
    <2>4. a \in Int /\ m \in Int
      OBVIOUS
    <2>5. /\ (IF a <= m THEN m - a + 1 ELSE 0) = n
          /\ m - a + 1 = n /\ \A i \in 1 .. n : a + i - 1 = m - n + i
      BY <1>2
    <2> HIDE DEF a
    <2>6. /\ SubSeq(s, a, m) \in Seq(S)
          /\ Len(SubSeq(s, a, m)) = IF a <= m THEN m - a + 1 ELSE 0
          /\ \A i \in 1 .. m - a + 1 : SubSeq(s, a, m)[i] = s[a + i - 1]
      BY <2>3, <2>4, SubSeqProperties DEF a
    <2>7. \A i \in 1 .. n : SubSeq(s, a, m)[i] = s[m - n + i]
      BY <2>5, <2>6
    <2>8. Newest(s, n) = SubSeq(s, a, m)
      BY <2>2 DEF a
    <2> QED
      BY <1>2, <2>5, <2>6, <2>7, <2>8
  <1>3. CASE ~(m > n)
    <2>1. Newest(s, n) = SubSeq(s, 1, m)
      BY <1>3 DEF Newest
    <2>2. SubSeq(s, 1, m) = s
      BY SubSeqFull
    <2> QED
      BY <1>3, <2>1, <2>2
  <1> QED
    BY <1>2, <1>3

\* Cutting before more is appended is cutting after.
LEMMA NewestAgain ==
  ASSUME NEW S, NEW s \in Seq(S), NEW t \in Seq(S), NEW n \in Nat
  PROVE  Newest(Newest(s, n) \o t, n) = Newest(s \o t, n)
  <1> DEFINE u == Newest(s, n)
             v == u \o t
             w == s \o t
             x == Newest(v, n)
             y == Newest(w, n)
  <1>1. /\ u \in Seq(S) /\ v \in Seq(S) /\ w \in Seq(S) /\ x \in Seq(S) /\ y \in Seq(S)
    BY NewestIs, ConcatProperties
  <1>2. /\ Len(s) > n => /\ Len(u) = n
                         /\ \A i \in 1 .. n : u[i] = s[Len(s) - n + i]
        /\ ~(Len(s) > n) => /\ Len(u) = Len(s)
                            /\ \A i \in 1 .. Len(s) : u[i] = s[i]
    BY NewestIs
  <1> HIDE DEF u
  <1>3. /\ Len(v) = Len(u) + Len(t) /\ Len(w) = Len(s) + Len(t)
        /\ \A i \in 1 .. Len(u) + Len(t) : v[i] = IF i <= Len(u) THEN u[i] ELSE t[i - Len(u)]
        /\ \A i \in 1 .. Len(s) + Len(t) : w[i] = IF i <= Len(s) THEN s[i] ELSE t[i - Len(s)]
    BY <1>1, ConcatProperties
  <1> HIDE DEF v, w
  <1>4. /\ Len(v) > n => /\ Len(x) = n
                         /\ \A i \in 1 .. n : x[i] = v[Len(v) - n + i]
        /\ ~(Len(v) > n) => /\ Len(x) = Len(v)
                            /\ \A i \in 1 .. Len(v) : x[i] = v[i]
    BY <1>1, NewestIs
  <1>5. /\ Len(w) > n => /\ Len(y) = n
                         /\ \A i \in 1 .. n : y[i] = w[Len(w) - n + i]
        /\ ~(Len(w) > n) => /\ Len(y) = Len(w)
                            /\ \A i \in 1 .. Len(w) : y[i] = w[i]
    BY <1>1, NewestIs
  <1> HIDE DEF x, y
  <1> PICK a \in Nat : a = Len(s)
    BY LenProperties
  <1> PICK b \in Nat : b = Len(t)
    BY LenProperties
  <1>6. CASE ~(a > n)
    <2>1. u = s
      BY <1>1, <1>2, <1>6, SeqEqual
    <2> QED
      BY <2>1 DEF u, v, w, x, y
  <1>7. CASE a > n
    <2>1. Len(u) = n /\ Len(v) = n + b /\ Len(w) = a + b
      BY <1>2, <1>3, <1>7
    <2>2. \A i \in 1 .. n : u[i] = s[a - n + i]
      BY <1>2, <1>7
    <2>3. Len(y) = n /\ \A i \in 1 .. n : y[i] = w[a + b - n + i]
      BY <1>5, <1>7, <2>1
    <2>4. Len(x) = n /\ \A i \in 1 .. n : x[i] = v[b + i]
      <3>1. CASE b > 0
        <4>1. n + b > n /\ \A i \in 1 .. n : n + b - n + i = b + i
          BY <3>1
        <4> QED
          BY <1>4, <2>1, <4>1
      <3>2. CASE b = 0
        <4>1. Len(v) = n /\ ~(Len(v) > n)
          BY <2>1, <3>2
        <4>2. \A i \in 1 .. n : b + i = i
          BY <3>2
        <4> QED
          BY <1>4, <4>1, <4>2
      <3> QED
        BY <3>1, <3>2
    <2>5. ASSUME NEW i \in 1 .. n PROVE x[i] = y[i]
      <3>1. x[i] = v[b + i] /\ y[i] = w[a + b - n + i]
        BY <2>3, <2>4
      <3>2. b + i \in 1 .. n + b /\ a + b - n + i \in 1 .. a + b
        BY <1>7
      <3>3. CASE b + i <= n
        <4>1. b + i \in 1 .. n /\ a + b - n + i <= a /\ a - n + (b + i) = a + b - n + i
          BY <3>3
        <4>2. v[b + i] = u[b + i]
          BY <1>3, <2>1, <3>2, <3>3
        <4>3. w[a + b - n + i] = s[a + b - n + i]
          BY <1>3, <3>2, <4>1
        <4>4. u[b + i] = s[a - n + (b + i)]
          BY <2>2, <4>1
        <4> QED
          BY <3>1, <4>1, <4>2, <4>3, <4>4
      <3>4. CASE ~(b + i <= n)
        <4>1. ~(a + b - n + i <= a) /\ (b + i) - n = (a + b - n + i) - a
          BY <3>4
        <4>2. v[b + i] = t[(b + i) - n]
          BY <1>3, <2>1, <3>2, <3>4
        <4>3. w[a + b - n + i] = t[(a + b - n + i) - a]
          BY <1>3, <3>2, <4>1
        <4> QED
          BY <3>1, <4>1, <4>2, <4>3
      <3> QED
        BY <3>3, <3>4
    <2>6. x = y
      BY <1>1, <2>3, <2>4, <2>5, SeqEqual DEF x, y
    <2> QED
      BY <2>6 DEF u, v, w, x, y
  <1> QED
    BY <1>6, <1>7

LEMMA TurnIs ==
  ASSUME NEW t \in Nat
  PROVE  /\ Turn(t) \in Seq(Messages) /\ Len(Turn(t)) = 2
         /\ Turn(t)[1] = [role |-> "user", turn |-> t]
         /\ Turn(t)[2] = [role |-> "assistant", turn |-> t]
  BY DEF Turn, Messages

LEMMA Halves ==
  /\ \A n \in Nat : \A i \in 1 .. 2 * n : (i + 1) \div 2 \in 1 .. n
  /\ \A n \in Nat : /\ (2 * n + 1) % 2 = 1 /\ (2 * n + 2) % 2 = 0
                    /\ (2 * n + 1 + 1) \div 2 = n + 1 /\ (2 * n + 2 + 1) \div 2 = n + 1
  <1>1. ASSUME NEW n \in Nat, NEW i \in 1 .. 2 * n PROVE (i + 1) \div 2 \in 1 .. n
    OBVIOUS
  <1>2. ASSUME NEW n \in Nat
        PROVE  /\ (2 * n + 1) % 2 = 1 /\ (2 * n + 2) % 2 = 0
               /\ (2 * n + 1 + 1) \div 2 = n + 1 /\ (2 * n + 2 + 1) \div 2 = n + 1
    OBVIOUS
  <1> QED
    BY <1>1, <1>2

LEMMA TranscriptIs ==
  ASSUME NEW turns \in Seq(Nat)
  PROVE  Transcript(turns) \in Seq(Messages) /\ Len(Transcript(turns)) = 2 * Len(turns)
  <1> PICK n \in Nat : n = Len(turns)
    BY LenProperties
  <1> DEFINE e(i) == [role |-> IF i % 2 = 1 THEN "user" ELSE "assistant", turn |-> turns[(i + 1) \div 2]]
  <1>1. ASSUME NEW i \in 1 .. 2 * n PROVE e(i) \in Messages
    <2>1. (i + 1) \div 2 \in 1 .. n
      BY Halves
    <2>2. turns[(i + 1) \div 2] \in Nat
      BY <2>1, ElementOfSeq
    <2> QED
      BY <2>2 DEF Messages
  <1> HIDE DEF e
  <1>2. 2 * n \in Nat
    OBVIOUS
  <1>3. [i \in 1 .. 2 * n |-> e(i)] \in Seq(Messages) /\ Len([i \in 1 .. 2 * n |-> e(i)]) = 2 * n
    BY <1>1, <1>2
  <1>4. Transcript(turns) = [i \in 1 .. 2 * n |-> e(i)]
    BY DEF Transcript, e
  <1> QED
    BY <1>3, <1>4

LEMMA TranscriptMore ==
  ASSUME NEW turns \in Seq(Nat), NEW t \in Nat
  PROVE  Transcript(Append(turns, t)) = Transcript(turns) \o Turn(t)
  <1> PICK n \in Nat : n = Len(turns)
    BY LenProperties
  <1> DEFINE more == Append(turns, t)
             x == Transcript(more)
             z == Transcript(turns)
             y == z \o Turn(t)
  <1>1. more \in Seq(Nat) /\ Len(more) = n + 1 /\ more[n + 1] = t /\ \A i \in 1 .. n : more[i] = turns[i]
    OBVIOUS
  <1> HIDE DEF more
  <1>2. x \in Seq(Messages) /\ Len(x) = 2 * (n + 1)
    BY <1>1, TranscriptIs
  <1>3. z \in Seq(Messages) /\ Len(z) = 2 * n
    BY TranscriptIs
  <1>4. /\ \A i \in 1 .. 2 * (n + 1) :
             x[i] = [role |-> IF i % 2 = 1 THEN "user" ELSE "assistant", turn |-> more[(i + 1) \div 2]]
        /\ \A i \in 1 .. 2 * n :
             z[i] = [role |-> IF i % 2 = 1 THEN "user" ELSE "assistant", turn |-> turns[(i + 1) \div 2]]
    <2>1. x = [i \in 1 .. 2 * Len(more) |->
                 [role |-> IF i % 2 = 1 THEN "user" ELSE "assistant", turn |-> more[(i + 1) \div 2]]]
      BY DEF Transcript
    <2>2. z = [i \in 1 .. 2 * Len(turns) |->
                 [role |-> IF i % 2 = 1 THEN "user" ELSE "assistant", turn |-> turns[(i + 1) \div 2]]]
      BY DEF Transcript
    <2> HIDE DEF x, z
    <2>3. 2 * Len(more) = 2 * (n + 1) /\ 2 * Len(turns) = 2 * n
      BY <1>1
    <2>4. ASSUME NEW i \in 1 .. 2 * (n + 1)
          PROVE  x[i] = [role |-> IF i % 2 = 1 THEN "user" ELSE "assistant", turn |-> more[(i + 1) \div 2]]
      BY ONLY <2>1, <2>3, <2>4
    <2>5. ASSUME NEW i \in 1 .. 2 * n
          PROVE  z[i] = [role |-> IF i % 2 = 1 THEN "user" ELSE "assistant", turn |-> turns[(i + 1) \div 2]]
      BY ONLY <2>2, <2>3, <2>5
    <2> QED
      BY <2>4, <2>5
  <1> HIDE DEF x, z
  <1>5. /\ y \in Seq(Messages) /\ Len(y) = 2 * n + 2
        /\ \A i \in 1 .. 2 * n + 2 : y[i] = IF i <= 2 * n THEN z[i] ELSE Turn(t)[i - 2 * n]
    <2> DEFINE u == Turn(t)
    <2>1. u \in Seq(Messages) /\ Len(u) = 2
      BY TurnIs
    <2> HIDE DEF u
    <2>2. /\ z \o u \in Seq(Messages) /\ Len(z \o u) = Len(z) + Len(u)
          /\ \A i \in 1 .. Len(z) + Len(u) : (z \o u)[i] = IF i <= Len(z) THEN z[i] ELSE u[i - Len(z)]
      BY <1>3, <2>1, ConcatProperties
    <2>3. y = z \o u
      BY DEF u
    <2> HIDE DEF y
    <2>4. /\ y \in Seq(Messages) /\ Len(y) = 2 * n + 2
          /\ \A i \in 1 .. 2 * n + 2 : y[i] = IF i <= 2 * n THEN z[i] ELSE u[i - 2 * n]
      BY ONLY <1>3, <2>1, <2>2, <2>3
    <2> QED
      BY <2>4 DEF u
  <1> HIDE DEF y
  <1>6. ASSUME NEW i \in 1 .. 2 * n + 2 PROVE x[i] = y[i]
    <2>1. i \in 1 .. 2 * (n + 1)
      OBVIOUS
    <2>2. CASE i \in 1 .. 2 * n
      <3>1. (i + 1) \div 2 \in 1 .. n /\ i <= 2 * n
        BY <2>2, Halves
      <3>2. more[(i + 1) \div 2] = turns[(i + 1) \div 2]
        BY <1>1, <3>1
      <3>3. y[i] = z[i]
        BY <1>5, <3>1
      <3>4. z[i] = [role |-> IF i % 2 = 1 THEN "user" ELSE "assistant", turn |-> turns[(i + 1) \div 2]]
        BY <1>4, <2>2
      <3>5. x[i] = [role |-> IF i % 2 = 1 THEN "user" ELSE "assistant", turn |-> more[(i + 1) \div 2]]
        BY <1>4, <2>1
      <3> QED
        BY ONLY <3>2, <3>3, <3>4, <3>5
    <2>3. CASE i = 2 * n + 1
      <3>1. ~(i <= 2 * n) /\ i - 2 * n = 1
        BY <2>3
      <3>2. y[i] = [role |-> "user", turn |-> t]
        <4>1. y[i] = Turn(t)[i - 2 * n]
          BY <1>5, <3>1
        <4> QED
          BY <3>1, <4>1, TurnIs
      <3>3. i % 2 = 1 /\ (i + 1) \div 2 = n + 1
        BY <2>3, Halves
      <3> QED
        BY <1>1, <1>4, <2>1, <3>2, <3>3
    <2>4. CASE i = 2 * n + 2
      <3>1. ~(i <= 2 * n) /\ i - 2 * n = 2
        BY <2>4
      <3>2. y[i] = [role |-> "assistant", turn |-> t]
        <4>1. y[i] = Turn(t)[i - 2 * n]
          BY <1>5, <3>1
        <4> QED
          BY <3>1, <4>1, TurnIs
      <3>3. i % 2 = 0 /\ (i + 1) \div 2 = n + 1
        BY <2>4, Halves
      <3> QED
        BY <1>1, <1>4, <2>1, <3>2, <3>3
    <2> QED
      BY <2>2, <2>3, <2>4
  <1>7. x = y
    <2>1. 2 * (n + 1) = 2 * n + 2
      OBVIOUS
    <2> QED
      BY <1>2, <1>5, <1>6, <2>1, SeqEqual
  <1> QED
    BY <1>7 DEF x, y, z, more

LEMMA NothingYet == Newest(Transcript(<<>>), MaxMessages) = <<>>
  <1> DEFINE x == Transcript(<<>>)
             y == Newest(x, MaxMessages)
  <1>0. <<>> \in Seq(Nat) /\ Len(<<>>) = 0
    OBVIOUS
  <1>1. PICK e \in Seq(Nat) : e = <<>> /\ Len(e) = 0
    BY <1>0
  <1>2. x \in Seq(Messages) /\ Len(x) = 0
    <2>1. Transcript(e) \in Seq(Messages) /\ Len(Transcript(e)) = 2 * Len(e)
      BY TranscriptIs
    <2>2. x = Transcript(e)
      BY <1>1
    <2> QED
      BY <1>1, <2>1, <2>2
  <1> HIDE DEF x
  <1>3. MaxMessages \in Nat /\ ~(0 > MaxMessages)
    BY ConstantsOK
  <1>4. y \in Seq(Messages) /\ Len(y) = 0
    BY <1>2, <1>3, NewestIs
  <1> HIDE DEF y
  <1>5. y = <<>>
    BY <1>4, EmptySeq
  <1> QED
    BY <1>5 DEF x, y

-----------------------------------------------------------------------------
(* What the handlers, their replies and the histories hold.                *)

Handlers == {"closed", "reading", "generating", "sending", "replying"}
Frames == [kind : {"token", "done", "error"}, n : Nat]
Asked == [turn : Nat, session : SessionIds, limit : Nat, tokens : Nat, history : Seq(Messages)]
Answers == {"generating", "sending"}
Active == {c \in Connections : handler[c] \in Answers}

HistoryTypes ==
  /\ DOMAIN histories \subseteq SessionIds /\ histories \in [DOMAIN histories -> Seq(Messages)]
  /\ ledger \in [SessionIds -> Seq(Nat)]
ChatTypes ==
  /\ handler \in [Connections -> Handlers] /\ alive \in [Connections -> BOOLEAN]
  /\ reply \in [Connections -> Seq(Frames)] /\ request \in [Connections -> Asked \cup {Idle}]
  /\ \A c \in Active : request[c] \in Asked
  /\ HistoryTypes
  /\ tokensTotal \in Nat /\ sentTotal \in Nat /\ accepted \in Nat

\* Frames are numbered, and only the last one closes.
Numbered(r) ==
  \A i \in DOMAIN r : /\ r[i].kind = "token" => r[i].n = i - 1
                      /\ r[i].kind = "done" => r[i].n = i - 1
                      /\ Closes(r[i]) => i = Len(r)
Closed(r) == r # <<>> /\ Closes(r[Len(r)])

Replying(c) ==
  /\ Numbered(reply[c])
  /\ handler[c] = "closed" => reply[c] = <<>>
  /\ handler[c] = "replying" => Closed(reply[c])
  /\ handler[c] = "reading" => reply[c] = <<>> \/ Closed(reply[c])
  /\ handler[c] \in Answers => /\ Len(reply[c]) = request[c].tokens
                               /\ Len(reply[c]) <= request[c].limit
                               /\ \A i \in DOMAIN reply[c] : reply[c][i].kind = "token"

\* A token nobody was sent cost a request its answer.
Counted ==
  /\ IsFiniteSet(Active) /\ sentTotal <= tokensTotal
  /\ tokensTotal + Cardinality(Active) <= sentTotal + accepted

ChatInv ==
  ChatTypes /\ (\A c \in Connections : Replying(c)) /\ Counted /\ KeepsNewestTurns

LEMMA ChatInvInit == Init => ChatInv
  <1> SUFFICES ASSUME Init PROVE ChatInv
    OBVIOUS
  <1>1. Active = {}
    BY DEF Init, Active, Answers
  <1>2. ChatTypes
    <2>1. \A c \in Connections : "closed" \in Handlers /\ <<>> \in Seq(Frames) /\ Idle \in Asked \cup {Idle}
      BY DEF Handlers
    <2>2. /\ handler \in [Connections -> Handlers] /\ alive \in [Connections -> BOOLEAN]
          /\ reply \in [Connections -> Seq(Frames)] /\ request \in [Connections -> Asked \cup {Idle}]
      BY <2>1 DEF Init
    <2>3. DOMAIN histories = {} /\ histories \in [DOMAIN histories -> Seq(Messages)]
      BY DEF Init
    <2>4. ledger \in [SessionIds -> Seq(Nat)]
      BY DEF Init
    <2>5. tokensTotal \in Nat /\ sentTotal \in Nat /\ accepted \in Nat
      BY DEF Init
    <2> QED
      BY <1>1, <2>2, <2>3, <2>4, <2>5 DEF ChatTypes, HistoryTypes
  <1>3. \A c \in Connections : Replying(c)
    BY DEF Init, Replying, Numbered, Answers
  <1>4. Counted
    <2>1. IsFiniteSet(Active) /\ Cardinality(Active) = 0
      BY <1>1, FS_EmptySet
    <2> QED
      BY <2>1 DEF Counted, Init
  <1>5. KeepsNewestTurns
    <2>1. ASSUME NEW s \in SessionIds PROVE ledger[s] = <<>> /\ s \notin DOMAIN histories
      BY DEF Init
    <2> QED
      BY <2>1, NothingYet DEF KeepsNewestTurns
  <1> QED
    BY <1>2, <1>3, <1>4, <1>5 DEF ChatInv

-----------------------------------------------------------------------------
(* A step of one connection.                                               *)

\* What a step of c leaves of the other connections, and where c then is.
Turned(c, h, r) ==
  /\ handler' \in [Connections -> Handlers] /\ reply' \in [Connections -> Seq(Frames)]
  /\ request' \in [Connections -> Asked \cup {Idle}] /\ alive' \in [Connections -> BOOLEAN]
  /\ handler'[c] = h /\ reply'[c] = r
  /\ \A d \in Connections \ {c} : handler'[d] = handler[d] /\ reply'[d] = reply[d] /\ request'[d] = request[d]

LEMMA TurnedStep ==
  ASSUME ChatInv, NEW c \in Connections, NEW h, NEW r, Turned(c, h, r), Replying(c)',
         h \in Answers => request'[c] \in Asked
  PROVE  /\ \A d \in Connections : Replying(d)'
         /\ \A d \in Active' : request'[d] \in Asked
         /\ h \in Answers => Active' = Active \cup {c}
         /\ h \notin Answers => Active' = Active \ {c}
  <1>1. ASSUME NEW d \in Connections \ {c} PROVE Replying(d)'
    <2>1. /\ handler'[d] = handler[d] /\ reply'[d] = reply[d] /\ request'[d] = request[d]
      BY DEF Turned
    <2>2. Replying(d)
      BY DEF ChatInv
    <2> QED
      BY <2>1, <2>2 DEF Replying, Numbered, Closed
  <1>2. ASSUME NEW d \in Active' PROVE request'[d] \in Asked
    <2>1. d \in Connections /\ handler'[d] \in Answers
      BY DEF Active
    <2>2. CASE d = c
      BY <2>1, <2>2 DEF Turned
    <2>3. CASE d # c
      <3>1. handler'[d] = handler[d] /\ request'[d] = request[d]
        BY <2>1, <2>3 DEF Turned
      <3>2. d \in Active
        BY <2>1, <3>1 DEF Active
      <3> QED
        BY <3>1, <3>2 DEF ChatInv, ChatTypes
    <2> QED
      BY <2>2, <2>3
  <1>3. \A d \in Connections : d # c => handler'[d] = handler[d]
    BY DEF Turned
  <1>4. handler'[c] = h
    BY DEF Turned
  <1>5. h \in Answers => Active' = Active \cup {c}
    BY <1>3, <1>4 DEF Active
  <1>6. h \notin Answers => Active' = Active \ {c}
    BY <1>3, <1>4 DEF Active
  <1> QED
    BY <1>1, <1>2, <1>5, <1>6

LEMMA Fewer ==
  ASSUME NEW S, NEW x \in S, IsFiniteSet(S)
  PROVE  IsFiniteSet(S \ {x}) /\ Cardinality(S) = Cardinality(S \ {x}) + 1
         /\ Cardinality(S \ {x}) \in Nat
  <1>1. IsFiniteSet(S \ {x})
    BY FS_Subset
  <1>2. (S \ {x}) \cup {x} = S /\ x \notin S \ {x}
    OBVIOUS
  <1> QED
    BY <1>1, <1>2, FS_AddElement, FS_CardinalityType

LEMMA MoreActive ==
  ASSUME ChatInv, NEW c \in Connections, c \notin Active, Active' = Active \cup {c},
         sentTotal' = sentTotal, tokensTotal' = tokensTotal, accepted' = accepted + 1
  PROVE  Counted'
  <1>1. IsFiniteSet(Active) /\ Cardinality(Active) \in Nat
    BY FS_CardinalityType DEF ChatInv, Counted
  <1>2. IsFiniteSet(Active') /\ Cardinality(Active') = Cardinality(Active) + 1
    BY <1>1, FS_AddElement
  <1> PICK n \in Nat : n = Cardinality(Active)
    BY <1>1
  <1>3. /\ tokensTotal \in Nat /\ sentTotal \in Nat /\ accepted \in Nat
        /\ sentTotal <= tokensTotal /\ tokensTotal + n <= sentTotal + accepted
    BY DEF ChatInv, ChatTypes, Counted
  <1>4. tokensTotal + (n + 1) <= sentTotal + (accepted + 1)
    BY <1>3
  <1>5. tokensTotal' + Cardinality(Active') <= sentTotal' + accepted'
    BY <1>2, <1>4
  <1>6. sentTotal' <= tokensTotal'
    BY <1>3
  <1> QED
    BY <1>2, <1>5, <1>6 DEF Counted

LEMMA SameActive ==
  ASSUME ChatInv, Active' = Active, accepted' = accepted,
         \/ sentTotal' = sentTotal /\ tokensTotal' = tokensTotal
         \/ sentTotal' = sentTotal + 1 /\ tokensTotal' = tokensTotal + 1
  PROVE  Counted'
  <1>1. IsFiniteSet(Active) /\ Cardinality(Active) \in Nat
    BY FS_CardinalityType DEF ChatInv, Counted
  <1>2. IsFiniteSet(Active') /\ Cardinality(Active') = Cardinality(Active)
    BY <1>1
  <1> PICK n \in Nat : n = Cardinality(Active)
    BY <1>1
  <1>3. /\ tokensTotal \in Nat /\ sentTotal \in Nat /\ accepted \in Nat
        /\ sentTotal <= tokensTotal /\ tokensTotal + n <= sentTotal + accepted
    BY DEF ChatInv, ChatTypes, Counted
  <1>4. (tokensTotal + 1) + n <= (sentTotal + 1) + accepted /\ sentTotal + 1 <= tokensTotal + 1
    BY <1>3
  <1>5. tokensTotal' + Cardinality(Active') <= sentTotal' + accepted'
    BY <1>2, <1>3, <1>4
  <1>6. sentTotal' <= tokensTotal'
    BY <1>3, <1>4
  <1> QED
    BY <1>2, <1>5, <1>6 DEF Counted

\* A connection that stops answering may have counted one more token.
LEMMA FewerActive ==
  ASSUME ChatInv, NEW c \in Connections, Active' = Active \ {c}, accepted' = accepted,
         sentTotal' = sentTotal,
         tokensTotal' = tokensTotal \/ (c \in Active /\ tokensTotal' = tokensTotal + 1)
  PROVE  Counted'
  <1>1. IsFiniteSet(Active) /\ Cardinality(Active) \in Nat
    BY FS_CardinalityType DEF ChatInv, Counted
  <1>2. CASE c \notin Active
    <2>1. Active' = Active
      BY <1>2
    <2> QED
      BY <1>2, <2>1, SameActive
  <1>3. CASE c \in Active
    <2>1. IsFiniteSet(Active') /\ Cardinality(Active) = Cardinality(Active') + 1 /\ Cardinality(Active') \in Nat
      BY <1>1, <1>3, Fewer
    <2> PICK n \in Nat : n = Cardinality(Active')
      BY <2>1
    <2>2. /\ tokensTotal \in Nat /\ sentTotal \in Nat /\ accepted \in Nat
          /\ sentTotal <= tokensTotal /\ tokensTotal + (n + 1) <= sentTotal + accepted
      BY <2>1 DEF ChatInv, ChatTypes, Counted
    <2>3. /\ tokensTotal + n <= sentTotal + accepted /\ (tokensTotal + 1) + n <= sentTotal + accepted
          /\ sentTotal <= tokensTotal + 1
      BY <2>2
    <2>4. tokensTotal' + n <= sentTotal' + accepted' /\ sentTotal' <= tokensTotal'
      BY <2>2, <2>3
    <2> QED
      BY <2>1, <2>4 DEF Counted
  <1> QED
    BY <1>2, <1>3

Handled ==
  /\ handler' \in [Connections -> Handlers] /\ reply' \in [Connections -> Seq(Frames)]
  /\ request' \in [Connections -> Asked \cup {Idle}] /\ alive' \in [Connections -> BOOLEAN]
  /\ \A d \in Connections : Replying(d)'
  /\ \A d \in Active' : request'[d] \in Asked

LEMMA AllOfIt ==
  ASSUME Handled, Counted', HistoryTypes', KeepsNewestTurns',
         tokensTotal' \in Nat, sentTotal' \in Nat, accepted' \in Nat
  PROVE  ChatInv'
  <1>1. ChatTypes'
    BY DEF Handled, ChatTypes
  <1> QED
    BY <1>1 DEF Handled, ChatInv

LEMMA SameHistories ==
  ASSUME ChatInv, histories' = histories, ledger' = ledger
  PROVE  HistoryTypes' /\ KeepsNewestTurns'
  <1>1. HistoryTypes /\ KeepsNewestTurns
    BY DEF ChatInv, ChatTypes
  <1>2. HistoryTypes'
    BY <1>1 DEF HistoryTypes
  <1>3. KeepsNewestTurns'
    BY <1>1 DEF KeepsNewestTurns
  <1> QED
    BY <1>2, <1>3

\* Nothing but modelLoaded, or whether a client is there, changed.
LEMMA StillStep ==
  ASSUME ChatInv, UNCHANGED <<histories, tokensTotal, handler, request, accepted, reply, ledger, sentTotal>>,
         alive' \in [Connections -> BOOLEAN]
  PROVE  ChatInv'
  <1>1. Active' = Active
    BY DEF Active
  <1>2. ASSUME NEW d \in Connections PROVE Replying(d)'
    <2>1. Replying(d)
      BY DEF ChatInv
    <2> QED
      BY <2>1 DEF Replying, Numbered, Closed
  <1>3. Handled
    BY <1>1, <1>2 DEF Handled, ChatInv, ChatTypes
  <1>4. Counted'
    BY <1>1, SameActive
  <1>5. tokensTotal' \in Nat /\ sentTotal' \in Nat /\ accepted' \in Nat
    BY DEF ChatInv, ChatTypes
  <1> QED
    BY <1>3, <1>4, <1>5, SameHistories, AllOfIt

LEMMA ConnectionIs ==
  ASSUME ChatInv, NEW c \in Connections
  PROVE  /\ handler[c] \in Handlers /\ reply[c] \in Seq(Frames) /\ Replying(c) /\ alive[c] \in BOOLEAN
         /\ handler[c] \in Answers => request[c] \in Asked
         /\ tokensTotal \in Nat /\ sentTotal \in Nat /\ accepted \in Nat
         /\ c \in Active <=> handler[c] \in Answers
  BY DEF ChatInv, ChatTypes, Active

LEMMA TurnedIs ==
  ASSUME ChatInv, NEW c \in Connections, NEW h \in Handlers, NEW r \in Seq(Frames),
         NEW q \in Asked \cup {Idle},
         handler' = [handler EXCEPT ![c] = h], reply' = [reply EXCEPT ![c] = r],
         request' = [request EXCEPT ![c] = q], alive' \in [Connections -> BOOLEAN]
  PROVE  Turned(c, h, r) /\ request'[c] = q
  BY DEF Turned, ChatInv, ChatTypes

\* A frame that closes the answer, or a connection that is gone.
LEMMA LastStep ==
  ASSUME ChatInv, NEW c \in Connections, NEW frames \in Seq(Frames), SendLast(c, frames),
         Numbered(frames), Closed(frames) \/ ~alive[c], alive' = alive
  PROVE  Handled /\ Active' = Active \ {c}
  <1> DEFINE h == IF alive[c] THEN "replying" ELSE "closed"
             r == IF alive[c] THEN frames ELSE <<>>
  <1>1. h \in Handlers /\ r \in Seq(Frames) /\ Numbered(r) /\ h \notin Answers /\ h # "reading"
    BY DEF Handlers, Numbered, Answers
  <1>2. (h = "replying" => Closed(r)) /\ (h = "closed" => r = <<>>)
    OBVIOUS
  <1>3. handler' = [handler EXCEPT ![c] = h] /\ reply' = [reply EXCEPT ![c] = r]
    BY DEF SendLast
  <1> HIDE DEF h, r
  <1>4. request' = [request EXCEPT ![c] = Idle] /\ alive' \in [Connections -> BOOLEAN]
    BY DEF SendLast, ChatInv, ChatTypes
  <1>5. Turned(c, h, r)
    BY <1>1, <1>3, <1>4, TurnedIs
  <1>6. handler'[c] = h /\ reply'[c] = r
    BY <1>5 DEF Turned
  <1>7. Replying(c)'
    BY <1>1, <1>2, <1>6 DEF Replying, Numbered, Closed
  <1>8. /\ \A d \in Connections : Replying(d)'
        /\ \A d \in Active' : request'[d] \in Asked
        /\ Active' = Active \ {c}
    BY <1>1, <1>5, <1>7, TurnedStep
  <1> QED
    BY <1>5, <1>8 DEF Handled, Turned

LEMMA OneFrame ==
  ASSUME NEW k \in {"done", "error"}
  PROVE  /\ <<Frame(k, 0)>> \in Seq(Frames) /\ Numbered(<<Frame(k, 0)>>) /\ Closed(<<Frame(k, 0)>>)
  <1> PICK f : f = Frame(k, 0)
    OBVIOUS
  <1>1. f \in Frames /\ f.kind = k /\ f.n = 0
    BY DEF Frame, Frames
  <1> PICK r : r = <<f>>
    OBVIOUS
  <1>2. r \in Seq(Frames) /\ Len(r) = 1 /\ DOMAIN r = 1 .. 1 /\ r[1] = f /\ r # <<>>
    BY <1>1
  <1>3. \A i \in 1 .. 1 : i = 1
    OBVIOUS
  <1>4. Numbered(r)
    BY <1>1, <1>2, <1>3 DEF Numbered
  <1>5. Closed(r)
    BY <1>1, <1>2 DEF Closed, Closes
  <1> QED
    BY <1>2, <1>4, <1>5

\* What was sent of an answer, and one more frame.
LEMMA FrameAdded ==
  ASSUME NEW r \in Seq(Frames), Numbered(r), \A i \in DOMAIN r : r[i].kind = "token",
         NEW k \in {"token", "done", "error"}, NEW n \in Nat, k = "error" \/ n = Len(r)
  PROVE  LET s == Append(r, Frame(k, n)) IN
         /\ s \in Seq(Frames) /\ Len(s) = Len(r) + 1 /\ Numbered(s)
         /\ k # "token" => Closed(s)
         /\ k = "token" => \A i \in DOMAIN s : s[i].kind = "token"
  <1> PICK f : f = Frame(k, n)
    OBVIOUS
  <1>1. f \in Frames /\ f.kind = k /\ f.n = n
    BY DEF Frame, Frames
  <1> PICK m \in Nat : m = Len(r)
    BY LenProperties
  <1> PICK s : s = Append(r, f)
    OBVIOUS
  <1>2. /\ s \in Seq(Frames) /\ Len(s) = m + 1 /\ DOMAIN s = 1 .. m + 1 /\ s[m + 1] = f /\ s # <<>>
        /\ \A i \in 1 .. m : s[i] = r[i]
    BY <1>1
  <1>3. DOMAIN r = 1 .. m
    BY LenProperties
  <1>4. ASSUME NEW i \in 1 .. m + 1
        PROVE  /\ s[i].kind = "token" => s[i].n = i - 1
               /\ s[i].kind = "done" => s[i].n = i - 1
               /\ Closes(s[i]) => i = m + 1
    <2>1. CASE i \in 1 .. m
      <3>1. s[i] = r[i] /\ s[i].kind = "token"
        BY <1>2, <1>3, <2>1
      <3>2. s[i].n = i - 1 /\ ~Closes(s[i])
        BY <1>3, <2>1, <3>1 DEF Numbered, Closes
      <3> QED
        BY <3>1, <3>2
    <2>2. CASE i = m + 1
      <3>1. s[i] = f /\ i - 1 = m
        BY <1>2, <2>2
      <3> QED
        BY <1>1, <2>2, <3>1
    <2> QED
      BY <2>1, <2>2
  <1>5. Numbered(s)
    BY <1>2, <1>4 DEF Numbered
  <1>6. k # "token" => Closed(s)
    BY <1>1, <1>2 DEF Closed, Closes
  <1>7. k = "token" => \A i \in DOMAIN s : s[i].kind = "token"
    <2>1. \A i \in 1 .. m + 1 : i \in 1 .. m \/ i = m + 1
      OBVIOUS
    <2> QED
      BY <1>1, <1>2, <1>3, <2>1
  <1> QED
    BY <1>2, <1>5, <1>6, <1>7

-----------------------------------------------------------------------------
(* The histories a step leaves.                                            *)

LEMMA EnsuredIs ==
  ASSUME ChatInv, NEW session \in SessionIds
  PROVE  LET h == Ensured(session) IN
         /\ DOMAIN h = DOMAIN histories \cup {session} /\ DOMAIN h \subseteq SessionIds
         /\ h \in [DOMAIN h -> Seq(Messages)]
         /\ \A s \in DOMAIN h : h[s] = IF s \in DOMAIN histories THEN histories[s] ELSE <<>>
         /\ h[session] = Newest(Transcript(ledger[session]), MaxMessages)
  <1>1. /\ DOMAIN histories \subseteq SessionIds /\ histories \in [DOMAIN histories -> Seq(Messages)]
        /\ <<>> \in Seq(Messages)
    BY DEF ChatInv, ChatTypes, HistoryTypes
  <1> DEFINE D == DOMAIN histories \cup {session}
             h == [s \in D |-> IF s \in DOMAIN histories THEN histories[s] ELSE <<>>]
  <1>2. h = Ensured(session)
    BY DEF Ensured
  <1>3. D \subseteq SessionIds /\ session \in D
    BY <1>1
  <1>4. DOMAIN h = D /\ \A s \in D : h[s] = IF s \in DOMAIN histories THEN histories[s] ELSE <<>>
    OBVIOUS
  <1>5. \A s \in D : (IF s \in DOMAIN histories THEN histories[s] ELSE <<>>) \in Seq(Messages)
    BY <1>1
  <1>6. h \in [D -> Seq(Messages)]
    BY <1>5
  <1>7. h[session] = Newest(Transcript(ledger[session]), MaxMessages)
    BY <1>3, <1>4 DEF ChatInv, KeepsNewestTurns
  <1> HIDE DEF h
  <1> QED
    BY <1>2, <1>3, <1>4, <1>6, <1>7

LEMMA EnsuredStep ==
  ASSUME ChatInv, NEW session \in SessionIds, histories' = Ensured(session), ledger' = ledger
  PROVE  HistoryTypes' /\ KeepsNewestTurns'
  <1> DEFINE h == Ensured(session)
  <1>1. /\ DOMAIN h = DOMAIN histories \cup {session} /\ DOMAIN h \subseteq SessionIds
        /\ h \in [DOMAIN h -> Seq(Messages)]
        /\ \A s \in DOMAIN h : h[s] = IF s \in DOMAIN histories THEN histories[s] ELSE <<>>
    BY EnsuredIs
  <1> HIDE DEF h
  <1>2. histories' = h
    BY DEF h
  <1>3. HistoryTypes'
    BY <1>1, <1>2 DEF ChatInv, ChatTypes, HistoryTypes
  <1>4. ASSUME NEW s \in SessionIds
        PROVE  (IF s \in DOMAIN histories' THEN histories'[s] ELSE <<>>)
                 = (IF s \in DOMAIN histories THEN histories[s] ELSE <<>>)
    BY <1>1, <1>2
  <1>5. KeepsNewestTurns'
    BY <1>4 DEF ChatInv, KeepsNewestTurns
  <1> QED
    BY <1>3, <1>5

LEMMA ResetHistories ==
  ASSUME ChatInv, NEW session \in SessionIds,
         histories' = [s \in DOMAIN histories \ {session} |-> histories[s]],
         ledger' = [ledger EXCEPT ![session] = <<>>]
  PROVE  HistoryTypes' /\ KeepsNewestTurns'
  <1>1. /\ DOMAIN histories \subseteq SessionIds /\ histories \in [DOMAIN histories -> Seq(Messages)]
        /\ ledger \in [SessionIds -> Seq(Nat)] /\ <<>> \in Seq(Nat)
    BY DEF ChatInv, ChatTypes, HistoryTypes
  <1>2. /\ DOMAIN histories' = DOMAIN histories \ {session}
        /\ \A s \in DOMAIN histories \ {session} : histories'[s] = histories[s]
    OBVIOUS
  <1>3. histories' \in [DOMAIN histories' -> Seq(Messages)]
    BY <1>1, <1>2
  <1>4. ledger' \in [SessionIds -> Seq(Nat)]
    BY <1>1
  <1>5. HistoryTypes'
    BY <1>1, <1>2, <1>3, <1>4 DEF HistoryTypes
  <1>6. ASSUME NEW s \in SessionIds
        PROVE  Newest(Transcript(ledger'[s]), MaxMessages) =
                 IF s \in DOMAIN histories' THEN histories'[s] ELSE <<>>
    <2>1. CASE s = session
      <3>1. ledger'[s] = <<>> /\ s \notin DOMAIN histories'
        BY <1>1, <1>2, <2>1
      <3> QED
        BY <3>1, NothingYet
    <2>2. CASE s # session
      <3>1. ledger'[s] = ledger[s]
        BY <1>1, <2>2
      <3>2. (IF s \in DOMAIN histories' THEN histories'[s] ELSE <<>>)
              = (IF s \in DOMAIN histories THEN histories[s] ELSE <<>>)
        BY <1>2, <2>2
      <3> QED
        BY <3>1, <3>2 DEF ChatInv, KeepsNewestTurns
    <2> QED
      BY <2>1, <2>2
  <1>7. KeepsNewestTurns'
    BY <1>6 DEF KeepsNewestTurns
  <1> QED
    BY <1>5, <1>7

\* append_turn keeps the transcript, cut as it was.
LEMMA TurnAppended ==
  ASSUME ChatInv, NEW c \in Connections, request[c] \in Asked, histories' = Appended(c),
         ledger' = [ledger EXCEPT ![request[c].session] = Append(@, request[c].turn)]
  PROVE  HistoryTypes' /\ KeepsNewestTurns'
  <1> PICK session \in SessionIds : session = request[c].session
    BY DEF Asked
  <1> PICK t \in Nat : t = request[c].turn
    BY DEF Asked
  <1> PICK n \in Nat : n = MaxMessages
    BY ConstantsOK
  <1> DEFINE h == Ensured(session)
             old == Transcript(ledger[session])
             kept == Newest(h[session] \o Turn(t), n)
  <1>1. /\ DOMAIN h = DOMAIN histories \cup {session} /\ DOMAIN h \subseteq SessionIds
        /\ h \in [DOMAIN h -> Seq(Messages)]
        /\ \A s \in DOMAIN h : h[s] = IF s \in DOMAIN histories THEN histories[s] ELSE <<>>
        /\ h[session] = Newest(old, n)
    BY EnsuredIs
  <1>2. histories' = [h EXCEPT ![session] = kept]
    BY DEF Appended
  <1>3. ledger \in [SessionIds -> Seq(Nat)] /\ ledger' = [ledger EXCEPT ![session] = Append(@, t)]
    BY DEF ChatInv, ChatTypes, HistoryTypes
  <1>4. /\ ledger[session] \in Seq(Nat) /\ ledger'[session] = Append(ledger[session], t)
        /\ ledger' \in [SessionIds -> Seq(Nat)]
        /\ \A s \in SessionIds : s # session => ledger'[s] = ledger[s]
    BY <1>3
  <1>5. Transcript(ledger'[session]) = old \o Turn(t)
    BY <1>4, TranscriptMore
  <1>6. old \in Seq(Messages) /\ Turn(t) \in Seq(Messages)
    BY <1>4, TranscriptIs, TurnIs
  <1> HIDE DEF h, old
  <1>7. kept = Newest(old \o Turn(t), n)
    BY <1>1, <1>6, NewestAgain
  <1>8. kept \in Seq(Messages)
    BY <1>6, <1>7, ConcatProperties, NewestIs
  <1> HIDE DEF kept
  <1>9. /\ DOMAIN histories' = DOMAIN h /\ histories'[session] = kept
        /\ \A s \in DOMAIN h : s # session => histories'[s] = h[s]
    BY <1>1, <1>2
  <1>10. histories' \in [DOMAIN histories' -> Seq(Messages)]
    BY <1>1, <1>2, <1>8
  <1>11. HistoryTypes'
    BY <1>1, <1>4, <1>9, <1>10 DEF HistoryTypes
  <1>12. ASSUME NEW s \in SessionIds
         PROVE  Newest(Transcript(ledger'[s]), MaxMessages) =
                  IF s \in DOMAIN histories' THEN histories'[s] ELSE <<>>
    <2>1. CASE s = session
      BY <1>1, <1>5, <1>7, <1>9, <2>1
    <2>2. CASE s # session
      <3>1. (IF s \in DOMAIN histories' THEN histories'[s] ELSE <<>>)
              = (IF s \in DOMAIN histories THEN histories[s] ELSE <<>>)
        BY <1>1, <1>9, <2>2
      <3> QED
        BY <1>4, <2>2, <3>1 DEF ChatInv, KeepsNewestTurns
    <2> QED
      BY <2>1, <2>2
  <1>13. KeepsNewestTurns'
    BY <1>12 DEF KeepsNewestTurns
  <1> QED
    BY <1>11, <1>13

-----------------------------------------------------------------------------
(* The actions.                                                            *)

LEMMA ConnectStep == ASSUME ChatInv, NEW c \in Connections, Connect(c) PROVE ChatInv'
  <1>1. /\ handler[c] = "closed" /\ reply[c] = <<>> /\ reply[c] \in Seq(Frames) /\ Numbered(reply[c])
        /\ request[c] \in Asked \cup {Idle}
    BY ConnectionIs DEF Connect, Replying, ChatInv, ChatTypes
  <1>2. "reading" \in Handlers /\ "reading" \notin Answers
    BY DEF Handlers, Answers
  <1>3. /\ handler' = [handler EXCEPT ![c] = "reading"] /\ reply' = [reply EXCEPT ![c] = reply[c]]
        /\ request' = [request EXCEPT ![c] = request[c]] /\ alive' \in [Connections -> BOOLEAN]
    BY DEF Connect, ChatInv, ChatTypes
  <1>4. Turned(c, "reading", reply[c])
    BY <1>1, <1>2, <1>3, TurnedIs
  <1>5. Replying(c)'
    BY <1>1, <1>4 DEF Turned, Replying, Answers
  <1>6. /\ \A d \in Connections : Replying(d)'
        /\ \A d \in Active' : request'[d] \in Asked
        /\ Active' = Active \ {c}
    BY <1>2, <1>4, <1>5, TurnedStep
  <1>7. Handled
    BY <1>4, <1>6 DEF Handled, Turned
  <1>8. Counted'
    BY <1>6, FewerActive DEF Connect
  <1>9. tokensTotal' \in Nat /\ sentTotal' \in Nat /\ accepted' \in Nat
    BY ConnectionIs DEF Connect
  <1> QED
    BY <1>7, <1>8, <1>9, SameHistories, AllOfIt DEF Connect

LEMMA HandlerEndsStep == ASSUME ChatInv, NEW c \in Connections, HandlerEnds(c) PROVE ChatInv'
  <1>2. "closed" \in Handlers /\ "closed" \notin Answers /\ <<>> \in Seq(Frames)
    BY DEF Handlers, Answers
  <1>3. /\ handler' = [handler EXCEPT ![c] = "closed"] /\ reply' = [reply EXCEPT ![c] = <<>>]
        /\ request' = [request EXCEPT ![c] = Idle] /\ alive' \in [Connections -> BOOLEAN]
    BY DEF HandlerEnds, ChatInv, ChatTypes
  <1>4. Turned(c, "closed", <<>>)
    BY <1>2, <1>3, TurnedIs
  <1>5. Replying(c)'
    BY <1>4 DEF Turned, Replying, Answers, Numbered
  <1>6. /\ \A d \in Connections : Replying(d)'
        /\ \A d \in Active' : request'[d] \in Asked
        /\ Active' = Active \ {c}
    BY <1>2, <1>4, <1>5, TurnedStep
  <1>7. Handled
    BY <1>4, <1>6 DEF Handled, Turned
  <1>8. Counted'
    BY <1>6, FewerActive DEF HandlerEnds
  <1>9. tokensTotal' \in Nat /\ sentTotal' \in Nat /\ accepted' \in Nat
    BY ConnectionIs DEF HandlerEnds
  <1> QED
    BY <1>7, <1>8, <1>9, SameHistories, AllOfIt DEF HandlerEnds

LEMMA RefuseStep == ASSUME ChatInv, NEW c \in Connections, Refuse(c) PROVE ChatInv'
  <1>1. Handled /\ Active' = Active \ {c}
    BY OneFrame, LastStep DEF Refuse
  <1>2. Counted'
    BY <1>1, FewerActive DEF Refuse
  <1>3. tokensTotal' \in Nat /\ sentTotal' \in Nat /\ accepted' \in Nat
    BY ConnectionIs DEF Refuse
  <1> QED
    BY <1>1, <1>2, <1>3, SameHistories, AllOfIt DEF Refuse

LEMMA ResetStep ==
  ASSUME ChatInv, NEW c \in Connections, NEW session \in SessionIds, Reset(c, session) PROVE ChatInv'
  <1>1. Handled /\ Active' = Active \ {c}
    BY OneFrame, LastStep DEF Reset
  <1>2. Counted'
    BY <1>1, FewerActive DEF Reset
  <1>3. tokensTotal' \in Nat /\ sentTotal' \in Nat /\ accepted' \in Nat
    BY ConnectionIs DEF Reset
  <1>4. HistoryTypes' /\ KeepsNewestTurns'
    BY ResetHistories DEF Reset
  <1> QED
    BY <1>1, <1>2, <1>3, <1>4, AllOfIt

LEMMA AcceptStep ==
  ASSUME ChatInv, NEW c \in Connections, NEW session \in SessionIds, NEW limit \in Limits,
         Accept(c, session, limit)
  PROVE  ChatInv'
  <1> PICK n \in Nat : n = accepted
    BY ConnectionIs
  <1> DEFINE q == [turn |-> n + 1, session |-> session, limit |-> limit,
                   tokens |-> 0, history |-> Ensured(session)[session]]
  <1>1. limit \in Nat /\ limit > 0 /\ n + 1 \in Nat /\ accepted' = n + 1
    BY ConstantsOK DEF Accept
  <1>2. Ensured(session)[session] \in Seq(Messages)
    BY EnsuredIs
  <1>3. q \in Asked /\ q.tokens = 0 /\ q.limit = limit
    BY <1>1, <1>2 DEF Asked
  <1>4. "generating" \in Handlers /\ "generating" \in Answers /\ <<>> \in Seq(Frames)
    BY DEF Handlers, Answers
  <1>5. /\ handler[c] = "reading" /\ handler' = [handler EXCEPT ![c] = "generating"]
        /\ reply' = [reply EXCEPT ![c] = <<>>] /\ request' = [request EXCEPT ![c] = q]
        /\ alive' \in [Connections -> BOOLEAN]
    BY <1>1 DEF Accept, ChatInv, ChatTypes
  <1> HIDE DEF q
  <1>6. Turned(c, "generating", <<>>) /\ request'[c] = q
    BY <1>3, <1>4, <1>5, TurnedIs
  <1>7. Replying(c)'
    <2>1. handler'[c] = "generating" /\ reply'[c] = <<>> /\ request'[c].tokens = 0 /\ request'[c].limit = limit
      BY <1>3, <1>6 DEF Turned
    <2>2. Len(<<>>) = 0 /\ 0 <= limit /\ DOMAIN <<>> = {}
      BY <1>1
    <2> QED
      BY <2>1, <2>2 DEF Replying, Numbered
  <1>8. /\ \A d \in Connections : Replying(d)'
        /\ \A d \in Active' : request'[d] \in Asked
        /\ Active' = Active \cup {c}
    BY <1>3, <1>4, <1>6, <1>7, TurnedStep
  <1>9. Handled
    BY <1>6, <1>8 DEF Handled, Turned
  <1>10. c \notin Active
    BY <1>5 DEF Active, Answers
  <1>11. Counted'
    BY <1>8, <1>10, MoreActive DEF Accept
  <1>12. tokensTotal' \in Nat /\ sentTotal' \in Nat /\ accepted' \in Nat
    BY <1>1, ConnectionIs DEF Accept
  <1>13. HistoryTypes' /\ KeepsNewestTurns'
    BY EnsuredStep DEF Accept
  <1> QED
    BY <1>9, <1>11, <1>12, <1>13, AllOfIt

LEMMA TokenStep == ASSUME ChatInv, NEW c \in Connections, Token(c) PROVE ChatInv'
  <1>0. /\ handler[c] = "generating" /\ "generating" \in Answers /\ reply[c] \in Seq(Frames)
        /\ request[c] \in Asked /\ Replying(c) /\ c \in Active
    BY ConnectionIs DEF Token, Answers
  <1> PICK n \in Nat : n = request[c].tokens
    BY <1>0 DEF Asked
  <1>1. /\ Len(reply[c]) = n /\ n < request[c].limit /\ Numbered(reply[c])
        /\ \A i \in DOMAIN reply[c] : reply[c][i].kind = "token"
    BY <1>0 DEF Replying, Token
  <1>2. CASE alive[c]
    <2> DEFINE r == Append(reply[c], Frame("token", n))
               q == [request[c] EXCEPT !.tokens = @ + 1]
    <2>1. r \in Seq(Frames) /\ Len(r) = n + 1 /\ Numbered(r) /\ \A i \in DOMAIN r : r[i].kind = "token"
      BY <1>0, <1>1, FrameAdded
    <2>2. q \in Asked /\ q.tokens = n + 1 /\ q.limit = request[c].limit /\ q.limit \in Nat
      BY <1>0 DEF Asked
    <2>3. "sending" \in Handlers /\ "sending" \in Answers
      BY DEF Handlers, Answers
    <2>4. /\ handler' = [handler EXCEPT ![c] = "sending"] /\ reply' = [reply EXCEPT ![c] = r]
          /\ request' = [request EXCEPT ![c] = q] /\ alive' \in [Connections -> BOOLEAN]
      BY <1>2 DEF Token, ChatInv, ChatTypes
    <2> HIDE DEF r, q
    <2>5. Turned(c, "sending", r) /\ request'[c] = q
      BY <2>1, <2>2, <2>3, <2>4, TurnedIs
    <2>6. Replying(c)'
      <3>1. handler'[c] = "sending" /\ reply'[c] = r /\ request'[c] = q
        BY <2>5 DEF Turned
      <3>2. Len(r) = q.tokens /\ Len(r) <= q.limit
        BY <1>1, <2>1, <2>2
      <3> QED
        BY <2>1, <3>1, <3>2 DEF Replying, Numbered
    <2>7. /\ \A d \in Connections : Replying(d)'
          /\ \A d \in Active' : request'[d] \in Asked
          /\ Active' = Active \cup {c}
      BY <2>2, <2>3, <2>5, <2>6, TurnedStep
    <2>8. Handled
      BY <2>5, <2>7 DEF Handled, Turned
    <2>9. Active' = Active
      BY <1>0, <2>7
    <2>10. sentTotal' = sentTotal + 1 /\ tokensTotal' = tokensTotal + 1 /\ accepted' = accepted
      BY <1>2 DEF Token
    <2>11. Counted'
      BY <2>9, <2>10, SameActive
    <2>12. tokensTotal' \in Nat /\ sentTotal' \in Nat /\ accepted' \in Nat
      BY <2>10, ConnectionIs
    <2> QED
      BY <2>8, <2>11, <2>12, SameHistories, AllOfIt DEF Token
  <1>3. CASE ~alive[c]
    <2>1. <<>> \in Seq(Frames) /\ Numbered(<<>>)
      BY DEF Numbered
    <2>2. SendLast(c, <<>>) /\ sentTotal' = sentTotal /\ alive' = alive
      BY <1>3 DEF Token
    <2>3. Handled /\ Active' = Active \ {c}
      BY <1>3, <2>1, <2>2, LastStep
    <2>4. tokensTotal' = tokensTotal + 1 /\ accepted' = accepted
      BY DEF Token
    <2>5. Counted'
      BY <1>0, <2>2, <2>3, <2>4, FewerActive
    <2>6. tokensTotal' \in Nat /\ sentTotal' \in Nat /\ accepted' \in Nat
      BY <2>2, <2>4, ConnectionIs
    <2> QED
      BY <2>3, <2>5, <2>6, SameHistories, AllOfIt DEF Token
  <1> QED
    BY <1>2, <1>3

LEMMA FinishStep == ASSUME ChatInv, NEW c \in Connections, Finish(c) PROVE ChatInv'
  <1>0. /\ handler[c] = "generating" /\ "generating" \in Answers /\ reply[c] \in Seq(Frames)
        /\ request[c] \in Asked /\ Replying(c)
    BY ConnectionIs DEF Finish, Answers
  <1> PICK n \in Nat : n = request[c].tokens
    BY <1>0 DEF Asked
  <1>1. /\ Len(reply[c]) = n /\ Numbered(reply[c])
        /\ \A i \in DOMAIN reply[c] : reply[c][i].kind = "token"
    BY <1>0 DEF Replying
  <1>2. LET r == Append(reply[c], Frame("done", n)) IN r \in Seq(Frames) /\ Numbered(r) /\ Closed(r)
    BY <1>0, <1>1, FrameAdded
  <1>3. Handled /\ Active' = Active \ {c}
    BY <1>2, LastStep DEF Finish
  <1>4. Counted'
    BY <1>3, FewerActive DEF Finish
  <1>5. tokensTotal' \in Nat /\ sentTotal' \in Nat /\ accepted' \in Nat
    BY ConnectionIs DEF Finish
  <1>6. HistoryTypes' /\ KeepsNewestTurns'
    BY <1>0, TurnAppended DEF Finish
  <1> QED
    BY <1>3, <1>4, <1>5, <1>6, AllOfIt

LEMMA FailStep == ASSUME ChatInv, NEW c \in Connections, Fail(c) PROVE ChatInv'
  <1>0. /\ handler[c] = "generating" /\ "generating" \in Answers /\ reply[c] \in Seq(Frames) /\ Replying(c)
    BY ConnectionIs DEF Fail, Answers
  <1>1. Numbered(reply[c]) /\ \A i \in DOMAIN reply[c] : reply[c][i].kind = "token"
    BY <1>0 DEF Replying
  <1>2. LET r == Append(reply[c], Frame("error", 0)) IN r \in Seq(Frames) /\ Numbered(r) /\ Closed(r)
    BY <1>0, <1>1, FrameAdded
  <1>3. Handled /\ Active' = Active \ {c}
    BY <1>2, LastStep DEF Fail
  <1>4. Counted'
    BY <1>3, FewerActive DEF Fail
  <1>5. tokensTotal' \in Nat /\ sentTotal' \in Nat /\ accepted' \in Nat
    BY ConnectionIs DEF Fail
  <1> QED
    BY <1>3, <1>4, <1>5, SameHistories, AllOfIt DEF Fail

LEMMA DrainedStep == ASSUME ChatInv, NEW c \in Connections, Drained(c) PROVE ChatInv'
  <1>0. /\ reply[c] \in Seq(Frames) /\ Replying(c) /\ request[c] \in Asked \cup {Idle}
        /\ handler[c] \in Answers => request[c] \in Asked
    BY ConnectionIs DEF ChatInv, ChatTypes
  <1>1. /\ reply' = [reply EXCEPT ![c] = reply[c]] /\ request' = [request EXCEPT ![c] = request[c]]
        /\ alive' \in [Connections -> BOOLEAN]
    BY DEF Drained, ChatInv, ChatTypes
  <1>2. {"generating", "reading"} \subseteq Handlers /\ "generating" \in Answers /\ "reading" \notin Answers
        /\ "sending" \in Answers /\ "replying" \notin Answers
    BY DEF Handlers, Answers
  <1>3. tokensTotal' \in Nat /\ sentTotal' \in Nat /\ accepted' \in Nat
    BY ConnectionIs DEF Drained
  <1>4. CASE handler[c] = "sending" /\ handler' = [handler EXCEPT ![c] = "generating"]
    <2>1. Turned(c, "generating", reply[c]) /\ request'[c] = request[c]
      BY <1>0, <1>1, <1>2, <1>4, TurnedIs
    <2>2. Replying(c)'
      <3>1. handler'[c] = "generating" /\ reply'[c] = reply[c] /\ request'[c] = request[c]
        BY <2>1 DEF Turned
      <3> QED
        BY <1>0, <1>2, <1>4, <3>1 DEF Replying, Numbered
    <2>3. /\ \A d \in Connections : Replying(d)'
          /\ \A d \in Active' : request'[d] \in Asked
          /\ Active' = Active \cup {c}
      BY <1>0, <1>2, <1>4, <2>1, <2>2, TurnedStep
    <2>4. Handled
      BY <2>1, <2>3 DEF Handled, Turned
    <2>5. Active' = Active
      BY <1>2, <1>4, <2>3 DEF Active
    <2>6. Counted'
      BY <2>5, SameActive DEF Drained
    <2> QED
      BY <1>3, <2>4, <2>6, SameHistories, AllOfIt DEF Drained
  <1>5. CASE handler[c] = "replying" /\ handler' = [handler EXCEPT ![c] = "reading"]
    <2>1. Turned(c, "reading", reply[c])
      BY <1>0, <1>1, <1>2, <1>5, TurnedIs
    <2>2. Replying(c)'
      <3>1. handler'[c] = "reading" /\ reply'[c] = reply[c]
        BY <2>1 DEF Turned
      <3> QED
        BY <1>0, <1>2, <1>5, <3>1 DEF Replying, Numbered, Closed
    <2>3. /\ \A d \in Connections : Replying(d)'
          /\ \A d \in Active' : request'[d] \in Asked
          /\ Active' = Active \ {c}
      BY <1>2, <2>1, <2>2, TurnedStep
    <2>4. Handled
      BY <2>1, <2>3 DEF Handled, Turned
    <2>5. Counted'
      BY <2>3, FewerActive DEF Drained
    <2> QED
      BY <1>3, <2>4, <2>5, SameHistories, AllOfIt DEF Drained
  <1> QED
    BY <1>4, <1>5 DEF Drained

LEMMA ChatInvStep == ChatInv /\ [Next]_vars => ChatInv'
  <1> SUFFICES ASSUME ChatInv, [Next]_vars PROVE ChatInv'
    OBVIOUS
  <1>1. CASE UNCHANGED vars
    <2>1. alive' \in [Connections -> BOOLEAN]
      BY <1>1 DEF vars, ChatInv, ChatTypes
    <2> QED
      BY <1>1, <2>1, StillStep DEF vars
  <1>2. CASE LoadEnds
    <2>1. alive' \in [Connections -> BOOLEAN]
      BY <1>2 DEF LoadEnds, ChatInv, ChatTypes
    <2> QED
      BY <1>2, <2>1, StillStep DEF LoadEnds
  <1>3. ASSUME NEW c \in Connections, ConnectionLost(c) PROVE ChatInv'
    <2>1. alive' \in [Connections -> BOOLEAN]
      BY <1>3 DEF ConnectionLost, ChatInv, ChatTypes
    <2> QED
      BY <1>3, <2>1, StillStep DEF ConnectionLost
  <1>4. ASSUME NEW c \in Connections,
               \/ Connect(c) \/ HandlerEnds(c) \/ Refuse(c) \/ Token(c) \/ Finish(c) \/ Fail(c) \/ Drained(c)
        PROVE  ChatInv'
    BY <1>4, ConnectStep, HandlerEndsStep, RefuseStep, TokenStep, FinishStep, FailStep, DrainedStep
  <1>5. ASSUME NEW c \in Connections, NEW s \in SessionIds, Reset(c, s) PROVE ChatInv'
    BY <1>5, ResetStep
  <1>6. ASSUME NEW c \in Connections, NEW s \in SessionIds, NEW limit \in Limits, Accept(c, s, limit)
        PROVE  ChatInv'
    BY <1>6, AcceptStep
  <1> QED
    BY <1>1, <1>2, <1>3, <1>4, <1>5, <1>6 DEF Next

LEMMA ChatInvSafe == ChatInv => RepliesWellFormed
  <1> SUFFICES ASSUME ChatInv PROVE RepliesWellFormed
    OBVIOUS
  <1>1. sentTotal <= tokensTotal /\ tokensTotal <= sentTotal + accepted
    <2>1. Cardinality(Active) \in Nat
      BY FS_CardinalityType DEF ChatInv, Counted
    <2> PICK n \in Nat : n = Cardinality(Active)
      BY <2>1
    <2>2. /\ tokensTotal \in Nat /\ sentTotal \in Nat /\ accepted \in Nat
          /\ sentTotal <= tokensTotal /\ tokensTotal + n <= sentTotal + accepted
      BY DEF ChatInv, ChatTypes, Counted
    <2> QED
      BY <2>2
  <1>2. ASSUME NEW c \in Connections
        PROVE  /\ Numbered(reply[c])
               /\ handler[c] = "replying" => reply[c] # <<>> /\ Closes(reply[c][Len(reply[c])])
               /\ handler[c] = "reading" /\ reply[c] # <<>> => Closes(reply[c][Len(reply[c])])
               /\ handler[c] \in {"generating", "sending"} =>
                    Len(reply[c]) = request[c].tokens /\ Len(reply[c]) <= request[c].limit
    BY DEF ChatInv, Replying, Closed, Answers
  <1> QED
    BY <1>1, <1>2 DEF RepliesWellFormed, Numbered

-----------------------------------------------------------------------------
(* ChatMemory: the turns a session remembers, the requests being answered. *)

\* The turns that half as many as MaxMessages leave room for.
Recent(turns) == Newest(turns, MaxMessages \div 2)

LEMMA RecentIs ==
  ASSUME NEW turns \in Seq(Nat)
  PROVE  Recent(turns) \in Seq(Nat) /\ Recent(turns) = Memory!Latest(turns)
  <1>1. MaxMessages \div 2 \in Nat
    BY ConstantsOK
  <1>2. Recent(turns) \in Seq(Nat)
    BY <1>1, NewestIs DEF Recent
  <1> QED
    BY <1>2 DEF Recent, Newest, Memory!Latest

LEMMA HalfOf ==
  /\ \A n \in Nat : n \div 2 \in Nat /\ (2 * n) \div 2 = n
  /\ \A n, m \in Nat : (2 * m > n) <=> (m > n \div 2)
  <1>1. ASSUME NEW n \in Nat PROVE n \div 2 \in Nat /\ (2 * n) \div 2 = n
    OBVIOUS
  <1>2. ASSUME NEW n \in Nat, NEW m \in Nat PROVE (2 * m > n) <=> (m > n \div 2)
    OBVIOUS
  <1> QED
    BY <1>1, <1>2

\* The turn that message j of a transcript belongs to.
LEMMA TurnAt ==
  ASSUME NEW turns \in Seq(Nat), NEW n \in Nat, n = Len(turns), NEW i \in 1 .. n
  PROVE  Transcript(turns)[2 * i].turn = turns[i]
  <1>1. 2 * i \in 1 .. 2 * n /\ (2 * i + 1) \div 2 = i
    OBVIOUS
  <1> PICK j : j = 2 * i
    OBVIOUS
  <1>2. Transcript(turns)[j] = [role |-> IF j % 2 = 1 THEN "user" ELSE "assistant", turn |-> turns[(j + 1) \div 2]]
    BY <1>1 DEF Transcript
  <1>3. (j + 1) \div 2 = i
    BY <1>1
  <1> QED
    BY <1>2, <1>3

\* Cutting the messages cuts the turns.
LEMMA TurnsOf ==
  ASSUME NEW turns \in Seq(Nat)
  PROVE  TurnsIn(Newest(Transcript(turns), MaxMessages)) = Recent(turns)
  <1> PICK n \in Nat : n = MaxMessages
    BY ConstantsOK
  <1> PICK m \in Nat : m = Len(turns)
    BY LenProperties
  <1> PICK k \in Nat : k = n \div 2
    BY HalfOf
  <1> DEFINE all == Transcript(turns)
             cut == Newest(all, n)
             short == Newest(turns, k)
  <1>1. all \in Seq(Messages) /\ Len(all) = 2 * m /\ \A i \in 1 .. m : all[2 * i].turn = turns[i]
    BY TranscriptIs, TurnAt
  <1>2. (2 * m > n) <=> (m > k)
    BY HalfOf
  <1>3. /\ cut \in Seq(Messages)
        /\ 2 * m > n => /\ Len(cut) = n
                        /\ \A i \in 1 .. n : cut[i] = all[2 * m - n + i]
        /\ ~(2 * m > n) => /\ Len(cut) = 2 * m
                           /\ \A i \in 1 .. 2 * m : cut[i] = all[i]
    <2> HIDE DEF all
    <2>1. /\ cut \in Seq(Messages)
          /\ Len(all) > n => /\ Len(cut) = n
                             /\ \A i \in 1 .. n : cut[i] = all[Len(all) - n + i]
          /\ ~(Len(all) > n) => /\ Len(cut) = Len(all)
                                /\ \A i \in 1 .. Len(all) : cut[i] = all[i]
      BY <1>1, NewestIs
    <2> HIDE DEF cut
    <2> QED
      BY <1>1, <2>1
  <1>4. /\ short \in Seq(Nat)
        /\ m > k => /\ Len(short) = k
                    /\ \A i \in 1 .. k : short[i] = turns[m - k + i]
        /\ ~(m > k) => /\ Len(short) = m
                       /\ \A i \in 1 .. m : short[i] = turns[i]
    <2>1. /\ short \in Seq(Nat)
          /\ Len(turns) > k => /\ Len(short) = k
                               /\ \A i \in 1 .. k : short[i] = turns[Len(turns) - k + i]
          /\ ~(Len(turns) > k) => /\ Len(short) = Len(turns)
                                  /\ \A i \in 1 .. Len(turns) : short[i] = turns[i]
      <3> HIDE DEF all, cut
      <3> QED
        BY NewestIs, turns \in Seq(Nat), k \in Nat, ZenonT(40)
    <2> HIDE DEF short
    <2> QED
      BY <2>1
  <1> HIDE DEF all, cut, short
  <1> DEFINE e(x, i) == cut[Len(cut) - 2 * (x - i)].turn
  <1>5. ASSUME NEW x \in Nat, x = Len(cut) \div 2 PROVE TurnsIn(cut) = [i \in 1 .. x |-> e(x, i)]
    BY <1>5 DEF TurnsIn
  <1>6. ASSUME NEW x \in Nat, x = Len(cut) \div 2, Len(short) = x, \A i \in 1 .. x : e(x, i) = short[i]
        PROVE  TurnsIn(cut) = short
    <2> HIDE DEF e
    <2>1. TurnsIn(cut) = [i \in 1 .. x |-> short[i]]
      BY <1>5, <1>6
    <2>2. short = [i \in 1 .. x |-> short[i]]
      BY <1>4, <1>6, LenProperties
    <2> QED
      BY <2>1, <2>2
  <1>7. CASE m > k
    <2>1. Len(cut) = n /\ Len(short) = k
      BY <1>2, <1>3, <1>4, <1>7
    <2>2. ASSUME NEW i \in 1 .. k PROVE e(k, i) = short[i]
      <3>1. n - 2 * (k - i) \in 1 .. n /\ m - k + i \in 1 .. m
        BY <1>7
      <3>2. 2 * m - n + (n - 2 * (k - i)) = 2 * (m - k + i)
        OBVIOUS
      <3>3. cut[n - 2 * (k - i)] = all[2 * (m - k + i)]
        BY <1>2, <1>3, <1>7, <3>1, <3>2
      <3>4. all[2 * (m - k + i)].turn = turns[m - k + i]
        BY <1>1, <3>1
      <3>5. short[i] = turns[m - k + i]
        BY <1>4, <1>7
      <3> QED
        BY <2>1, <3>3, <3>4, <3>5
    <2> QED
      BY <1>6, <2>1, <2>2 DEF cut, short, all, Recent
  <1>8. CASE ~(m > k)
    <2>1. Len(cut) = 2 * m /\ Len(short) = m /\ (2 * m) \div 2 = m
      BY <1>2, <1>3, <1>4, <1>8, HalfOf
    <2>2. ASSUME NEW i \in 1 .. m PROVE e(m, i) = short[i]
      <3>1. 2 * m - 2 * (m - i) = 2 * i /\ 2 * i \in 1 .. 2 * m
        OBVIOUS
      <3>2. cut[2 * m - 2 * (m - i)] = all[2 * i]
        BY <1>2, <1>3, <1>8, <3>1
      <3>3. short[i] = turns[i]
        BY <1>4, <1>8
      <3> QED
        BY <1>1, <2>1, <3>2, <3>3
    <2> QED
      BY <1>6, <2>1, <2>2 DEF cut, short, all, Recent
  <1> QED
    BY <1>7, <1>8

\* The state of ChatMemory that a state of the handlers stands for.
HistoryOf(s) == IF s \in DOMAIN histories THEN histories[s] ELSE <<>>
MemoryNow == [s \in SessionIds |-> TurnsIn(HistoryOf(s))]
AskedBy(c) == [turn |-> request[c].turn, session |-> request[c].session, recalls |-> TurnsIn(request[c].history)]
AskingNow == [c \in Active |-> AskedBy(c)]
Done(r) == r # <<>> /\ r[Len(r)].kind = "done"
ConfirmedNow == {c \in Connections : Done(reply[c])}

LEMMA MappedIs ==
  /\ Answering = Active
  /\ Memory!vars = <<MemoryNow, AskingNow, accepted, ConfirmedNow>>
  BY DEF Answering, Active, Answers, Memory!vars, MemoryNow, HistoryOf, AskingNow, AskedBy, ConfirmedNow, Done

\* A session remembers the newest turns of its ledger.
LEMMA RemembersRecent ==
  ASSUME ChatInv, NEW s \in SessionIds
  PROVE  MemoryNow[s] = Recent(ledger[s])
  <1>1. ledger[s] \in Seq(Nat)
    BY DEF ChatInv, ChatTypes, HistoryTypes
  <1>2. HistoryOf(s) = Newest(Transcript(ledger[s]), MaxMessages)
    BY DEF ChatInv, KeepsNewestTurns, HistoryOf
  <1> QED
    BY <1>1, <1>2, TurnsOf DEF MemoryNow

LEMMA SameMemory ==
  ASSUME \A s \in SessionIds : HistoryOf(s)' = HistoryOf(s)
  PROVE  MemoryNow' = MemoryNow
  BY DEF MemoryNow

LEMMA SameAsking ==
  ASSUME Active' = Active, \A c \in Active : AskedBy(c)' = AskedBy(c)
  PROVE  AskingNow' = AskingNow
  BY DEF AskingNow

\* Somebody was told something, or lost what it was told.
LEMMA ToldIs ==
  ASSUME ChatInv, NEW c \in Connections, NEW r, reply' = [reply EXCEPT ![c] = r]
  PROVE  /\ Done(r) => ConfirmedNow' = ConfirmedNow \cup {c}
         /\ ~Done(r) => ConfirmedNow' = ConfirmedNow \ {c}
  <1>1. reply \in [Connections -> Seq(Frames)]
    BY DEF ChatInv, ChatTypes
  <1>2. reply'[c] = r /\ \A d \in Connections : d # c => reply'[d] = reply[d]
    BY <1>1
  <1>3. \A d \in Connections : d # c => (Done(reply'[d]) <=> Done(reply[d]))
    BY <1>2
  <1>4. ConfirmedNow' = {d \in Connections : Done(reply'[d])}
    BY DEF ConfirmedNow, Done
  <1> HIDE DEF Done
  <1> QED
    BY <1>2, <1>3, <1>4 DEF ConfirmedNow

\* c is not answered any more, and for the others nothing changed.
LEMMA AskingEnds ==
  ASSUME ChatInv, NEW c \in Connections, NEW h \in Handlers \ Answers, NEW q,
         handler' = [handler EXCEPT ![c] = h], request' = [request EXCEPT ![c] = q]
  PROVE  /\ Active' = Active \ {c}
         /\ AskingNow' = [d \in Active \ {c} |-> AskingNow[d]]
  <1>1. handler \in [Connections -> Handlers] /\ request \in [Connections -> Asked \cup {Idle}]
    BY DEF ChatInv, ChatTypes
  <1>2. handler'[c] = h /\ \A d \in Connections : d # c => handler'[d] = handler[d] /\ request'[d] = request[d]
    BY <1>1
  <1>3. Active' = Active \ {c}
    BY <1>2 DEF Active
  <1>4. \A d \in Active \ {c} : AskedBy(d)' = AskedBy(d)
    BY <1>2 DEF AskedBy, Active
  <1>5. AskingNow' = [d \in Active \ {c} |-> AskedBy(d)]
    BY <1>3, <1>4 DEF AskingNow
  <1> QED
    BY <1>3, <1>5 DEF AskingNow

\* What SendLast is to ChatMemory.
LEMMA LastIs ==
  ASSUME ChatInv, NEW c \in Connections, NEW frames, SendLast(c, frames)
  PROVE  /\ AskingNow' = [d \in Active \ {c} |-> AskingNow[d]] /\ Active' = Active \ {c}
         /\ ConfirmedNow' \in {ConfirmedNow \cup {c}, ConfirmedNow \ {c}}
         /\ ~Done(frames) => ConfirmedNow' = ConfirmedNow \ {c}
  <1> DEFINE h == IF alive[c] THEN "replying" ELSE "closed"
             r == IF alive[c] THEN frames ELSE <<>>
  <1>1. handler' = [handler EXCEPT ![c] = h] /\ reply' = [reply EXCEPT ![c] = r] /\ request' = [request EXCEPT ![c] = Idle]
    BY DEF SendLast
  <1>2. h \in Handlers \ Answers
    BY DEF Handlers, Answers
  <1>3. ~Done(frames) => ~Done(r)
    BY DEF Done
  <1> HIDE DEF h, r
  <1>4. AskingNow' = [d \in Active \ {c} |-> AskingNow[d]] /\ Active' = Active \ {c}
    BY <1>1, <1>2, AskingEnds
  <1>5. /\ Done(r) => ConfirmedNow' = ConfirmedNow \cup {c}
        /\ ~Done(r) => ConfirmedNow' = ConfirmedNow \ {c}
    BY <1>1, ToldIs
  <1> HIDE DEF Done
  <1> QED
    BY <1>3, <1>4, <1>5

LEMMA ActiveIs ==
  /\ DOMAIN AskingNow = Active
  /\ \A c \in Active : c \in Connections /\ AskingNow[c] = AskedBy(c)
  BY DEF AskingNow, Active

\* The actions of ChatMemory, said of that state.
LEMMA AsAsk ==
  ASSUME NEW c, NEW session, c \notin Active, accepted' = accepted + 1,
         AskingNow' = [d \in Active \cup {c} |->
                         IF d = c THEN [turn |-> accepted', session |-> session, recalls |-> MemoryNow[session]]
                         ELSE AskingNow[d]],
         ConfirmedNow' = ConfirmedNow \ {c}, MemoryNow' = MemoryNow
  PROVE  Memory!Ask(c, session)
  <1>1. DOMAIN AskingNow = Active
    BY DEF AskingNow
  <1> QED
    BY <1>1, Zenon DEF Memory!Ask, Memory!Deny, AskingNow, AskedBy, Active, Answers, Answering,
                       MemoryNow, HistoryOf, ConfirmedNow, Done

LEMMA AsEnded ==
  ASSUME NEW c \in Active, AskingNow' = [d \in Active \ {c} |-> AskingNow[d]]
  PROVE  Memory!Ended(c)
  <1>1. DOMAIN AskingNow = Active
    BY DEF AskingNow
  <1> QED
    BY <1>1, Zenon DEF Memory!Ended, AskingNow, AskedBy, Active, Answers, Answering

LEMMA AsAnswer ==
  ASSUME NEW c, Memory!Ended(c), accepted' = accepted,
         MemoryNow' = [MemoryNow EXCEPT ![AskingNow[c].session] = Memory!Latest(Append(@, AskingNow[c].turn))],
         ConfirmedNow' \in {ConfirmedNow \cup {c}, ConfirmedNow \ {c}}
  PROVE  Memory!Answer(c)
  BY Zenon DEF Memory!Answer, Memory!Confirm, AskingNow, AskedBy, Active, Answers, Answering,
               MemoryNow, HistoryOf, ConfirmedNow, Done

LEMMA AsGiveUp ==
  ASSUME NEW c, Memory!Ended(c), accepted' = accepted, MemoryNow' = MemoryNow, ConfirmedNow' = ConfirmedNow \ {c}
  PROVE  Memory!GiveUp(c)
  BY Zenon DEF Memory!GiveUp, Memory!Deny, MemoryNow, HistoryOf, ConfirmedNow, Done

LEMMA AsForget ==
  ASSUME NEW c, NEW session, c \notin Active, accepted' = accepted, AskingNow' = AskingNow,
         MemoryNow' = [MemoryNow EXCEPT ![session] = <<>>],
         ConfirmedNow' \in {ConfirmedNow \cup {c}, ConfirmedNow \ {c}}
  PROVE  Memory!Forget(c, session)
  <1>1. DOMAIN AskingNow = Active
    BY DEF AskingNow
  <1> QED
    BY <1>1, Zenon DEF Memory!Forget, Memory!Confirm, AskingNow, AskedBy, Active, Answers, Answering,
                       MemoryNow, HistoryOf, ConfirmedNow, Done

LEMMA AsRefuse ==
  ASSUME NEW c, accepted' = accepted, AskingNow' = AskingNow, MemoryNow' = MemoryNow,
         ConfirmedNow' = ConfirmedNow \ {c}
  PROVE  Memory!Refuse(c)
  BY Zenon DEF Memory!Refuse, Memory!Deny, AskingNow, AskedBy, Active, Answers, Answering,
               MemoryNow, HistoryOf, ConfirmedNow, Done

LEMMA AsStutter ==
  ASSUME accepted' = accepted, AskingNow' = AskingNow, MemoryNow' = MemoryNow, ConfirmedNow' = ConfirmedNow
  PROVE  UNCHANGED Memory!vars
  BY Zenon DEF Memory!vars, AskingNow, AskedBy, Active, Answers, Answering, MemoryNow, HistoryOf, ConfirmedNow, Done

-----------------------------------------------------------------------------
(* The step of ChatMemory that each action stands for.                     *)

LEMMA AskingStays ==
  ASSUME ChatInv, NEW c \in Connections, c \notin Active, AskingNow' = [d \in Active \ {c} |-> AskingNow[d]]
  PROVE  AskingNow' = AskingNow
  <1>1. Active \ {c} = Active
    OBVIOUS
  <1> QED
    BY <1>1 DEF AskingNow

LEMMA MemoryStays == ASSUME UNCHANGED histories PROVE MemoryNow' = MemoryNow
  BY DEF MemoryNow, HistoryOf

\* A frame refused, a reset, an answer that ends or fails, a handler that ends.
LEMMA RefuseRefines == ASSUME ChatInv, NEW c \in Connections, Refuse(c) PROVE Memory!Refuse(c)
  <1> DEFINE frames == <<Frame("error", 0)>>
  <1>1. ~Done(frames)
    BY DEF Done, Frame
  <1>2. SendLast(c, frames) /\ handler[c] = "reading" /\ UNCHANGED <<histories, accepted>>
    BY DEF Refuse
  <1> HIDE DEF frames
  <1>3. AskingNow' = [d \in Active \ {c} |-> AskingNow[d]] /\ ConfirmedNow' = ConfirmedNow \ {c}
    BY <1>1, <1>2, LastIs
  <1>4. AskingNow' = AskingNow
    BY <1>2, <1>3, AskingStays DEF Active, Answers
  <1> QED
    BY <1>2, <1>3, <1>4, MemoryStays, AsRefuse

LEMMA FailRefines == ASSUME ChatInv, NEW c \in Connections, Fail(c) PROVE Memory!GiveUp(c)
  <1> DEFINE frames == Append(reply[c], Frame("error", 0))
  <1>1. ~Done(frames)
    <2>1. reply[c] \in Seq(Frames) /\ Frame("error", 0) \in Frames /\ Frame("error", 0).kind = "error"
      BY ConnectionIs DEF Frame, Frames
    <2>2. Len(frames) = Len(reply[c]) + 1 /\ frames[Len(reply[c]) + 1] = Frame("error", 0)
      BY <2>1, AppendProperties
    <2> QED
      BY <2>1, <2>2 DEF Done
  <1>2. SendLast(c, frames) /\ c \in Active /\ UNCHANGED <<histories, accepted>>
    BY DEF Fail, Active, Answers
  <1> HIDE DEF frames
  <1>3. AskingNow' = [d \in Active \ {c} |-> AskingNow[d]] /\ ConfirmedNow' = ConfirmedNow \ {c}
    BY <1>1, <1>2, LastIs
  <1> QED
    BY <1>2, <1>3, MemoryStays, AsEnded, AsGiveUp

LEMMA HandlerEndsRefines ==
  ASSUME ChatInv, NEW c \in Connections, HandlerEnds(c)
  PROVE  Memory!GiveUp(c) \/ Memory!Refuse(c)
  <1>1. /\ handler' = [handler EXCEPT ![c] = "closed"] /\ request' = [request EXCEPT ![c] = Idle]
        /\ reply' = [reply EXCEPT ![c] = <<>>] /\ UNCHANGED <<histories, accepted>>
    BY DEF HandlerEnds
  <1>2. AskingNow' = [d \in Active \ {c} |-> AskingNow[d]]
    BY <1>1, AskingEnds DEF Handlers, Answers
  <1>3. ConfirmedNow' = ConfirmedNow \ {c}
    BY <1>1, ToldIs DEF Done
  <1>4. CASE c \in Active
    BY <1>1, <1>2, <1>3, <1>4, MemoryStays, AsEnded, AsGiveUp
  <1>5. CASE c \notin Active
    BY <1>1, <1>2, <1>3, <1>5, MemoryStays, AskingStays, AsRefuse
  <1> QED
    BY <1>4, <1>5

LEMMA ResetRefines ==
  ASSUME ChatInv, NEW c \in Connections, NEW session \in SessionIds, Reset(c, session)
  PROVE  Memory!Forget(c, session)
  <1>1. /\ SendLast(c, <<Frame("done", 0)>>) /\ handler[c] = "reading" /\ accepted' = accepted
        /\ histories' = [s \in DOMAIN histories \ {session} |-> histories[s]]
    BY DEF Reset
  <1>2. /\ AskingNow' = [d \in Active \ {c} |-> AskingNow[d]]
        /\ ConfirmedNow' \in {ConfirmedNow \cup {c}, ConfirmedNow \ {c}}
    BY <1>1, LastIs
  <1>3. c \notin Active
    BY <1>1 DEF Active, Answers
  <1>4. \A s \in SessionIds : HistoryOf(s)' = IF s = session THEN <<>> ELSE HistoryOf(s)
    BY <1>1 DEF HistoryOf
  <1>5. TurnsIn(<<>>) = <<>>
    BY DEF TurnsIn
  <1>6. \A s \in SessionIds : TurnsIn(HistoryOf(s)') = IF s = session THEN <<>> ELSE MemoryNow[s]
    BY <1>4, <1>5 DEF MemoryNow
  <1>7. MemoryNow' = [MemoryNow EXCEPT ![session] = <<>>]
    <2>1. MemoryNow' = [s \in SessionIds |-> TurnsIn(HistoryOf(s)')]
      BY DEF MemoryNow, HistoryOf
    <2>2. DOMAIN MemoryNow = SessionIds
      BY DEF MemoryNow
    <2> QED
      BY <1>6, <2>1, <2>2
  <1> QED
    BY <1>1, <1>2, <1>3, <1>7, AskingStays, AsForget

\* Of the turns kept, one more, the newest are kept.
LEMMA RecentMore ==
  ASSUME NEW turns \in Seq(Nat), NEW t \in Nat
  PROVE  Memory!Latest(Append(Recent(turns), t)) = Recent(Append(turns, t))
  <1>1. Recent(turns) \in Seq(Nat) /\ Append(Recent(turns), t) \in Seq(Nat)
    BY RecentIs, AppendProperties
  <1>2. Memory!Latest(Append(Recent(turns), t)) = Recent(Append(Recent(turns), t))
    BY <1>1, RecentIs
  <1>3. MaxMessages \div 2 \in Nat /\ <<t>> \in Seq(Nat)
    BY ConstantsOK
  <1>4. Append(Recent(turns), t) = Recent(turns) \o <<t>> /\ Append(turns, t) = turns \o <<t>>
    BY <1>1, AppendIsConcat
  <1>5. Recent(Recent(turns) \o <<t>>) = Recent(turns \o <<t>>)
    BY <1>3, NewestAgain DEF Recent
  <1> QED
    BY <1>2, <1>4, <1>5

LEMMA FinishRefines == ASSUME ChatInv, NEW c \in Connections, Finish(c) PROVE Memory!Answer(c)
  <1>1. /\ c \in Active /\ histories' = Appended(c) /\ accepted' = accepted
        /\ ledger' = [ledger EXCEPT ![request[c].session] = Append(@, request[c].turn)]
        /\ SendLast(c, Append(reply[c], Frame("done", request[c].tokens)))
    BY DEF Finish, Active, Answers
  <1>2. request[c] \in Asked
    BY <1>1 DEF ChatInv, ChatTypes
  <1>3. /\ AskingNow' = [d \in Active \ {c} |-> AskingNow[d]]
        /\ ConfirmedNow' \in {ConfirmedNow \cup {c}, ConfirmedNow \ {c}}
    BY <1>1, LastIs
  <1> PICK session \in SessionIds : session = request[c].session
    BY <1>2 DEF Asked
  <1> PICK t \in Nat : t = request[c].turn
    BY <1>2 DEF Asked
  <1>4. HistoryTypes' /\ KeepsNewestTurns'
    BY <1>1, <1>2, TurnAppended
  <1>5. ledger \in [SessionIds -> Seq(Nat)]
    BY DEF ChatInv, ChatTypes, HistoryTypes
  <1>6. /\ ledger'[session] = Append(ledger[session], t)
        /\ \A s \in SessionIds : s # session => ledger'[s] = ledger[s]
    BY <1>1, <1>5
  <1>7. ASSUME NEW s \in SessionIds PROVE TurnsIn(HistoryOf(s)') = Recent(ledger'[s])
    <2>1. ledger'[s] \in Seq(Nat)
      BY <1>4 DEF HistoryTypes
    <2>2. HistoryOf(s)' = Newest(Transcript(ledger'[s]), MaxMessages)
      BY <1>4 DEF KeepsNewestTurns, HistoryOf
    <2> QED
      BY <2>1, <2>2, TurnsOf
  <1>8. Recent(ledger'[session]) = Memory!Latest(Append(MemoryNow[session], t))
    BY <1>5, <1>6, RecentMore, RemembersRecent
  <1>9. \A s \in SessionIds : s # session => Recent(ledger'[s]) = MemoryNow[s]
    BY <1>6, RemembersRecent
  <1>10. MemoryNow' = [s \in SessionIds |-> TurnsIn(HistoryOf(s)')] /\ DOMAIN MemoryNow = SessionIds
    BY DEF MemoryNow, HistoryOf
  <1>11. MemoryNow' = [MemoryNow EXCEPT ![session] = Memory!Latest(Append(@, t))]
    BY <1>7, <1>8, <1>9, <1>10
  <1>12. AskingNow[c].session = session /\ AskingNow[c].turn = t
    BY <1>1 DEF AskingNow, AskedBy
  <1> QED
    BY <1>1, <1>3, <1>11, <1>12, AsEnded, AsAnswer

LEMMA AcceptRefines ==
  ASSUME ChatInv, NEW c \in Connections, NEW session \in SessionIds, NEW limit \in Limits, Accept(c, session, limit)
  PROVE  Memory!Ask(c, session)
  <1>1. /\ handler[c] = "reading" /\ accepted' = accepted + 1 /\ histories' = Ensured(session)
        /\ request' = [request EXCEPT ![c] =
                         [turn |-> accepted', session |-> session, limit |-> limit,
                          tokens |-> 0, history |-> Ensured(session)[session]]]
        /\ handler' = [handler EXCEPT ![c] = "generating"] /\ reply' = [reply EXCEPT ![c] = <<>>]
    BY DEF Accept
  <1>2. handler \in [Connections -> Handlers] /\ request \in [Connections -> Asked \cup {Idle}]
    BY DEF ChatInv, ChatTypes
  <1>3. Ensured(session)[session] = HistoryOf(session)
    BY DEF Ensured, HistoryOf
  <1>4. \A s \in SessionIds : HistoryOf(s)' = HistoryOf(s)
    BY <1>1 DEF Ensured, HistoryOf
  <1>5. c \notin Active
    BY <1>1 DEF Active, Answers
  <1>6. /\ handler'[c] = "generating"
        /\ \A d \in Connections : d # c => handler'[d] = handler[d] /\ request'[d] = request[d]
        /\ request'[c].turn = accepted' /\ request'[c].session = session
        /\ request'[c].history = HistoryOf(session)
    BY <1>1, <1>2, <1>3
  <1>7. Active' = Active \cup {c}
    BY <1>6 DEF Active, Answers
  <1>8. AskedBy(c)' = [turn |-> accepted', session |-> session, recalls |-> MemoryNow[session]]
    BY <1>6 DEF AskedBy, MemoryNow
  <1>9. \A d \in Active : AskedBy(d)' = AskingNow[d]
    BY <1>5, <1>6 DEF AskedBy, AskingNow, Active
  <1>10. AskingNow' = [d \in Active \cup {c} |->
                         IF d = c THEN [turn |-> accepted', session |-> session, recalls |-> MemoryNow[session]]
                         ELSE AskingNow[d]]
    <2>1. AskingNow' = [d \in Active \cup {c} |-> AskedBy(d)']
      BY <1>7 DEF AskingNow, AskedBy
    <2> QED
      BY <1>8, <1>9, <2>1
  <1>11. ConfirmedNow' = ConfirmedNow \ {c}
    BY <1>1, ToldIs DEF Done
  <1> QED
    BY <1>1, <1>4, <1>5, <1>10, <1>11, SameMemory, AsAsk

LEMMA TokenRefines ==
  ASSUME ChatInv, NEW c \in Connections, Token(c)
  PROVE  Memory!GiveUp(c) \/ Memory!Refuse(c)
  <1>1. c \in Active /\ UNCHANGED <<histories, accepted>>
    BY DEF Token, Active, Answers
  <1>2. CASE alive[c]
    <2> DEFINE frame == Frame("token", request[c].tokens)
               r == Append(reply[c], frame)
    <2>1. /\ reply' = [reply EXCEPT ![c] = r] /\ request' = [request EXCEPT ![c].tokens = @ + 1]
          /\ handler' = [handler EXCEPT ![c] = "sending"]
      BY <1>2 DEF Token, ConnectionIs
    <2>2. ~Done(r)
      <3>1. reply[c] \in Seq(Frames) /\ request[c] \in Asked
        BY <1>1, ConnectionIs DEF Active
      <3>2. frame \in Frames /\ frame.kind = "token"
        BY <3>1 DEF Frame, Frames, Asked
      <3> HIDE DEF frame
      <3>3. Len(r) = Len(reply[c]) + 1 /\ r[Len(reply[c]) + 1] = frame
        BY <3>1, <3>2, AppendProperties
      <3> QED
        BY <3>2, <3>3 DEF Done
    <2> HIDE DEF r
    <2>3. handler \in [Connections -> Handlers] /\ request \in [Connections -> Asked \cup {Idle}]
      BY DEF ChatInv, ChatTypes
    <2>4. /\ \A d \in Connections : d # c => handler'[d] = handler[d] /\ request'[d] = request[d]
          /\ handler'[c] = "sending"
      BY <2>1, <2>3
    <2>5. Active' = Active
      BY <1>1, <2>4 DEF Active, Answers
    <2>6. request'[c] = [request[c] EXCEPT !.tokens = @ + 1] /\ request[c] \in Asked
      BY <1>1, <2>1, <2>3, ConnectionIs DEF Active
    <2>7. AskedBy(c)' = AskedBy(c)
      BY <2>6 DEF AskedBy, Asked
    <2>8. \A d \in Active : AskedBy(d)' = AskedBy(d)
      BY <2>4, <2>7 DEF AskedBy, Active
    <2>9. ConfirmedNow' = ConfirmedNow \ {c}
      BY <2>1, <2>2, ToldIs
    <2> QED
      BY <1>1, <2>5, <2>8, <2>9, SameAsking, MemoryStays, AsRefuse
  <1>3. CASE ~alive[c]
    <2>1. SendLast(c, <<>>) /\ ~Done(<<>>)
      BY <1>3 DEF Token, Done
    <2>2. AskingNow' = [d \in Active \ {c} |-> AskingNow[d]] /\ ConfirmedNow' = ConfirmedNow \ {c}
      BY <2>1, LastIs
    <2> QED
      BY <1>1, <2>2, MemoryStays, AsEnded, AsGiveUp
  <1> QED
    BY <1>2, <1>3

\* Nobody is told anything, and nobody begins or ends an answer.
LEMMA QuietRefines ==
  ASSUME ChatInv, UNCHANGED <<histories, request, accepted, reply>>, Active' = Active
  PROVE  UNCHANGED Memory!vars
  <1>1. AskingNow' = AskingNow
    BY SameAsking DEF AskedBy
  <1>2. ConfirmedNow' = ConfirmedNow
    BY DEF ConfirmedNow, Done
  <1> QED
    BY <1>1, <1>2, MemoryStays, AsStutter

LEMMA MovesQuietly ==
  ASSUME ChatInv, NEW c \in Connections, Connect(c) \/ Drained(c) \/ ConnectionLost(c)
  PROVE  UNCHANGED Memory!vars
  <1>1. handler \in [Connections -> Handlers]
    BY DEF ChatInv, ChatTypes
  <1>2. Active' = Active /\ UNCHANGED <<histories, request, accepted, reply>>
    <2>1. CASE Connect(c)
      BY <1>1, <2>1 DEF Connect, Active, Answers
    <2>2. CASE Drained(c)
      BY <1>1, <2>2 DEF Drained, Active, Answers
    <2>3. CASE ConnectionLost(c)
      BY <2>3 DEF ConnectionLost, Active, Answers
    <2> QED
      BY <2>1, <2>2, <2>3
  <1> QED
    BY <1>2, QuietRefines

-----------------------------------------------------------------------------
\* The inductive invariant holds in every reachable state.
THEOREM ChatInvariant == Spec => []ChatInv
  <1> QED
    BY ChatInvInit, ChatInvStep, PTL DEF Spec

\* append_turn never loses, repeats or reorders a turn another connection
\* finished in the same session; only the oldest messages are cut.
THEOREM HistoriesKeepNewest == Spec => []KeepsNewestTurns
  <1>1. ChatInv => KeepsNewestTurns
    BY DEF ChatInv
  <1> QED
    BY <1>1, ChatInvariant, PTL

\* What a client is sent for a frame is numbered tokens, at most as many as
\* it asked for, and one closing frame that counts them; and tokens_total
\* exceeds what was sent by at most one token a request.
THEOREM RepliesComeWhole == Spec => []RepliesWellFormed
  <1>1. ChatInv => RepliesWellFormed
    BY ChatInvSafe
  <1> QED
    BY <1>1, ChatInvariant, PTL

\* Seen from the clients, the handlers and their awaits are a memory that
\* takes up, answers and gives up whole requests one at a time: an answer is
\* made from what the session remembered when the request was accepted, and a
\* client that reads "done" has its turn remembered, once and in order.
THEOREM ImplementsChatMemory == Spec => MemorySpec
  <1>1. Init => Memory!Init
    <2>1. ASSUME Init PROVE Memory!Init
      <3>1. TurnsIn(<<>>) = <<>>
        BY DEF TurnsIn
      <3> QED
        BY <2>1, <3>1 DEF Init, Memory!Init, Answering
    <2> QED
      BY <2>1
  <1>2. ChatInv /\ [Next]_vars => [Memory!Next]_(Memory!vars)
    <2> SUFFICES ASSUME ChatInv, [Next]_vars PROVE Memory!Next \/ UNCHANGED Memory!vars
      OBVIOUS
    <2>1. CASE UNCHANGED vars \/ LoadEnds
      BY <2>1, QuietRefines DEF vars, LoadEnds, Active
    <2>2. ASSUME NEW c \in Connections,
                 \/ Connect(c) \/ Drained(c) \/ ConnectionLost(c) \/ HandlerEnds(c) \/ Refuse(c)
                 \/ Token(c) \/ Finish(c) \/ Fail(c)
          PROVE  Memory!Next \/ UNCHANGED Memory!vars
      BY <2>2, MovesQuietly, HandlerEndsRefines, RefuseRefines, TokenRefines, FinishRefines, FailRefines
         DEF Memory!Next
    <2>3. ASSUME NEW c \in Connections, NEW s \in SessionIds,
                 Reset(c, s) \/ \E limit \in Limits : Accept(c, s, limit)
          PROVE  Memory!Next
      BY <2>3, ResetRefines, AcceptRefines DEF Memory!Next
    <2> QED
      BY <2>1, <2>2, <2>3 DEF Next
  <1> QED
    BY <1>1, <1>2, ChatInvariant, PTL DEF Spec, MemorySpec, Memory!Spec
=============================================================================
