----------------------------- MODULE UioAccess -----------------------------
(***************************************************************************)
(* NpuMmio of sw/runtime/uio.py: a program is pushed word by word into the *)
(* command FIFO, a kick marker after it, and wait_done reads the status    *)
(* FIFO until a word says DONE. The NPU works on its own; what it does is  *)
(* taken from the file's docstrings: a push into a full command FIFO drops *)
(* the oldest entry, a read takes the head of the status FIFO and blocks   *)
(* while there is none.                                                    *)
(***************************************************************************)
EXTENDS Naturals, Sequences, SequencesExt

CONSTANTS FifoDepth,    \* entries of AXIL_CMD_IN's FIFO (8)
          MaxPrograms,  \* bound: programs the caller submits
          MaxWords,     \* bound: the longest program it tries
          MaxStatus     \* bound: words waiting in the status FIFO

ASSUME UioOK == {FifoDepth, MaxPrograms, MaxWords, MaxStatus} \subseteq Nat \ {0}

VARIABLES
  caller,    \* "idle", "pushing", "testing" the deadline, "reading"
  pending,   \* entries that submit_program has yet to write
  result,    \* what the last call returned or raised
  programs,  \* history: the words of each program that was accepted
  claims,    \* history: calls of wait_done that returned True
  fitted,    \* history: every program found room for its words and its marker
  cmdFifo,   \* AXIL_CMD_IN
  decoded,   \* words the decoder took since the last marker
  ran,       \* history: the words of each program it was kicked to run
  running,   \* a program is being run
  stsFifo    \* AXIL_STAT_OUT

callerVars == <<caller, pending, result, programs, claims, fitted>>
deviceVars == <<cmdFifo, decoded, ran, running, stsFifo>>
uioVars == <<callerVars, deviceVars>>

Marker == <<0, 0>>  \* no program's word
Words(p, n) == [i \in 1..n |-> <<p, i>>]

UioInit ==
  /\ caller = "idle" /\ pending = <<>> /\ result = "none"
  /\ programs = <<>> /\ claims = 0 /\ fitted = TRUE
  /\ cmdFifo = <<>> /\ decoded = <<>> /\ ran = <<>> /\ running = FALSE
  /\ stsFifo = <<>>

-----------------------------------------------------------------------------
(* The caller: one program after the other, waiting for it or not.         *)

Entries_KickFirst(words) == <<Marker>> \o words

\* The writes of submit_program.
Entries(words) == Append(words, Marker)

\* submit_program; more words than the FIFO has entries are refused.
SubmitProgram ==
  /\ caller = "idle" /\ Len(programs) < MaxPrograms
  /\ \E n \in 0..MaxWords :
       IF n > FifoDepth
       THEN /\ result' = "ValueError"
            /\ UNCHANGED <<caller, pending, programs, fitted>>
       ELSE LET words == Words(Len(programs) + 1, n) IN
            /\ caller' = "pushing"
            /\ pending' = Entries(words)
            /\ programs' = Append(programs, words)
            /\ fitted' = (fitted /\ Len(cmdFifo) + n + 1 <= FifoDepth)
            /\ UNCHANGED result
  /\ UNCHANGED <<claims, deviceVars>>

\* push_inst, push_kick
Push ==
  /\ caller = "pushing"
  /\ LET entries == Append(cmdFifo, Head(pending)) IN
     cmdFifo' = IF Len(entries) > FifoDepth THEN Tail(entries) ELSE entries
  /\ pending' = Tail(pending)
  /\ IF Len(pending) = 1 THEN caller' = "idle" /\ result' = "submitted"
                         ELSE UNCHANGED <<caller, result>>
  /\ UNCHANGED <<programs, claims, fitted, decoded, ran, running, stsFifo>>

\* wait_done, and every turn of its loop.
WaitDone ==
  /\ caller = "idle" /\ programs # <<>>
  /\ caller' = "testing"
  /\ UNCHANGED <<pending, result, programs, claims, fitted, deviceVars>>

InTime ==
  /\ caller = "testing"
  /\ caller' = "reading"
  /\ UNCHANGED <<pending, result, programs, claims, fitted, deviceVars>>

TooLate ==
  /\ caller = "testing"
  /\ caller' = "idle" /\ result' = "False"
  /\ UNCHANGED <<pending, programs, claims, fitted, deviceVars>>

\* read_status returns when there is a word to take.
ReadStatus ==
  /\ caller = "reading" /\ stsFifo # <<>>
  /\ stsFifo' = Tail(stsFifo)
  /\ IF Head(stsFifo) = "DONE"
     THEN caller' = "idle" /\ result' = "True" /\ claims' = claims + 1
     ELSE caller' = "testing" /\ UNCHANGED <<result, claims>>
  /\ UNCHANGED <<pending, programs, fitted, cmdFifo, decoded, ran, running>>

-----------------------------------------------------------------------------
(* The NPU.                                                                *)

Decode ==
  /\ cmdFifo # <<>> /\ ~running
  /\ cmdFifo' = Tail(cmdFifo)
  /\ IF Head(cmdFifo) = Marker
     THEN running' = TRUE /\ decoded' = <<>> /\ ran' = Append(ran, decoded)
     ELSE decoded' = Append(decoded, Head(cmdFifo)) /\ UNCHANGED <<running, ran>>
  /\ UNCHANGED <<callerVars, stsFifo>>

\* Status words while a program runs, the last of them DONE.
Report ==
  /\ running /\ Len(stsFifo) < MaxStatus
  /\ \E word \in {"BUSY", "DONE"} :
       stsFifo' = Append(stsFifo, word) /\ running' = (word = "BUSY")
  /\ UNCHANGED <<callerVars, cmdFifo, decoded, ran>>

UioNext == SubmitProgram \/ Push \/ WaitDone \/ InTime \/ TooLate \/ ReadStatus \/ Decode \/ Report

-----------------------------------------------------------------------------
\* As long as every program finds room for its words and for its marker, the
\* NPU runs the programs as they were submitted, whole and in order. And if
\* as many waits returned True as programs were submitted, all of them were
\* run: no wait that gave up left its DONE for a later one to take.
ProgramsRunWhole ==
  /\ fitted => IsPrefix(ran, programs)
  /\ claims = Len(programs) /\ caller = "idle" => Len(ran) = Len(programs) /\ ~running
=============================================================================
