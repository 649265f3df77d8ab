----------------------------- MODULE UcaDriver -----------------------------
(***************************************************************************)
(* The bare-metal uCA driver: the calls of sw/driver/uCA_v1_api.c, encoded *)
(* as in UcaEncoding, on uCA_v1_hal.c, which writes an instruction to two  *)
(* registers and polls the BUSY bit.                                       *)
(*                                                                         *)
(* The poll counter of uca_hal_wait_idle is a machine integer: it wraps at *)
(* CounterRange (2^32 in C), and PollsPerUs (400 in C) polls stand for a   *)
(* microsecond; both are scaled down to keep the numbers small.            *)
(***************************************************************************)
EXTENDS UcaEncoding

CONSTANTS
  CounterRange,  \* number of values of the poll counter's type
  PollsPerUs,    \* polls that the code counts for one microsecond
  MaxTimeout,    \* bound: the longest timeout the application asks for
  MaxInFlight,   \* bound: instructions issued and not completed
  ArgsOf(_)      \* the arguments tried for a call

ASSUME UcaAssumption ==
  CounterRange \in Nat \ {0} /\ PollsPerUs \in Nat \ {0} /\ MaxTimeout \in Nat /\ MaxInFlight \in Nat

VARIABLES
  ready,     \* uca_init returned 0 and uca_deinit was not called
  lastCall,  \* the last instruction: the call that issued it, "none" before
  lastArgs,  \* its arguments
  lo, hi,    \* the instruction register's halves
  latched,   \* the instruction the NPU took from them
  inFlight,  \* instructions issued and not completed: BUSY when not 0
  state,     \* "idle", "polling", "synced" or "timed out"
  timeout,   \* argument of the last uca_sync
  count,     \* its poll counter
  polled     \* polls it made

syncVars == <<state, timeout, count, polled>>
driverVars == <<ready, lastCall, lastArgs, lo, hi, latched, inFlight, syncVars>>

DriverInit ==
  /\ ready = FALSE /\ lastCall = "none" /\ lastArgs = [f \in {} |-> {}]
  /\ lo = {} /\ hi = {} /\ latched = {} /\ inFlight = 0
  /\ state = "idle" /\ timeout = 0 /\ count = 0 /\ polled = 0

(* uca_init: the status register does not read as all ones. *)
UcaInit ==
  /\ ~ready
  /\ ready' \in BOOLEAN
  /\ UNCHANGED <<lastCall, lastArgs, lo, hi, latched, inFlight, syncVars>>

UcaDeinit ==
  /\ ready /\ state # "polling"
  /\ ready' = FALSE
  /\ UNCHANGED <<lastCall, lastArgs, lo, hi, latched, inFlight, syncVars>>

(* uca_hal_issue_instr: the low half first; writing the high half latches. *)
IssueInstr_HighFirst(word) ==
  /\ lo' = word \cap Bits(32)
  /\ hi' = Field(word, 32, 32)
  /\ latched' = lo \union Shift(hi', 32)

IssueInstr(word) ==
  /\ lo' = word \cap Bits(32)
  /\ hi' = Field(word, 32, 32)
  /\ latched' = lo' \union Shift(hi', 32)

(* uca_gemv, uca_gemm, uca_cvo, uca_memcpy, uca_memset: nothing waits for  *)
(* the NPU, with or without `async`.                                       *)
Issue ==
  /\ ready /\ state # "polling" /\ inFlight < MaxInFlight
  /\ \E c \in Calls : \E a \in ArgsOf(c) :
       /\ lastCall' = c /\ lastArgs' = a
       /\ IssueInstr(Word(c, a))
  /\ inFlight' = inFlight + 1
  /\ state' = "idle" /\ timeout' = 0 /\ count' = 0 /\ polled' = 0
  /\ UNCHANGED ready

(* The NPU completes an instruction. *)
Complete ==
  /\ inFlight > 0
  /\ inFlight' = inFlight - 1
  /\ UNCHANGED <<ready, lastCall, lastArgs, lo, hi, latched, syncVars>>

(* uca_sync, uca_hal_wait_idle *)
Sync ==
  /\ ready /\ state # "polling"
  /\ timeout' \in 0..MaxTimeout
  /\ count' = (timeout' * PollsPerUs) % CounterRange
  /\ polled' = 0
  /\ state' = "polling"
  /\ UNCHANGED <<ready, lastCall, lastArgs, lo, hi, latched, inFlight>>

\* while (--count): the last poll is not made.
TimeOut_Early ==
  /\ state = "polling" /\ count <= 1
  /\ state' = "timed out"
  /\ UNCHANGED <<ready, lastCall, lastArgs, lo, hi, latched, inFlight, timeout, count, polled>>

Poll ==
  /\ state = "polling" /\ count > 0
  /\ state' = IF inFlight = 0 THEN "synced" ELSE "polling"
  /\ count' = count - 1
  /\ polled' = polled + 1
  /\ UNCHANGED <<ready, lastCall, lastArgs, lo, hi, latched, inFlight, timeout>>

TimeOut ==
  /\ state = "polling" /\ count = 0
  /\ state' = "timed out"
  /\ UNCHANGED <<ready, lastCall, lastArgs, lo, hi, latched, inFlight, timeout, count, polled>>

DriverNext == UcaInit \/ UcaDeinit \/ Issue \/ Complete \/ Sync \/ Poll \/ TimeOut

-----------------------------------------------------------------------------
(* Properties.                                                             *)

\* The instruction the NPU latches says what the call said: the opcode, and
\* of every field the bits the instruction has room for, none running into
\* another and none left over from the call before.
InstructionIntact ==
  lastCall # "none" =>
    /\ Field(latched, 60, 4) = UcaOpcode[lastCall]
    /\ \A f \in UcaFields(lastCall) :
         LET slot == Layout[lastCall][f] IN
         Field(latched, slot.at, slot.width) = lastArgs[f] \cap Bits(slot.width)

\* A sync reports a timeout only after it polled for as long as it was asked
\* to, if the number of polls fits the counter (10.7 seconds in C); a longer
\* one ends within the range of the counter.
TimeoutIsThatLong ==
  state = "timed out" =>
    IF timeout * PollsPerUs < CounterRange
      THEN polled = timeout * PollsPerUs
      ELSE polled < CounterRange

\* What the instruction reference says of a memcpy's first bits: FROM_HOST and
\* TO_HOST are 1, FROM_NPU and TO_NPU are 0. The routes count devices instead,
\* and the host is 0.
RoutesSayDirection ==
  lastCall = "memcpy" =>
    /\ Field(latched, Layout.memcpy.from_dev.at, 1) = (IF lastArgs.from_dev = {} THEN {0} ELSE {})
    /\ Field(latched, Layout.memcpy.to_dev.at, 1) = (IF lastArgs.to_dev = {} THEN {0} ELSE {})

=============================================================================
