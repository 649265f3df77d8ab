----------------------------- MODULE DataMover -----------------------------
(***************************************************************************)
(* PSDataMoverChannel of sw/runtime/npu/dma.py on the map that             *)
(* address_map.py discovers: a command is packed into 72 bits, staged in   *)
(* three registers of its channel's page and pushed; poll_status pops what *)
(* comes first out of the channel's status FIFO.                           *)
(*                                                                         *)
(* A caller uses one channel, one command after the other. It polls for    *)
(* each, again after a mismatch, and again or not after a timeout. Words   *)
(* are sets of bits, addresses are counted in helper pages of 4 KiB.       *)
(***************************************************************************)
EXTENDS BitFields, Integers, Sequences

CONSTANTS CmdDepth, StsDepth,  \* entries of a channel's FIFOs
          CommandArgs,         \* commands tried: [addr, tag, length, eof]
          Bases,               \* base pages the board or a device tree may name
          MaxCommands          \* bound of the model

ASSUME DataMoverOK ==
  /\ {CmdDepth, StsDepth, MaxCommands} \subseteq Nat \ {0} /\ Bases \subseteq Nat

Channels == {"hp0", "hp1", "hp2", "hp3", "acp_fmap", "acp_result"}

NpuBaseDefault == 16
DefaultBase ==
  [hp0 |-> NpuBaseDefault + 1, hp1 |-> NpuBaseDefault + 2, hp2 |-> NpuBaseDefault + 3,
   hp3 |-> NpuBaseDefault + 4, acp_fmap |-> NpuBaseDefault + 5,
   acp_result |-> NpuBaseDefault + 6]

Unknown == -1

VARIABLES
  board,      \* the base page of the NPU's aperture, where the mmap begins
  mapBase,    \* AddressMap.uio_map_base
  channel,    \* the channel in use
  accepted,   \* history: commands issue_command returned a token for
  pushed,     \* history: the page and the command of every push the board saw
  cmds, sts,  \* numbers of the commands in the channel's two FIFOs
  poll,       \* the command whose token is being polled for, 0 if none
  answer,     \* what the last poll returned, for which command and out of which
  timeouts, mismatches  \* history: polls that raised so

dmaVars == <<board, mapBase, channel, accepted, pushed, cmds, sts, poll, answer,
             timeouts, mismatches>>

\* discover_address_map: uio4's map, else a plausible cell of a device tree's
\* ranges, else what is compiled in.
Discovered(sysfs, ranges) ==
  IF sysfs # Unknown THEN sysfs ELSE IF ranges # Unknown THEN ranges ELSE NpuBaseDefault

HelperBase_Compiled(base, name) == DefaultBase[name]

HelperBase(base, name) == base + (DefaultBase[name] - NpuBaseDefault)

DmaInit ==
  /\ board = Unknown /\ mapBase = Unknown /\ channel = "none"
  /\ accepted = <<>> /\ pushed = <<>> /\ cmds = <<>> /\ sts = <<>>
  /\ poll = 0 /\ answer = [kind |-> "none"]
  /\ timeouts = 0 /\ mismatches = 0

\* create_channels: the caller takes one of them.
CreateChannels ==
  /\ channel = "none"
  /\ board' \in Bases
  /\ \E sysfs \in {board', Unknown}, ranges \in Bases \cup {Unknown} :
       mapBase' = Discovered(sysfs, ranges)
  /\ channel' \in Channels
  /\ UNCHANGED <<accepted, pushed, cmds, sts, poll, answer, timeouts, mismatches>>

-----------------------------------------------------------------------------
CommandLayout ==
  [tag |-> F(68, 4), addr |-> F(32, 32), eof |-> F(30, 1), length |-> F(0, 23)]

\* pack_datamover_command: what it refuses, and the word; bit 23 is INCR.
Fits(c) == /\ \A f \in DOMAIN CommandLayout : c[f] \subseteq Bits(CommandLayout[f].width)
           /\ c.length # {}

Packed(c) ==
  {23} \cup UNION {Shift(c[f], CommandLayout[f].at) : f \in DOMAIN CommandLayout}

\* The page that _write32 reaches; mmap begins at the board's base.
Reached == board + (HelperBase(mapBase, channel) - mapBase)

\* The board puts the three registers together again.
Staged(word) ==
  (word \cap Bits(32)) \cup Shift(Field(word, 32, 32), 32) \cup Shift(Field(word, 64, 32), 64)

\* issue_command; ValueError and "FIFO is full" leave no trace.
IssueCommand ==
  /\ channel # "none" /\ poll = 0 /\ answer.kind \in {"none", "status", "timeout"}
  /\ Len(accepted) < MaxCommands
  /\ \E c \in CommandArgs :
       /\ Fits(c) /\ Len(cmds) < CmdDepth
       /\ accepted' = Append(accepted, c)
       /\ pushed' = Append(pushed, [page |-> Reached, word |-> Staged(Packed(c))])
  /\ cmds' = Append(cmds, Len(accepted) + 1)
  /\ answer' = [kind |-> "issued"]
  /\ UNCHANGED <<board, mapBase, channel, sts, poll, timeouts, mismatches>>

\* poll_status begins, with the token of the last command.
PollStatus ==
  /\ poll = 0 /\ answer.kind \in {"issued", "mismatch", "timeout"}
  /\ poll' = Len(accepted)
  /\ UNCHANGED <<board, mapBase, channel, accepted, pushed, cmds, sts, answer,
                 timeouts, mismatches>>

\* A turn of its loop that finds a status.
Pop_AnyTag ==
  /\ poll # 0 /\ sts # <<>>
  /\ sts' = Tail(sts)
  /\ poll' = 0
  /\ answer' = [kind |-> "status", asked |-> poll, of |-> Head(sts)]
  /\ UNCHANGED <<board, mapBase, channel, accepted, pushed, cmds, timeouts, mismatches>>

Pop ==
  /\ poll # 0 /\ sts # <<>>
  /\ sts' = Tail(sts)
  /\ poll' = 0
  /\ IF accepted[Head(sts)].tag = accepted[poll].tag
     THEN /\ answer' = [kind |-> "status", asked |-> poll, of |-> Head(sts)]
          /\ UNCHANGED mismatches
     ELSE /\ answer' = [kind |-> "mismatch", asked |-> poll, of |-> Head(sts)]
          /\ mismatches' = mismatches + 1
  /\ UNCHANGED <<board, mapBase, channel, accepted, pushed, cmds, timeouts>>

\* The deadline passes, with a status there or not.
PollTimesOut ==
  /\ poll # 0 /\ timeouts < MaxCommands
  /\ poll' = 0 /\ timeouts' = timeouts + 1
  /\ answer' = [kind |-> "timeout"]
  /\ UNCHANGED <<board, mapBase, channel, accepted, pushed, cmds, sts, mismatches>>

\* The DataMover completes its commands in order.
Moves ==
  /\ cmds # <<>> /\ Len(sts) < StsDepth
  /\ cmds' = Tail(cmds) /\ sts' = Append(sts, Head(cmds))
  /\ UNCHANGED <<board, mapBase, channel, accepted, pushed, poll, answer,
                 timeouts, mismatches>>

DmaNext == CreateChannels \/ IssueCommand \/ PollStatus \/ Pop \/ PollTimesOut \/ Moves

-----------------------------------------------------------------------------
\* Every command reaches the page of the channel it was issued on, whichever
\* way the map was discovered, and says there what was asked: no field runs
\* into another over the three registers.
CommandsReachChannel ==
  /\ Len(pushed) = Len(accepted)
  /\ \A i \in DOMAIN pushed :
       /\ pushed[i].page = board + DefaultBase[channel] - NpuBaseDefault
       /\ \A f \in DOMAIN CommandLayout :
            Field(pushed[i].word, CommandLayout[f].at, CommandLayout[f].width) = accepted[i][f]

\* Until a poll times out, every command is answered with its own status. A
\* poll that timed out leaves a status behind: it is believed to be another
\* command's only if the tags are the same, and a mismatch takes it away, so
\* that a caller that asks again sees no more mismatches than timeouts.
StatusIsOurs ==
  /\ answer.kind = "status" =>
       \/ answer.of = answer.asked
       \/ timeouts > 0 /\ accepted[answer.of].tag = accepted[answer.asked].tag
  /\ mismatches <= timeouts
=============================================================================
