------------------------ MODULE RegisterDriversProofs ------------------------
(***************************************************************************)
(* Theorems about RegisterDrivers for all values of its constants: the     *)
(* instruction of a uCA call and the command of a DataMover channel carry  *)
(* every field, a host command is read as it was written, whatever the     *)
(* operands; and the drivers' histories are in order, for every limit.     *)
(***************************************************************************)
EXTENDS RegisterDrivers, FiniteSets, FiniteSetTheorems, TLAPS

-----------------------------------------------------------------------------
(* Fields of a word.                                                       *)

\* What is read where v was written is v, if nothing else was written there.
LEMMA FieldOf ==
  ASSUME NEW n \in Nat, NEW w \in Nat, NEW v, v \subseteq Bits(w), NEW word,
         \A b \in n .. n + w - 1 : b \in word <=> b - n \in v
  PROVE  Field(word, n, w) = v
  <1>1. ASSUME NEW x \in v
        PROVE  x \in Field(word, n, w)
    <2>1. x \in 0 .. w - 1
      BY DEF Bits
    <2>2. x + n \in n .. n + w - 1 /\ (x + n) - n = x
      BY <2>1
    <2>3. x + n \in word
      BY <2>2
    <2> QED
      BY <2>2, <2>3 DEF Field
  <1>2. ASSUME NEW x \in Field(word, n, w)
        PROVE  x \in v
    BY DEF Field
  <1> QED
    BY <1>1, <1>2

\* The slots of a layout: no two overlap, and all end below the size.
Disjoint(layout, size) ==
  /\ \A g \in DOMAIN layout :
       layout[g].at \in Nat /\ layout[g].width \in Nat /\ layout[g].at + layout[g].width <= size
  /\ \A g, h \in DOMAIN layout :
       g # h => \/ layout[g].at + layout[g].width <= layout[h].at
                \/ layout[h].at + layout[h].width <= layout[g].at

\* The values packed into the slots of a layout.
Operand(layout, val) == UNION {Shift(val[g], layout[g].at) : g \in DOMAIN layout}

LEMMA InOperand ==
  ASSUME NEW layout, NEW val, NEW b
  PROVE  b \in Operand(layout, val) <=>
           \E g \in DOMAIN layout : \E x \in val[g] : b = x + layout[g].at
  BY DEF Operand, Shift

LEMMA OperandField ==
  ASSUME NEW layout, NEW size \in Nat, Disjoint(layout, size), NEW val,
         \A g \in DOMAIN layout : val[g] \subseteq Bits(layout[g].width),
         NEW f \in DOMAIN layout, NEW rest,
         \A b \in rest : b \in Nat /\ (b < layout[f].at \/ b >= layout[f].at + layout[f].width)
  PROVE  Field(rest \cup Operand(layout, val), layout[f].at, layout[f].width) = val[f]
  <1> DEFINE n == layout[f].at
             w == layout[f].width
             word == rest \cup Operand(layout, val)
             v == val[f]
  <1>1. n \in Nat /\ w \in Nat /\ v \subseteq Bits(w)
    BY DEF Disjoint
  <1>2. ASSUME NEW b \in n .. n + w - 1
        PROVE  b \in word <=> b - n \in v
    <2>1. b \in Nat /\ b >= n /\ b < n + w
      BY <1>1
    <2>2. b \notin rest
      BY <1>1, <2>1
    <2>3. ASSUME b - n \in v
          PROVE  b \in Operand(layout, val)
      <3>1. b = (b - n) + n
        BY <1>1, <2>1
      <3> QED
        BY <2>3, <3>1, InOperand
    <2>4. ASSUME b \in Operand(layout, val)
          PROVE  b - n \in v
      <3>1. PICK g \in DOMAIN layout : \E x \in val[g] : b = x + layout[g].at
        BY <2>4, InOperand
      <3>2. PICK x \in val[g] : b = x + layout[g].at
        BY <3>1
      <3>3. layout[g].at \in Nat /\ layout[g].width \in Nat /\ x \in 0 .. layout[g].width - 1
        BY DEF Disjoint, Bits
      <3>4. b >= layout[g].at /\ b < layout[g].at + layout[g].width
        BY <3>2, <3>3
      <3>5. g = f
        <4> SUFFICES ASSUME g # f
                     PROVE  FALSE
          OBVIOUS
        <4>1. \/ layout[g].at + layout[g].width <= n
              \/ n + w <= layout[g].at
          BY DEF Disjoint
        <4> QED
          BY <1>1, <2>1, <3>3, <3>4, <4>1
      <3> QED
        BY <1>1, <3>2, <3>3, <3>5
    <2> QED
      BY <2>2, <2>3, <2>4
  <1>3. \A b \in n .. n + w - 1 : b \in word <=> b - n \in v
    BY <1>2
  <1> HIDE DEF n, w, word, v
  <1>4. Field(word, n, w) = v
    BY <1>1, <1>3, FieldOf
  <1> QED
    BY <1>4, Zenon DEF n, w, word, v

LEMMA OperandSize ==
  ASSUME NEW layout, NEW size \in Nat, Disjoint(layout, size), NEW val,
         \A g \in DOMAIN layout : val[g] \subseteq Bits(layout[g].width)
  PROVE  Operand(layout, val) \subseteq Bits(size)
  <1> SUFFICES ASSUME NEW b \in Operand(layout, val)
               PROVE  b \in Bits(size)
    OBVIOUS
  <1>1. PICK g \in DOMAIN layout : \E x \in val[g] : b = x + layout[g].at
    BY InOperand
  <1>2. PICK x \in val[g] : b = x + layout[g].at
    BY <1>1
  <1>3. /\ layout[g].at \in Nat /\ layout[g].width \in Nat
        /\ layout[g].at + layout[g].width <= size
        /\ x \in 0 .. layout[g].width - 1
    BY DEF Disjoint, Bits
  <1>4. b \in Nat /\ b < size
    BY <1>2, <1>3
  <1> QED
    BY <1>4 DEF Bits

\* A word taken apart into halves of 32 bits and put together again.
LEMMA Halves ==
  ASSUME NEW word, word \subseteq Bits(64)
  PROVE  (word \cap Bits(32)) \cup Shift(Field(word, 32, 32), 32) = word
  <1>1. ASSUME NEW b \in word, b >= 32
        PROVE  b \in Shift(Field(word, 32, 32), 32)
    <2>1. b \in 0 .. 63
      BY DEF Bits
    <2>2. b \in 32 .. 32 + 32 - 1 /\ b = (b - 32) + 32
      BY <1>1, <2>1
    <2>3. b - 32 \in Field(word, 32, 32)
      BY <2>2 DEF Field
    <2> QED
      BY <2>2, <2>3 DEF Shift
  <1>2. ASSUME NEW b \in Shift(Field(word, 32, 32), 32)
        PROVE  b \in word
    <2>1. PICK x \in Field(word, 32, 32) : b = x + 32
      BY DEF Shift
    <2>2. PICK y \in word \cap (32 .. 32 + 32 - 1) : x = y - 32
      BY DEF Field
    <2> QED
      BY <2>1, <2>2
  <1>3. \A b \in word : b >= 32 \/ b \in Bits(32)
    BY DEF Bits
  <1> QED
    BY <1>1, <1>2, <1>3

-----------------------------------------------------------------------------
(* UcaDriver.                                                              *)

LEMMA UcaLayouts == \A c \in Calls : Disjoint(Layout[c], 60)
  <1>1. Disjoint(ComputeLayout, 60)
    BY DEF Disjoint, ComputeLayout, F
  <1>2. Disjoint(Layout.memcpy, 60)
    BY DEF Disjoint, Layout, F
  <1>3. Disjoint(Layout.memset, 60)
    BY DEF Disjoint, Layout, F
  <1>4. Disjoint(Layout.cvo, 60)
    BY DEF Disjoint, Layout, F
  <1>5. Layout.gemv = ComputeLayout /\ Layout.gemm = ComputeLayout
    BY DEF Layout
  <1> QED
    BY <1>1, <1>2, <1>3, <1>4, <1>5 DEF Calls

\* A word holds its opcode and, of every argument, what its field has room for.
LEMMA WordFields ==
  ASSUME NEW c \in Calls, NEW args
  PROVE  /\ Word(c, args) \subseteq Bits(64)
         /\ Field(Word(c, args), 60, 4) = UcaOpcode[c]
         /\ \A f \in UcaFields(c) :
              Field(Word(c, args), Layout[c][f].at, Layout[c][f].width)
                = args[f] \cap Bits(Layout[c][f].width)
  <1> DEFINE val == [f \in DOMAIN Layout[c] |-> args[f] \cap Bits(Layout[c][f].width)]
             opcode == Shift(UcaOpcode[c], 60)
             operand == Operand(Layout[c], val)
  <1>1. Word(c, args) = opcode \cup operand
    BY DEF Word, Operand, UcaFields
  <1>2. Disjoint(Layout[c], 60)
    BY UcaLayouts
  <1>3. \A g \in DOMAIN Layout[c] : val[g] \subseteq Bits(Layout[c][g].width)
    OBVIOUS
  <1>4. UcaOpcode[c] \subseteq Bits(4)
    BY DEF Calls, UcaOpcode, Bits
  <1>5. \A b \in opcode : b \in 60 .. 63 /\ b - 60 \in UcaOpcode[c]
    BY <1>4 DEF Shift, Bits
  <1>6. operand \subseteq Bits(60)
    <2> HIDE DEF val
    <2> QED
      BY <1>2, <1>3, OperandSize
  <1>7. Word(c, args) \subseteq Bits(64)
    BY <1>1, <1>5, <1>6 DEF Bits
  <1>8. Field(opcode \cup operand, 60, 4) = UcaOpcode[c]
    <2>1. \A b \in 60 .. 60 + 4 - 1 : b \notin operand
      BY <1>6 DEF Bits
    <2>2. ASSUME NEW b \in 60 .. 60 + 4 - 1, b - 60 \in UcaOpcode[c]
          PROVE  b \in opcode
      <3>1. b = (b - 60) + 60
        BY <2>2
      <3> QED
        BY <2>2, <3>1 DEF Shift
    <2>3. \A b \in 60 .. 60 + 4 - 1 : b \in opcode \cup operand <=> b - 60 \in UcaOpcode[c]
      BY <1>5, <2>1, <2>2
    <2> DEFINE word == opcode \cup operand
               v == UcaOpcode[c]
               n == 60
               w == 4
    <2>4. /\ n \in Nat /\ w \in Nat /\ v \subseteq Bits(w)
          /\ \A b \in n .. n + w - 1 : b \in word <=> b - n \in v
      BY <1>4, <2>3
    <2> HIDE DEF word, v, n, w
    <2>5. Field(word, n, w) = v
      BY <2>4, FieldOf
    <2> QED
      BY <2>5, Zenon DEF word, v, n, w
  <1>9. ASSUME NEW f \in DOMAIN Layout[c]
        PROVE  Field(opcode \cup operand, Layout[c][f].at, Layout[c][f].width)
                 = args[f] \cap Bits(Layout[c][f].width)
    <2>1. \A b \in opcode : b \in Nat /\ b >= Layout[c][f].at + Layout[c][f].width
      BY <1>2, <1>5 DEF Disjoint
    <2> DEFINE layout == Layout[c]
    <2> HIDE DEF opcode, val, layout
    <2>2. Field(opcode \cup Operand(layout, val), layout[f].at, layout[f].width) = val[f]
      BY <1>2, <1>3, <2>1, OperandField DEF layout
    <2> QED
      BY <2>2 DEF val, layout
  <1> QED
    BY <1>1, <1>7, <1>8, <1>9 DEF UcaFields

\* The NPU holds the word of the last call, and a poll that is under way or
\* timed out has made the polls it has not left.
IssuedOK == lastCall # "none" => lastCall \in Calls /\ latched = Word(lastCall, lastArgs)

Asked == (timeout * PollsPerUs) % CounterRange

SyncOK ==
  /\ timeout \in Nat
  /\ state \in {"polling", "timed out"} =>
       count \in Nat /\ polled \in Nat /\ count + polled = Asked
  /\ state = "timed out" => count = 0

UcaInv == IssuedOK /\ SyncOK

LEMMA Modulo ==
  ASSUME NEW a \in Nat, NEW m \in Nat, m > 0
  PROVE  a % m \in Nat /\ a % m < m /\ (a < m => a % m = a)
  OBVIOUS

LEMMA Product ==
  ASSUME NEW a \in Nat, NEW b \in Nat
  PROVE  a * b \in Nat
  OBVIOUS

LEMMA Sums ==
  ASSUME NEW a \in Nat, NEW b \in Nat
  PROVE  a + 0 = a /\ 0 + a = a /\ (a > 0 => a - 1 \in Nat /\ b + 1 \in Nat /\ (a - 1) + (b + 1) = a + b)
  OBVIOUS

LEMMA AskedIs ==
  ASSUME NEW us \in Nat
  PROVE  /\ (us * PollsPerUs) % CounterRange \in Nat
         /\ (us * PollsPerUs) % CounterRange < CounterRange
         /\ us * PollsPerUs < CounterRange => (us * PollsPerUs) % CounterRange = us * PollsPerUs
  <1>1. PollsPerUs \in Nat /\ CounterRange \in Nat /\ CounterRange > 0
    BY UcaAssumption
  <1>2. us * PollsPerUs \in Nat
    BY <1>1, Product
  <1> QED
    BY <1>1, <1>2, Modulo

LEMMA UcaInvInit == DriverInit => UcaInv
  BY DEF DriverInit, UcaInv, IssuedOK, SyncOK

LEMMA UcaInvStep == UcaInv /\ [DriverNext]_driverVars => UcaInv'
  <1> SUFFICES ASSUME UcaInv, [DriverNext]_driverVars
               PROVE  UcaInv'
    OBVIOUS
  <1> USE DEF UcaInv
  <1>1. CASE UcaInit \/ UcaDeinit \/ Complete
    BY <1>1 DEF UcaInit, UcaDeinit, Complete, syncVars, IssuedOK, SyncOK, Asked
  <1>2. CASE Issue
    <2>0. PICK c \in Calls :
            \E a \in ArgsOf(c) : lastCall' = c /\ lastArgs' = a /\ IssueInstr(Word(c, a))
      BY <1>2 DEF Issue
    <2>1. PICK a \in ArgsOf(c) : lastCall' = c /\ lastArgs' = a /\ IssueInstr(Word(c, a))
      BY <2>0
    <2>2. latched' = (Word(c, a) \cap Bits(32)) \cup Shift(Field(Word(c, a), 32, 32), 32)
      BY <2>1 DEF IssueInstr
    <2>3. latched' = Word(c, a)
      BY <2>2, WordFields, Halves
    <2>4. state' = "idle" /\ timeout' = 0
      BY <1>2 DEF Issue
    <2> QED
      BY <2>1, <2>3, <2>4 DEF IssuedOK, SyncOK
  <1>3. CASE Sync
    <2>1. IssuedOK'
      BY <1>3 DEF Sync, IssuedOK
    <2>2. timeout' \in Nat
      BY <1>3, UcaAssumption DEF Sync
    <2>3. Asked' = (timeout' * PollsPerUs) % CounterRange
      BY DEF Asked
    <2>4. Asked' \in Nat
      BY <2>2, <2>3, AskedIs
    <2>5. count' = Asked' /\ polled' = 0 /\ state' = "polling"
      BY <1>3, <2>3 DEF Sync
    <2>6. count' + polled' = Asked'
      BY <2>4, <2>5, Sums
    <2> QED
      BY <2>1, <2>2, <2>4, <2>5, <2>6 DEF SyncOK
  <1>4. CASE Poll \/ TimeOut
    <2>1. IssuedOK' /\ Asked' = Asked /\ timeout' = timeout
      BY <1>4 DEF Poll, TimeOut, IssuedOK, Asked
    <2>2. state = "polling" /\ count \in Nat /\ polled \in Nat /\ count + polled = Asked
          /\ timeout \in Nat
      BY <1>4 DEF Poll, TimeOut, SyncOK
    <2>3. CASE Poll
      <3>1. count > 0 /\ count' = count - 1 /\ polled' = polled + 1 /\ state' # "timed out"
        BY <2>3 DEF Poll
      <3>2. count' \in Nat /\ polled' \in Nat /\ count' + polled' = count + polled
        BY <2>2, <3>1, Sums, ZenonT(60)
      <3> QED
        BY <2>1, <2>2, <3>1, <3>2 DEF SyncOK
    <2>4. CASE TimeOut
      <3>1. count = 0 /\ count' = count /\ polled' = polled
        BY <2>4 DEF TimeOut
      <3> QED
        BY <2>1, <2>2, <3>1 DEF SyncOK
    <2> QED
      BY <1>4, <2>3, <2>4
  <1>5. CASE UNCHANGED driverVars
    BY <1>5 DEF driverVars, syncVars, IssuedOK, SyncOK, Asked
  <1> QED
    BY <1>1, <1>2, <1>3, <1>4, <1>5 DEF DriverNext

LEMMA UcaInvSafe == UcaInv => InstructionIntact /\ TimeoutIsThatLong
  <1> SUFFICES ASSUME UcaInv
               PROVE  InstructionIntact /\ TimeoutIsThatLong
    OBVIOUS
  <1>1. InstructionIntact
    <2> SUFFICES ASSUME lastCall # "none"
                 PROVE  InstructionIntact
      BY DEF InstructionIntact
    <2>1. lastCall \in Calls /\ latched = Word(lastCall, lastArgs)
      BY DEF UcaInv, IssuedOK
    <2> QED
      BY <2>1, WordFields DEF InstructionIntact
  <1>2. TimeoutIsThatLong
    <2> SUFFICES ASSUME state = "timed out"
                 PROVE  TimeoutIsThatLong
      BY DEF TimeoutIsThatLong
    <2>1. timeout \in Nat /\ polled \in Nat /\ count = 0 /\ count + polled = Asked
      BY DEF UcaInv, SyncOK
    <2>2. polled = Asked
      BY <2>1, Sums
    <2>3. /\ timeout * PollsPerUs < CounterRange => polled = timeout * PollsPerUs
          /\ polled < CounterRange
      BY <2>1, <2>2, AskedIs DEF Asked
    <2> QED
      BY <2>3 DEF TimeoutIsThatLong
  <1> QED
    BY <1>1, <1>2

-----------------------------------------------------------------------------
(* DataMover.                                                              *)

LEMMA Thirds ==
  ASSUME NEW word, word \subseteq Bits(96)
  PROVE  Staged(word) = word
  <1>1. ASSUME NEW b \in Staged(word), b \notin word
        PROVE  FALSE
    <2>1. CASE b \in Shift(Field(word, 32, 32), 32)
      <3>1. PICK x \in Field(word, 32, 32) : b = x + 32
        BY <2>1 DEF Shift
      <3>2. PICK y \in word \cap (32 .. 32 + 32 - 1) : x = y - 32
        BY DEF Field
      <3> QED
        BY <1>1, <3>1, <3>2
    <2>2. CASE b \in Shift(Field(word, 64, 32), 64)
      <3>1. PICK x \in Field(word, 64, 32) : b = x + 64
        BY <2>2 DEF Shift
      <3>2. PICK y \in word \cap (64 .. 64 + 32 - 1) : x = y - 64
        BY DEF Field
      <3> QED
        BY <1>1, <3>1, <3>2
    <2> QED
      BY <1>1, <2>1, <2>2 DEF Staged
  <1>2. ASSUME NEW b \in word
        PROVE  b \in Staged(word)
    <2>1. b \in 0 .. 95
      BY DEF Bits
    <2>2. CASE b < 32
      BY <2>1, <2>2 DEF Staged, Bits
    <2>3. CASE b \in 32 .. 63
      <3>1. b \in 32 .. 32 + 32 - 1 /\ b = (b - 32) + 32
        BY <2>3
      <3>2. b - 32 \in Field(word, 32, 32)
        BY <3>1 DEF Field
      <3> QED
        BY <3>1, <3>2 DEF Shift, Staged
    <2>4. CASE b >= 64
      <3>1. b \in 64 .. 64 + 32 - 1 /\ b = (b - 64) + 64
        BY <2>1, <2>4
      <3>2. b - 64 \in Field(word, 64, 32)
        BY <3>1 DEF Field
      <3> QED
        BY <3>1, <3>2 DEF Shift, Staged
    <2> QED
      BY <2>1, <2>2, <2>3, <2>4
  <1> QED
    BY <1>1, <1>2

\* The three registers together hold the word and every field of a command
\* that fits.
LEMMA StagedWord ==
  ASSUME NEW c, Fits(c)
  PROVE  /\ Staged(Packed(c)) = {23} \cup Operand(CommandLayout, c)
         /\ Staged(Packed(c)) \in SUBSET Nat
         /\ Disjoint(CommandLayout, 96)
  <1>1. Disjoint(CommandLayout, 96)
    BY DEF Disjoint, CommandLayout, F
  <1>2. \A g \in DOMAIN CommandLayout : c[g] \subseteq Bits(CommandLayout[g].width)
    BY DEF Fits
  <1>3. Packed(c) = {23} \cup Operand(CommandLayout, c)
    BY DEF Packed, Operand
  <1>4. Operand(CommandLayout, c) \subseteq Bits(96)
    BY <1>1, <1>2, OperandSize
  <1>5. Packed(c) \subseteq Bits(96)
    BY <1>3, <1>4 DEF Bits
  <1>6. Staged(Packed(c)) = Packed(c)
    BY <1>5, Thirds
  <1> QED
    BY <1>1, <1>3, <1>5, <1>6 DEF Bits

LEMMA PackedFields ==
  ASSUME NEW c, Fits(c), NEW f \in DOMAIN CommandLayout
  PROVE  Field(Staged(Packed(c)), CommandLayout[f].at, CommandLayout[f].width) = c[f]
  <1> DEFINE layout == CommandLayout
             rest == {23}
  <1>1. \A b \in rest : b \in Nat /\ (b < layout[f].at \/ b >= layout[f].at + layout[f].width)
    BY DEF CommandLayout, F
  <1>2. Disjoint(layout, 96) /\ f \in DOMAIN layout
        /\ \A g \in DOMAIN layout : c[g] \subseteq Bits(layout[g].width)
    BY StagedWord DEF Fits
  <1>3. Staged(Packed(c)) = rest \cup Operand(layout, c)
    BY StagedWord
  <1> HIDE DEF layout, rest
  <1>4. Field(rest \cup Operand(layout, c), layout[f].at, layout[f].width) = c[f]
    BY <1>1, <1>2, OperandField, SMTT(30)
  <1> QED
    BY <1>3, <1>4 DEF layout

\* What was pushed is what was accepted, at the page of the channel.
Page == board + DefaultBase[channel] - NpuBaseDefault

PushedOK ==
  /\ accepted \in Seq(CommandArgs) /\ pushed \in Seq([page : Int, word : SUBSET Nat])
  /\ Len(pushed) = Len(accepted)
  /\ channel \in Channels => board \in Int /\ mapBase \in Int
  /\ channel \notin Channels => channel = "none" /\ accepted = <<>>
  /\ \A i \in 1 .. Len(accepted) :
       /\ Fits(accepted[i])
       /\ pushed[i].page = Page /\ pushed[i].word = Staged(Packed(accepted[i]))

\* The commands that are not answered yet are the newest ones, in their order;
\* of them the one that is asked for, and as many as polls timed out and were
\* not made up for by a mismatch.
EndsAt(s, n) == \A k \in 1 .. Len(s) : s[k] = n - Len(s) + k

Owed == IF poll # 0 \/ answer.kind \in {"issued", "mismatch"} THEN 1 ELSE 0

InFlightOK ==
  /\ cmds \in Seq(Nat) /\ sts \in Seq(Nat) /\ Len(cmds) + Len(sts) <= Len(accepted)
  /\ EndsAt(cmds, Len(accepted)) /\ EndsAt(sts, Len(accepted) - Len(cmds))
  /\ poll \in {0, Len(accepted)} /\ timeouts \in Nat /\ mismatches \in Nat
  /\ poll # 0 => answer.kind \in {"issued", "mismatch", "timeout"}
  /\ answer.kind \in {"none", "issued", "mismatch", "timeout", "status"}
  /\ answer.kind # "none" => Len(accepted) > 0
  /\ Len(cmds) + Len(sts) + mismatches <= timeouts + Owed

DmaInv == PushedOK /\ InFlightOK /\ StatusIsOurs

LEMMA EndsAtAppend ==
  ASSUME NEW s \in Seq(Nat), NEW n \in Nat, EndsAt(s, n)
  PROVE  EndsAt(Append(s, n + 1), n + 1)
  <1> DEFINE t == Append(s, n + 1)
  <1>1. Len(s) \in Nat /\ Len(t) = Len(s) + 1 /\ t[Len(s) + 1] = n + 1
        /\ \A k \in 1 .. Len(s) : t[k] = s[k]
    OBVIOUS
  <1> HIDE DEF t
  <1>2. ASSUME NEW k \in 1 .. Len(t)
        PROVE  t[k] = (n + 1) - Len(t) + k
    <2>1. CASE k = Len(s) + 1
      BY <1>1, <2>1
    <2>2. CASE k \in 1 .. Len(s)
      <3>1. s[k] = n - Len(s) + k
        BY <2>2 DEF EndsAt
      <3> QED
        BY <1>1, <2>2, <3>1
    <2> QED
      BY <1>1, <2>1, <2>2
  <1>3. EndsAt(t, n + 1)
    BY <1>2 DEF EndsAt
  <1> QED
    BY <1>3 DEF t

LEMMA EndsAtTail ==
  ASSUME NEW s \in Seq(Nat), s # <<>>, NEW n \in Int, EndsAt(s, n)
  PROVE  EndsAt(Tail(s), n) /\ Head(s) = n - Len(s) + 1
  <1>1. Len(s) \in Nat /\ Len(s) > 0 /\ Len(Tail(s)) = Len(s) - 1
        /\ \A k \in 1 .. Len(s) - 1 : Tail(s)[k] = s[k + 1]
    OBVIOUS
  <1> QED
    BY <1>1 DEF EndsAt

LEMMA DmaInvInit == DmaInit => DmaInv
  <1> SUFFICES ASSUME DmaInit
               PROVE  DmaInv
    OBVIOUS
  <1>1. PushedOK
    BY DEF DmaInit, PushedOK, Channels
  <1>2. InFlightOK
    BY DEF DmaInit, InFlightOK, Owed, EndsAt
  <1>3. StatusIsOurs
    BY DEF DmaInit, StatusIsOurs
  <1> QED
    BY <1>1, <1>2, <1>3 DEF DmaInv

LEMMA BasesAreInt == Bases \cup {Unknown, NpuBaseDefault} \subseteq Int
  BY DataMoverOK DEF Unknown, NpuBaseDefault

LEMMA Issued ==
  ASSUME DmaInv, IssueCommand
  PROVE  DmaInv'
  <1>1. PICK c \in CommandArgs :
          /\ Fits(c)
          /\ accepted' = Append(accepted, c)
          /\ pushed' = Append(pushed, [page |-> Reached, word |-> Staged(Packed(c))])
    BY DEF IssueCommand
  <1>2. /\ channel # "none" /\ poll = 0 /\ answer.kind \in {"none", "status", "timeout"}
        /\ cmds' = Append(cmds, Len(accepted) + 1) /\ answer' = [kind |-> "issued"]
        /\ UNCHANGED <<board, mapBase, channel, sts, poll, timeouts, mismatches>>
    BY DEF IssueCommand
  <1>3. PushedOK'
    <2> USE DEF DmaInv, PushedOK
    <2>1. channel \in Channels /\ board \in Int /\ mapBase \in Int
      BY <1>2
    <2>2. Reached = Page /\ Page \in Int
      <3>1. NpuBaseDefault \in Int /\ DefaultBase[channel] \in Int
        BY <2>1 DEF NpuBaseDefault, DefaultBase, Channels
      <3> QED
        BY <2>1, <3>1 DEF Reached, HelperBase, Page
    <2>3. [page |-> Reached, word |-> Staged(Packed(c))] \in [page : Int, word : SUBSET Nat]
      BY <1>1, <2>2, StagedWord
    <2>4. Page' = Page
      BY <1>2 DEF Page
    <2>5. /\ accepted' \in Seq(CommandArgs) /\ Len(accepted') = Len(accepted) + 1
          /\ \A i \in 1 .. Len(accepted) : accepted'[i] = accepted[i]
          /\ accepted'[Len(accepted) + 1] = c
      BY <1>1
    <2>6. /\ pushed' \in Seq([page : Int, word : SUBSET Nat]) /\ Len(pushed') = Len(pushed) + 1
          /\ \A i \in 1 .. Len(pushed) : pushed'[i] = pushed[i]
          /\ pushed'[Len(pushed) + 1] = [page |-> Reached, word |-> Staged(Packed(c))]
      BY <1>1, <2>3
    <2>7. ASSUME NEW i \in 1 .. Len(accepted')
          PROVE  /\ Fits(accepted'[i])
                 /\ pushed'[i].page = Page' /\ pushed'[i].word = Staged(Packed(accepted'[i]))
      <3>1. CASE i \in 1 .. Len(accepted)
        BY <2>4, <2>5, <2>6, <3>1
      <3>2. CASE i = Len(accepted) + 1
        BY <1>1, <2>2, <2>4, <2>5, <2>6, <3>2
      <3> QED
        BY <2>5, <3>1, <3>2
    <2> QED
      BY <1>2, <2>1, <2>5, <2>6, <2>7
  <1>4. InFlightOK'
    <2> USE DEF DmaInv, InFlightOK
    <2>1. Len(accepted) \in Nat /\ Len(accepted') = Len(accepted) + 1
      BY <1>1 DEF PushedOK
    <2>2. cmds' \in Seq(Nat) /\ Len(cmds') = Len(cmds) + 1
      BY <1>2, <2>1
    <2>3. Len(cmds) \in Nat /\ Len(sts) \in Nat
      OBVIOUS
    <2>4. EndsAt(cmds', Len(accepted'))
      BY <1>2, <2>1, EndsAtAppend
    <2>5. EndsAt(sts', Len(accepted') - Len(cmds'))
      <3>1. Len(accepted') - Len(cmds') = Len(accepted) - Len(cmds)
        BY <2>1, <2>2, <2>3
      <3> QED
        BY <1>2, <3>1
    <2>6. Owed = 0 /\ Owed' = 1
      BY <1>2 DEF Owed
    <2>7. Len(cmds') + Len(sts') + mismatches' <= timeouts' + Owed'
      BY <1>2, <2>2, <2>3, <2>6
    <2> QED
      BY <1>2, <2>1, <2>2, <2>3, <2>4, <2>5, <2>7
  <1>5. StatusIsOurs'
    BY <1>2 DEF DmaInv, StatusIsOurs
  <1> QED
    BY <1>3, <1>4, <1>5 DEF DmaInv

LEMMA PoppedOne ==
  ASSUME DmaInv, Pop
  PROVE  DmaInv'
  <1> USE DEF DmaInv, InFlightOK
  <1>1. /\ poll # 0 /\ sts # <<>> /\ sts' = Tail(sts) /\ poll' = 0
        /\ UNCHANGED <<board, mapBase, channel, accepted, pushed, cmds, timeouts>>
    BY DEF Pop
  <1>2. PushedOK'
    BY <1>1 DEF PushedOK, Page
  <1>3. /\ Len(accepted) \in Nat /\ Len(cmds) \in Nat /\ Len(sts) \in Nat /\ Len(sts) > 0
        /\ poll = Len(accepted) /\ timeouts \in Nat /\ mismatches \in Nat
    BY <1>1, SMTT(30) DEF PushedOK
  <1>4. sts' \in Seq(Nat) /\ Len(sts') = Len(sts) - 1
    BY <1>1
  <1>5. Head(sts) = Len(accepted) - Len(cmds) - Len(sts) + 1
    <2>1. Len(accepted) - Len(cmds) \in Int
      BY <1>3
    <2> QED
      BY <1>1, <2>1, EndsAtTail
  <1>6. EndsAt(sts', Len(accepted') - Len(cmds'))
    <2>1. Len(accepted) - Len(cmds) \in Int
      BY <1>3
    <2> QED
      BY <1>1, <2>1, EndsAtTail
  <1>7. Len(cmds) + Len(sts) + mismatches <= timeouts + 1
    BY <1>1 DEF Owed
  <1>8. CASE accepted[Head(sts)].tag = accepted[poll].tag
    <2>1. answer' = [kind |-> "status", asked |-> poll, of |-> Head(sts)] /\ mismatches' = mismatches
      BY <1>8 DEF Pop
    <2>2. Owed' = 0
      BY <1>1, <2>1 DEF Owed
    <2>3. InFlightOK'
      BY <1>1, <1>3, <1>4, <1>6, <1>7, <2>1, <2>2
    <2>4. timeouts = 0 => Head(sts) = poll
      BY <1>3, <1>5, <1>7
    <2>5. timeouts > 0 \/ timeouts = 0
      BY <1>3
    <2>6. StatusIsOurs'
      BY <1>1, <1>8, <2>1, <2>4, <2>5 DEF StatusIsOurs
    <2> QED
      BY <1>2, <2>3, <2>6
  <1>9. CASE accepted[Head(sts)].tag # accepted[poll].tag
    <2>1. /\ answer' = [kind |-> "mismatch", asked |-> poll, of |-> Head(sts)]
          /\ mismatches' = mismatches + 1
      BY <1>9 DEF Pop
    <2>2. Owed' = 1
      BY <2>1 DEF Owed
    <2>3. InFlightOK'
      BY <1>1, <1>3, <1>4, <1>6, <1>7, <2>1, <2>2
    <2>4. Len(cmds) + Len(sts) >= 2
      BY <1>3, <1>5, <1>9
    <2>5. mismatches + 1 <= timeouts
      BY <1>3, <1>7, <2>4
    <2>6. StatusIsOurs'
      BY <1>1, <2>1, <2>5 DEF StatusIsOurs
    <2> QED
      BY <1>2, <2>3, <2>6
  <1> QED
    BY <1>8, <1>9

LEMMA Moved ==
  ASSUME DmaInv, Moves
  PROVE  DmaInv'
  <1> USE DEF DmaInv, InFlightOK
  <1>1. /\ cmds # <<>> /\ cmds' = Tail(cmds) /\ sts' = Append(sts, Head(cmds))
        /\ UNCHANGED <<board, mapBase, channel, accepted, pushed, poll, answer, timeouts, mismatches>>
    BY DEF Moves
  <1>2. Len(accepted) \in Nat /\ Len(cmds) \in Nat /\ Len(sts) \in Nat /\ Len(cmds) > 0
    <2>1. Len(accepted) \in Nat
      BY DEF PushedOK
    <2>2. cmds \in Seq(Nat) /\ cmds # <<>> /\ sts \in Seq(Nat)
      BY <1>1
    <2>3. Len(cmds) > 0 /\ Len(cmds) \in Nat /\ Len(sts) \in Nat
      BY ONLY <2>2
    <2> QED
      BY ONLY <2>1, <2>3
  <1>3. cmds' \in Seq(Nat) /\ Len(cmds') = Len(cmds) - 1
    BY <1>1
  <1>4. /\ EndsAt(Tail(cmds), Len(accepted)) /\ Head(cmds) \in Nat
        /\ Head(cmds) = Len(accepted) - Len(cmds) + 1
    <2>1. EndsAt(Tail(cmds), Len(accepted)) /\ Head(cmds) = Len(accepted) - Len(cmds) + 1
      BY <1>1, <1>2, EndsAtTail
    <2> QED
      BY <1>1, <2>1
  <1>5. sts' \in Seq(Nat) /\ Len(sts') = Len(sts) + 1
    BY <1>1, <1>4
  <1>6. EndsAt(cmds', Len(accepted'))
    BY <1>1, <1>4
  <1>7. EndsAt(sts', Len(accepted') - Len(cmds'))
    <2>0. Len(accepted) - Len(cmds) \in Nat
      BY <1>2
    <2>1. PICK n \in Nat : n = Len(accepted) - Len(cmds)
      BY <2>0
    <2>2. Head(cmds) = n + 1
      BY <1>4, <2>1
    <2>3. Len(accepted') - Len(cmds') = n + 1
      <3>1. Len(accepted) - (Len(cmds) - 1) = n + 1
        BY <1>2, <2>1
      <3> QED
        BY <1>1, <1>3, <3>1
    <2>4. EndsAt(Append(sts, n + 1), n + 1)
      BY <2>1, EndsAtAppend
    <2> QED
      BY <1>1, <2>2, <2>3, <2>4
  <1>8. Owed' = Owed /\ Owed \in {0, 1}
    BY <1>1 DEF Owed
  <1>9. Len(cmds') + Len(sts') = Len(cmds) + Len(sts)
    BY <1>2, <1>3, <1>5
  <1>10. InFlightOK'
    BY <1>1, <1>3, <1>5, <1>6, <1>7, <1>8, <1>9
  <1> QED
    BY <1>1, <1>10 DEF PushedOK, Page, StatusIsOurs

LEMMA DmaInvStep == DmaInv /\ [DmaNext]_dmaVars => DmaInv'
  <1> SUFFICES ASSUME DmaInv, [DmaNext]_dmaVars
               PROVE  DmaInv'
    OBVIOUS
  <1>1. CASE CreateChannels
    <2>1. /\ channel = "none" /\ channel' \in Channels /\ board' \in Bases
          /\ UNCHANGED <<accepted, pushed, cmds, sts, poll, answer, timeouts, mismatches>>
      BY <1>1 DEF CreateChannels
    <2>2. board' \in Int /\ mapBase' \in Int
      <3>1. PICK sysfs \in {board', Unknown}, ranges \in Bases \cup {Unknown} :
              mapBase' = Discovered(sysfs, ranges)
        BY <1>1 DEF CreateChannels
      <3> QED
        BY <2>1, <3>1, BasesAreInt DEF Discovered
    <2>3. accepted = <<>> /\ Len(accepted) = 0
      BY <2>1 DEF DmaInv, PushedOK, Channels
    <2>4. PushedOK'
      BY <2>1, <2>2, <2>3 DEF DmaInv, PushedOK
    <2> QED
      BY <2>1, <2>4 DEF DmaInv, InFlightOK, Owed, StatusIsOurs
  <1>2. CASE PollStatus
    <2>1. /\ poll = 0 /\ poll' = Len(accepted) /\ answer.kind \in {"issued", "mismatch", "timeout"}
          /\ UNCHANGED <<board, mapBase, channel, accepted, pushed, cmds, sts, answer,
                         timeouts, mismatches>>
      BY <1>2 DEF PollStatus
    <2>2. Owed \in {0, 1} /\ Owed' = 1
      <3>1. Len(accepted) # 0
        BY <2>1 DEF DmaInv, InFlightOK, PushedOK
      <3> QED
        BY <2>1, <3>1 DEF Owed
    <2>3. Len(cmds') + Len(sts') + mismatches' <= timeouts' + Owed'
      <3>1. Len(cmds) \in Nat /\ Len(sts) \in Nat /\ mismatches \in Nat /\ timeouts \in Nat
            /\ Len(cmds) + Len(sts) + mismatches <= timeouts + Owed
        BY DEF DmaInv, InFlightOK
      <3> QED
        BY <2>1, <2>2, <3>1
    <2> QED
      BY <2>1, <2>3 DEF DmaInv, PushedOK, Page, InFlightOK, StatusIsOurs
  <1>3. CASE PollTimesOut
    <2>1. /\ poll # 0 /\ poll' = 0 /\ timeouts' = timeouts + 1 /\ answer' = [kind |-> "timeout"]
          /\ UNCHANGED <<board, mapBase, channel, accepted, pushed, cmds, sts, mismatches>>
      BY <1>3 DEF PollTimesOut
    <2>2. Owed = 1 /\ Owed' = 0
      BY <2>1 DEF Owed
    <2>3. Len(cmds) \in Nat /\ Len(sts) \in Nat /\ mismatches \in Nat /\ timeouts \in Nat
          /\ Len(cmds) + Len(sts) + mismatches <= timeouts + Owed
      BY DEF DmaInv, InFlightOK
    <2>4. InFlightOK'
      <3>1. Len(cmds') + Len(sts') + mismatches' <= timeouts' + Owed'
        BY <2>1, <2>2, <2>3
      <3>2. Len(accepted) > 0
        BY <2>1 DEF DmaInv, InFlightOK, PushedOK
      <3> QED
        BY <2>1, <2>3, <3>1, <3>2 DEF DmaInv, InFlightOK
    <2>5. StatusIsOurs'
      BY <2>1, <2>3 DEF DmaInv, StatusIsOurs
    <2> QED
      BY <2>1, <2>4, <2>5 DEF DmaInv, PushedOK, Page
  <1>4. CASE UNCHANGED dmaVars
    BY <1>4 DEF dmaVars, DmaInv, PushedOK, Page, InFlightOK, Owed, StatusIsOurs
  <1> QED
    BY <1>1, <1>2, <1>3, <1>4, Issued, PoppedOne, Moved DEF DmaNext

LEMMA DmaInvSafe == DmaInv => CommandsReachChannel
  <1> SUFFICES ASSUME DmaInv, NEW i \in DOMAIN pushed
               PROVE  /\ pushed[i].page = board + DefaultBase[channel] - NpuBaseDefault
                      /\ \A f \in DOMAIN CommandLayout :
                           Field(pushed[i].word, CommandLayout[f].at, CommandLayout[f].width)
                             = accepted[i][f]
    BY DEF CommandsReachChannel, DmaInv, PushedOK
  <1>1. Fits(accepted[i]) /\ pushed[i].page = Page /\ pushed[i].word = Staged(Packed(accepted[i]))
    BY DEF DmaInv, PushedOK
  <1> QED
    BY <1>1, PackedFields DEF Page

-----------------------------------------------------------------------------
(* BareMetal.                                                              *)

LEMMA PyLayouts == \A c \in CommandNames : Disjoint(PyLayout[c], 56)
  <1>1. Disjoint(PyLayout.RESET_KV_CACHE, 56)
    BY DEF Disjoint, PyLayout, F
  <1>2. Disjoint(PyLayout.LOAD_WEIGHT, 56)
    BY DEF Disjoint, PyLayout, F
  <1>3. Disjoint(PyLayout.LOAD_PROMPT, 56)
    BY DEF Disjoint, PyLayout, F
  <1>4. Disjoint(PyLayout.NEXT_TOKEN, 56)
    BY DEF Disjoint, PyLayout, F
  <1> QED
    BY <1>1, <1>2, <1>3, <1>4 DEF CommandNames

LEMMA OpcodesDiffer ==
  \A c, d \in CommandNames : /\ Opcode[c] \subseteq Bits(3)
                             /\ Opcode[c] = Opcode[d] => c = d
  <1>1. \A c \in CommandNames : Opcode[c] \subseteq Bits(3)
    BY DEF CommandNames, Opcode, Bits
  <1>2. /\ 0 \in Opcode.RESET_KV_CACHE /\ 1 \notin Opcode.RESET_KV_CACHE
        /\ 2 \notin Opcode.RESET_KV_CACHE
        /\ 0 \notin Opcode.LOAD_WEIGHT /\ 1 \in Opcode.LOAD_WEIGHT
        /\ 0 \in Opcode.LOAD_PROMPT /\ 1 \in Opcode.LOAD_PROMPT
        /\ 0 \notin Opcode.NEXT_TOKEN /\ 1 \notin Opcode.NEXT_TOKEN /\ 2 \in Opcode.NEXT_TOKEN
    BY DEF Opcode
  <1>3. \A c, d \in CommandNames : Opcode[c] = Opcode[d] => c = d
    BY <1>2 DEF CommandNames
  <1> QED
    BY <1>1, <1>3

LEMMA CommandField ==
  ASSUME NEW c \in CommandNames, NEW args, Accepts(c, args), NEW f \in Fields(c)
  PROVE  Field(Shift(Opcode[c], 56) \cup Operand(PyLayout[c], args),
               PyLayout[c][f].at, PyLayout[c][f].width) = args[f]
  <1> DEFINE layout == PyLayout[c]
             opcode == Shift(Opcode[c], 56)
  <1>1. Disjoint(layout, 56) /\ f \in DOMAIN layout
        /\ \A g \in DOMAIN layout : args[g] \subseteq Bits(layout[g].width)
    BY PyLayouts DEF Accepts, Fields
  <1>2. \A b \in opcode : b \in 56 .. 58
    BY OpcodesDiffer DEF Shift, Bits
  <1>3. \A b \in opcode : b \in Nat /\ b >= layout[f].at + layout[f].width
    BY <1>1, <1>2 DEF Disjoint
  <1> HIDE DEF opcode, layout
  <1>4. Field(opcode \cup Operand(layout, args), layout[f].at, layout[f].width) = args[f]
    <2> DEFINE val == args
    <2>1. \A g \in DOMAIN layout : val[g] \subseteq Bits(layout[g].width)
      BY <1>1
    <2> HIDE DEF val
    <2>2. Field(opcode \cup Operand(layout, val), layout[f].at, layout[f].width) = val[f]
      BY <1>1, <1>3, <2>1, OperandField, ZenonT(60)
    <2> QED
      BY <2>2 DEF val
  <1> QED
    BY <1>4, Zenon DEF layout, opcode

\* A command that isa.py accepts is the same word on both hosts, and is read
\* back as it was.
LEMMA CommandRead ==
  ASSUME NEW c \in CommandNames, NEW args, Accepts(c, args),
         args = [f \in Fields(c) |-> args[f]]
  PROVE  CWord(c, args) = PyWord(c, args) /\ Decoded(CWord(c, args)) = [op |-> c, args |-> args]
  <1> DEFINE layout == PyLayout[c]
             opcode == Shift(Opcode[c], 56)
             operand == Operand(layout, args)
  <1>1. Disjoint(layout, 56) /\ \A g \in DOMAIN layout : args[g] \subseteq Bits(layout[g].width)
    BY PyLayouts DEF Accepts, Fields
  <1>2. PyWord(c, args) = opcode \cup operand
    BY DEF PyWord, Operand, Fields
  <1>3. operand \subseteq Bits(56)
    <2> HIDE DEF layout
    <2> QED
      BY <1>1, OperandSize
  <1>4. Opcode[c] \subseteq Bits(3)
    BY OpcodesDiffer
  <1>5. CWord(c, args) = PyWord(c, args)
    <2>1. CLayout = PyLayout
      BY DEF CLayout, PyLayout
    <2>2. \A g \in Fields(c) : args[g] \cap Bits(CLayout[c][g].width) = args[g]
      BY <2>1 DEF Accepts
    <2>3. UNION {Shift(args[g] \cap Bits(CLayout[c][g].width), CLayout[c][g].at) : g \in Fields(c)}
            = UNION {Shift(args[g], PyLayout[c][g].at) : g \in Fields(c)}
      BY <2>1, <2>2
    <2>4. Opcode[c] \cap Bits(8) = Opcode[c]
      BY <1>4 DEF Bits
    <2>5. UNION {Shift(args[g], PyLayout[c][g].at) : g \in Fields(c)} = operand
      BY DEF Operand, Fields
    <2>6. operand \cap Bits(56) = operand
      BY <1>3
    <2> QED
      BY <1>2, <2>3, <2>4, <2>5, <2>6 DEF CWord
  <1> DEFINE word == opcode \cup operand
  <1>6. \A b \in opcode : b \in 56 .. 58 /\ b - 56 \in Opcode[c]
    BY <1>4 DEF Shift, Bits
  <1>7. DecodedOpcode(word) = Opcode[c]
    <2>1. ASSUME NEW b \in 56 .. 56 + 8 - 1
          PROVE  b \in word <=> b - 56 \in Opcode[c]
      <3>1. b \notin operand
        BY <1>3 DEF Bits
      <3>2. b = (b - 56) + 56
        OBVIOUS
      <3>3. b - 56 \in Opcode[c] => b \in opcode
        BY <3>2 DEF Shift
      <3> QED
        BY <1>6, <3>1, <3>3
    <2> DEFINE n == 56
               w == 8
               v == Opcode[c]
    <2>2. /\ n \in Nat /\ w \in Nat /\ v \subseteq Bits(w)
          /\ \A b \in n .. n + w - 1 : b \in word <=> b - n \in v
      BY <1>4, <2>1 DEF Bits
    <2> HIDE DEF word, n, w, v
    <2>3. Field(word, n, w) = v
      BY <2>2, FieldOf
    <2> QED
      BY <2>3, Zenon DEF n, w, v, DecodedOpcode
  <1>8. (CHOOSE d \in CommandNames : Opcode[d] = DecodedOpcode(word)) = c
    <2> HIDE DEF word
    <2> QED
      BY <1>7, OpcodesDiffer
  <1>9. ASSUME NEW f \in Fields(c)
        PROVE  Field(word, PyLayout[c][f].at, PyLayout[c][f].width) = args[f]
    BY CommandField, ZenonT(60)
  <1>10. [f \in Fields(c) |-> Field(word, PyLayout[c][f].at, PyLayout[c][f].width)] = args
    BY <1>9
  <1> HIDE DEF word
  <1>11. Decoded(word) = [op |-> c, args |-> args]
    BY <1>8, <1>10, ZenonT(60) DEF Decoded
  <1> QED
    BY <1>2, <1>5, <1>11 DEF word

\* The operands of main's commands, whatever the image was built with.
LEMMA MainOperands ==
  ASSUME build \in Builds
  PROVE  /\ build.session \subseteq Bits(32) /\ build.manifest \subseteq Bits(32)
         /\ build.character \subseteq Bits(32)
         /\ PromptLength \in Nat
  <1>1. build.character \subseteq Bits(8)
    BY BareMetalAssumption DEF Builds
  <1> QED
    BY <1>1, BareMetalAssumption DEF Builds, Bits

LEMMA Joined ==
  ASSUME NEW S, NEW s \in Seq(S), NEW t \in Seq(S)
  PROVE  /\ s \o t \in Seq(S) /\ Len(s \o t) = Len(s) + Len(t)
         /\ \A i \in 1 .. Len(s) : (s \o t)[i] = s[i]
         /\ Len(t) = 1 => (s \o t)[Len(s) + 1] = t[1]
  OBVIOUS

Sent(command) ==
  /\ command.op \in CommandNames
  /\ Accepts(command.op, command.args)
  /\ command.args = [f \in Fields(command.op) |-> command.args[f]]
  /\ command = [op |-> command.op, args |-> command.args]

LEMMA MainCommands ==
  ASSUME build \in Builds
  PROVE  /\ Program \in Seq({Program[i] : i \in 1 .. PromptLength + 3})
         /\ Len(Program) = PromptLength + 3
         /\ Program[2].op = "LOAD_WEIGHT"
         /\ \A i \in 1 .. PromptLength + 3 : Sent(Program[i])
  <1> DEFINE reset == Command("RESET_KV_CACHE", [session_id |-> build.session])
             load == Command("LOAD_WEIGHT", [weight_slot |-> {}, descriptor_count |-> {2},
                                             manifest_id |-> build.manifest, flags |-> {}])
             prompt(i) == Command("LOAD_PROMPT", [position |-> BitsOf(i - 1, 4),
                                                  token_id |-> build.character])
             ask == Command("NEXT_TOKEN", [request_id |-> {}, sampling |-> {},
                                           temperature_q8_8 |-> {}, top_p_q8_8 |-> {8}])
             prompts == [i \in 1 .. PromptLength |-> prompt(i)]
  <1>1. Program = <<reset, load>> \o prompts \o <<ask>>
    BY DEF Program
  <1>2. Sent(reset)
    BY MainOperands DEF Sent, Command, CommandNames, Accepts, Fields, PyLayout, F
  <1>3. Sent(load)
    <2>1. {2} \subseteq Bits(8)
      BY DEF Bits
    <2>2. Accepts("LOAD_WEIGHT", load.args)
      BY <2>1, MainOperands DEF Command, Accepts, Fields, PyLayout, F
    <2>3. load.args = [f \in Fields("LOAD_WEIGHT") |-> load.args[f]]
      BY DEF Command, Fields, PyLayout
    <2> QED
      BY <2>1, <2>2, <2>3 DEF Sent, Command, CommandNames
  <1>4. ASSUME NEW i \in 1 .. PromptLength
        PROVE  Sent(prompt(i))
    <2>1. BitsOf(i - 1, 4) \subseteq Bits(24)
      BY DEF BitsOf, Bits
    <2> QED
      BY <2>1, MainOperands DEF Sent, Command, CommandNames, Accepts, Fields, PyLayout, F
  <1>5. Sent(ask)
    <2>1. {8} \subseteq Bits(16)
      BY DEF Bits
    <2> QED
      BY <2>1 DEF Sent, Command, CommandNames, Accepts, Fields, PyLayout, F
  <1>6. load.op = "LOAD_WEIGHT"
    BY DEF Command
  <1> HIDE DEF reset, load, prompt, ask
  <1> DEFINE all == {reset, load, ask} \cup {prompt(i) : i \in 1 .. PromptLength}
  <1>7. /\ Len(Program) = PromptLength + 3 /\ Program \in Seq(all)
        /\ Program[1] = reset /\ Program[2] = load
        /\ \A i \in 1 .. PromptLength : Program[i + 2] = prompt(i)
        /\ Program[PromptLength + 3] = ask
    <2>1. PromptLength \in Nat
      BY MainOperands
    <2>2. prompts \in Seq(all) /\ Len(prompts) = PromptLength
      BY <2>1
    <2>3. \A i \in 1 .. PromptLength : prompts[i] = prompt(i)
      OBVIOUS
    <2>4. <<reset, load>> \in Seq(all) /\ Len(<<reset, load>>) = 2 /\ <<ask>> \in Seq(all)
      OBVIOUS
    <2> DEFINE both == <<reset, load>>
               front == both \o prompts
               last == <<ask>>
    <2>5. both[1] = reset /\ both[2] = load /\ last[1] = ask /\ Len(last) = 1
      OBVIOUS
    <2> HIDE DEF all, both, last, prompts
    <2>6. front \in Seq(all) /\ Len(front) = PromptLength + 2
          /\ (\A i \in 1 .. 2 : front[i] = both[i])
          /\ \A i \in 1 .. PromptLength : front[i + 2] = prompts[i]
      BY <2>1, <2>2, <2>4 DEF both
    <2> HIDE DEF front
    <2>7. Program = front \o last
      BY <1>1 DEF front, both, last
    <2>8. last \in Seq(all)
      BY <2>4 DEF last
    <2> DEFINE n == Len(front)
               total == front \o last
    <2>9. n \in Nat /\ total \in Seq(all) /\ Len(total) = n + 1
          /\ (\A i \in 1 .. n : total[i] = front[i]) /\ total[n + 1] = last[1]
      <3>1. /\ total \in Seq(all) /\ Len(total) = Len(front) + Len(last)
            /\ (\A i \in 1 .. Len(front) : total[i] = front[i])
            /\ Len(last) = 1 => total[Len(front) + 1] = last[1]
        BY <2>6, <2>8, Joined
      <3>2. Len(front) \in Nat
        BY <2>6
      <3> HIDE DEF total
      <3> QED
        BY <2>5, <3>1, <3>2
    <2> HIDE DEF total
    <2>10. n = PromptLength + 2 /\ Program = total
      BY <2>6, <2>7 DEF total
    <2>11. n + 1 = PromptLength + 3 /\ \A i \in 1 .. PromptLength : i + 2 \in 1 .. n
      BY <2>1, <2>10
    <2> QED
      BY <2>1, <2>3, <2>5, <2>6, <2>9, <2>10, <2>11
  <1>8. ASSUME NEW i \in 1 .. PromptLength + 3
        PROVE  Sent(Program[i])
    <2>1. CASE i \in {1, 2, PromptLength + 3}
      BY <1>2, <1>3, <1>5, <1>7, <2>1
    <2>2. CASE i \notin {1, 2, PromptLength + 3}
      <3>1. PICK j \in 1 .. PromptLength : i = j + 2
        <4>1. i - 2 \in 1 .. PromptLength /\ i = (i - 2) + 2
          BY <2>2, MainOperands
        <4> QED
          BY <4>1
      <3>2. Program[i] = prompt(j)
        BY <1>7, <3>1
      <3> QED
        BY <1>4, <3>2
    <2> QED
      BY <2>1, <2>2
  <1>9. Program \in Seq({Program[i] : i \in 1 .. PromptLength + 3})
    BY <1>7, MainOperands
  <1> QED
    BY <1>6, <1>7, <1>8, <1>9

\* main is at its next-th command: the commands before it were executed, and
\* the current one was when the NPU is no longer busy with it.
Executing ==
  /\ build \in Builds /\ next \in 1 .. PromptLength + 3
  /\ at \in {"issue", "kick", "wait", "readback", "returned"}
  /\ executed \in Seq({Program[i] : i \in 1 .. PromptLength + 3})
  /\ \A i \in 1 .. Len(executed) : executed[i] = Program[i]
  /\ at \in {"issue", "kick"} => BUSY \notin status /\ Len(executed) = next - 1
  /\ at \in {"wait", "returned"} => Len(executed) = IF BUSY \in status THEN next - 1 ELSE next
  /\ at = "readback" => BUSY \notin status /\ Len(executed) = next

\* The NPU's instruction is the current command's once it was issued.
Issuing == at # "issue" => instruction = CWord(Current.op, Current.args)

\* The cache is clean once LOAD_WEIGHT was issued, and so the weights are read.
Written ==
  /\ next > 2 \/ (next = 2 /\ at # "issue") => dirty = {}
  /\ Len(executed) >= 2 => weightsRead

\* Main returns 0 with the token of its last command only.
Finishing ==
  /\ at = "readback" => next = PromptLength + 3 /\ token = CToken(status) /\ token # {}
  /\ at = "returned" /\ rc = 0 =>
       /\ BUSY \notin status /\ next = PromptLength + 3
       /\ token = CToken(status) /\ token # {}

MainInv == Executing /\ Issuing /\ Written /\ Finishing

LEMMA MainInvInit == Init => MainInv
  <1> SUFFICES ASSUME Init
               PROVE  MainInv
    OBVIOUS
  <1>1. PromptLength \in Nat
    BY BareMetalAssumption
  <1> QED
    BY <1>1 DEF Init, MainInv, Executing, Issuing, Written, Finishing, BUSY

\* The NPU completes the command main issued.
LEMMA Completed ==
  ASSUME MainInv, NpuCompletes
  PROVE  MainInv'
  <1> USE DEF MainInv
  <1>1. BUSY \in status /\ at \in {"wait", "returned"} /\ Len(executed) = next - 1
    BY DEF NpuCompletes, Executing
  <1>2. UNCHANGED <<build, next, at, polls, rc, token, dirty, instruction>>
    BY DEF NpuCompletes, cpuVars
  <1>3. Program' = Program /\ Current' = Current
    BY <1>2 DEF Program, Current
  <1>4. Decoded(instruction) = Program[next]
    <2>1. Sent(Current)
      BY MainCommands DEF Current, Executing
    <2>2. instruction = CWord(Current.op, Current.args)
      BY <1>1 DEF Issuing
    <2>3. Decoded(instruction) = [op |-> Current.op, args |-> Current.args]
      BY <2>1, <2>2, CommandRead DEF Sent
    <2> QED
      BY <2>1, <2>3 DEF Sent, Current
  <1>5. executed' = Append(executed, Program[next])
    BY <1>4 DEF NpuCompletes
  <1>6. BUSY \notin status'
    <2>1. \A t \in Tokens : t \subseteq Nat
      BY BareMetalAssumption DEF Bits
    <2>2. \A t \in Tokens : BUSY \notin Shift(t, TokenShift)
      BY <2>1 DEF Shift, TokenShift, BUSY
    <2> QED
      BY <2>2 DEF NpuCompletes, EncodeStatus, BUSY, DONE, ERROR, TOKEN_VALID
  <1>7. PromptLength \in Nat /\ next \in 1 .. PromptLength + 3 /\ Len(executed) \in Nat
    BY BareMetalAssumption DEF Executing
  <1>8. /\ executed' \in Seq({Program[i] : i \in 1 .. PromptLength + 3})
        /\ Len(executed') = next
        /\ \A i \in 1 .. next : executed'[i] = Program[i]
    <2>1. /\ executed' \in Seq({Program[i] : i \in 1 .. PromptLength + 3})
          /\ Len(executed') = Len(executed) + 1
          /\ executed'[Len(executed) + 1] = Program[next]
          /\ \A i \in 1 .. Len(executed) : executed'[i] = executed[i]
      BY <1>5, <1>7 DEF Executing
    <2>2. Len(executed) + 1 = next
      BY <1>1, <1>7
    <2> QED
      BY <1>1, <1>7, <2>1, <2>2 DEF Executing
  <1>9. Executing'
    BY <1>1, <1>2, <1>3, <1>6, <1>8 DEF Executing
  <1>10. Issuing'
    BY <1>2, <1>3 DEF Issuing
  <1>11. Written'
    <2>0. weightsRead' = IF Program[next].op = "LOAD_WEIGHT" THEN dirty = {} ELSE weightsRead
      BY <1>4, Zenon DEF NpuCompletes
    <2>1. next >= 2 => dirty = {}
      BY <1>1, <1>7 DEF Written
    <2>2. CASE next = 2
      <3>1. Program[next].op = "LOAD_WEIGHT"
        BY <2>2, MainCommands DEF Executing
      <3>2. dirty = {}
        BY <2>1, <2>2
      <3>3. weightsRead'
        BY <2>0, <3>1, <3>2, Zenon
      <3> QED
        BY <1>2, <2>1, <2>2, <3>3 DEF Written
    <2>3. CASE next > 2
      <3>1. weightsRead
        BY <1>1, <1>7, <2>3 DEF Written
      <3>2. dirty = {}
        BY <1>7, <2>1, <2>3
      <3>3. weightsRead'
        BY <2>0, <3>1, <3>2, Zenon
      <3> QED
        BY <1>2, <2>1, <2>3, <3>3 DEF Written
    <2>4. CASE next = 1
      BY <1>2, <1>8, <2>4 DEF Written
    <2> QED
      BY <1>7, <2>2, <2>3, <2>4
  <1>12. Finishing'
    BY <1>1, <1>2 DEF Finishing
  <1> QED
    BY <1>9, <1>10, <1>11, <1>12

LEMMA MainInvStep == MainInv /\ [Next]_vars => MainInv'
  <1> SUFFICES ASSUME MainInv, [Next]_vars
               PROVE  MainInv'
    OBVIOUS
  <1> USE DEF MainInv
  <1>1. PromptLength \in Nat /\ next \in 1 .. PromptLength + 3 /\ Len(executed) \in Nat
    BY BareMetalAssumption DEF Executing
  <1>2. ASSUME UNCHANGED <<build, next>>
        PROVE  Program' = Program /\ Current' = Current
    BY <1>2 DEF Program, Current
  <1>3. CASE IssueWord
    <2>1. /\ at = "issue" /\ at' = "kick" /\ dirty' = Flushed
          /\ instruction' = CWord(Current.op, Current.args)
          /\ UNCHANGED <<build, next, polls, rc, token, status, executed, weightsRead>>
      BY <1>3 DEF IssueWord
    <2>2. Executing'
      BY <1>2, <2>1 DEF Executing
    <2>3. Issuing'
      BY <1>2, <2>1 DEF Issuing
    <2>4. Written'
      <3>1. next > 2 => dirty = {}
        BY DEF Written
      <3>2. next = 2 => Current.op = "LOAD_WEIGHT"
        BY MainCommands DEF Current, Executing
      <3>3. next >= 2 => dirty' = {}
        BY <1>1, <2>1, <3>1, <3>2 DEF Flushed
      <3> QED
        BY <1>1, <2>1, <3>3 DEF Written
    <2>5. Finishing'
      BY <2>1 DEF Finishing
    <2> QED
      BY <2>2, <2>3, <2>4, <2>5
  <1>4. CASE Kick
    <2>1. /\ at = "kick" /\ at' = "wait" /\ status' = EncodeStatus({BUSY}, {})
          /\ UNCHANGED <<build, next, rc, token, dirty, instruction, executed, weightsRead>>
      BY <1>4 DEF Kick
    <2>2. BUSY \in status'
      BY <2>1 DEF EncodeStatus
    <2> QED
      BY <1>2, <2>1, <2>2 DEF Executing, Issuing, Written, Finishing
  <1>5. CASE PollError \/ PollLimitReached
    <2>1. /\ at = "wait" /\ at' = "returned"
          /\ UNCHANGED <<build, next, polls, token, dirty, instruction, status, executed, weightsRead>>
      BY <1>5 DEF PollError, PollLimitReached, Return, npuVars
    <2>2. rc' # 0
      BY <1>5 DEF PollError, PollLimitReached, Return, ReturnCode
    <2> QED
      BY <1>2, <2>1, <2>2 DEF Executing, Issuing, Written, Finishing
  <1>6. CASE PollIdle
    <2>1. /\ at = "wait" /\ BUSY \notin status
          /\ UNCHANGED <<build, polls, dirty, instruction, status, executed, weightsRead>>
      BY <1>6 DEF PollIdle, npuVars
    <2>2. Len(Program) = PromptLength + 3
      BY MainCommands DEF Executing
    <2>3. CASE next < Len(Program)
      <3>1. next' = next + 1 /\ at' = "issue" /\ UNCHANGED <<rc, token>>
        BY <1>6, <2>3 DEF PollIdle
      <3>2. Program' = Program
        BY <2>1 DEF Program
      <3>3. Len(executed) = next
        BY <2>1 DEF Executing
      <3>4. next' \in 1 .. PromptLength + 3 /\ next' - 1 = next
        BY <1>1, <2>2, <2>3, <3>1
      <3>5. Executing'
        BY <2>1, <3>1, <3>2, <3>3, <3>4 DEF Executing
      <3>6. Written'
        BY <1>1, <2>1, <3>1 DEF Written
      <3> QED
        BY <3>1, <3>5, <3>6 DEF Issuing, Finishing
    <2>4. CASE ~(next < Len(Program)) /\ CToken(status) = {}
      <3>1. at' = "returned" /\ rc' = -1 /\ UNCHANGED <<next, token>>
        BY <1>6, <2>4 DEF PollIdle, Return
      <3> QED
        BY <1>2, <2>1, <3>1 DEF Executing, Issuing, Written, Finishing
    <2>5. CASE ~(next < Len(Program)) /\ CToken(status) # {}
      <3>1. at' = "readback" /\ token' = CToken(status) /\ UNCHANGED <<next, rc>>
        BY <1>6, <2>5 DEF PollIdle
      <3>2. next = PromptLength + 3
        BY <1>1, <2>2, <2>5
      <3> QED
        BY <1>2, <2>1, <2>5, <3>1, <3>2 DEF Executing, Issuing, Written, Finishing
    <2> QED
      BY <2>3, <2>4, <2>5
  <1>7. CASE PollBusy
    <2>1. UNCHANGED <<build, next, at, rc, token, dirty, instruction, status, executed, weightsRead>>
      BY <1>7 DEF PollBusy, npuVars
    <2> QED
      BY <1>2, <2>1 DEF Executing, Issuing, Written, Finishing
  <1>8. CASE Readback
    <2>1. /\ at = "readback" /\ at' = "returned"
          /\ UNCHANGED <<build, next, polls, token, dirty, instruction, status, executed, weightsRead>>
      BY <1>8 DEF Readback, Return, npuVars
    <2> QED
      BY <1>2, <2>1 DEF Executing, Issuing, Written, Finishing
  <1>9. CASE UNCHANGED vars
    <2>1. UNCHANGED <<build, next, at, rc, token, dirty, instruction, status, executed, weightsRead>>
      BY <1>9 DEF vars, cpuVars, npuVars
    <2> QED
      BY <1>2, <2>1 DEF Executing, Issuing, Written, Finishing
  <1> QED
    BY <1>3, <1>4, <1>5, <1>6, <1>7, <1>8, <1>9, Completed DEF Next, CpuStep

LEMMA MainInvSafe == MainInv => HostsAgree /\ InOrder /\ SuccessIsComplete
  <1> SUFFICES ASSUME MainInv
               PROVE  HostsAgree /\ InOrder /\ SuccessIsComplete
    OBVIOUS
  <1> USE DEF MainInv
  <1>0. build \in Builds /\ next \in 1 .. PromptLength + 3
    BY DEF Executing
  <1>1. PromptLength \in Nat /\ next \in 1 .. PromptLength + 3 /\ Len(Program) = PromptLength + 3
    BY <1>0, BareMetalAssumption, MainCommands
  <1>2. Len(executed) \in Nat /\ Len(executed) <= Len(Program)
    BY <1>1 DEF Executing
  <1>3. PyToken(status) = CToken(status)
    BY DEF PyToken, CToken
  <1>4. HostsAgree
    <2>1. Sent(Current)
      BY <1>1, MainCommands DEF Current, Executing
    <2> QED
      BY <1>3, <2>1, CommandRead DEF HostsAgree, Issuing, Sent
  <1>5. InOrder
    <2>1. SubSeq(Program, 1, Len(executed)) = [i \in 1 .. Len(executed) |-> Program[i]]
      BY <1>1, <1>2, MainCommands DEF Executing
    <2>2. executed = [i \in 1 .. Len(executed) |-> executed[i]]
      BY DEF Executing
    <2>3. executed = SubSeq(Program, 1, Len(executed))
      BY <2>1, <2>2 DEF Executing
    <2> QED
      BY <1>2, <2>3 DEF InOrder
  <1>6. SuccessIsComplete
    <2> SUFFICES ASSUME at = "returned", rc = 0
                 PROVE  executed = Program /\ weightsRead /\ token = PyToken(status) /\ token # {}
      BY DEF SuccessIsComplete
    <2>1. Len(executed) = Len(Program)
      BY <1>1 DEF Executing, Finishing
    <2>2. executed = Program
      <3>1. Program \in Seq({Program[i] : i \in 1 .. PromptLength + 3})
        BY <1>0, MainCommands
      <3>2. executed \in Seq({Program[i] : i \in 1 .. PromptLength + 3})
            /\ \A i \in 1 .. Len(executed) : executed[i] = Program[i]
        BY DEF Executing
      <3> DEFINE S == {Program[i] : i \in 1 .. PromptLength + 3}
                 p == Program
      <3>3. p \in Seq(S) /\ executed \in Seq(S) /\ Len(executed) = Len(p)
            /\ \A i \in 1 .. Len(executed) : executed[i] = p[i]
        BY <2>1, <3>1, <3>2
      <3> HIDE DEF S, p
      <3>4. executed = p
        BY <3>3
      <3> QED
        BY <3>4 DEF p
    <2>3. weightsRead
      BY <1>1, <2>1 DEF Written
    <2> QED
      BY <1>3, <2>2, <2>3 DEF Finishing
  <1> QED
    BY <1>4, <1>5, <1>6

-----------------------------------------------------------------------------
(* UioAccess. How often a value occurs in a FIFO.                          *)

Places(s, v) == {k \in 1 .. Len(s) : s[k] = v}
Count(s, v) == Cardinality(Places(s, v))

LEMMA CountNat ==
  ASSUME NEW S, NEW s \in Seq(S), NEW v
  PROVE  IsFiniteSet(Places(s, v)) /\ Count(s, v) \in Nat
  <1>1. IsFiniteSet(1 .. Len(s))
    BY FS_Interval
  <1>2. IsFiniteSet(Places(s, v))
    BY <1>1, FS_Subset DEF Places
  <1> QED
    BY <1>2, FS_CardinalityType DEF Count

LEMMA CountNone ==
  ASSUME NEW s, NEW v, \A k \in 1 .. Len(s) : s[k] # v
  PROVE  Count(s, v) = 0
  <1>1. Places(s, v) = {}
    BY DEF Places
  <1> QED
    BY <1>1, FS_EmptySet DEF Count

LEMMA CountAppend ==
  ASSUME NEW S, NEW s \in Seq(S), NEW x \in S, NEW v
  PROVE  Count(Append(s, x), v) = Count(s, v) + IF x = v THEN 1 ELSE 0
  <1> DEFINE t == Append(s, x)
             n == Len(s) + 1
  <1>1. Len(s) \in Nat /\ Len(t) = n /\ t[n] = x /\ \A k \in 1 .. Len(s) : t[k] = s[k]
    OBVIOUS
  <1> HIDE DEF t
  <1>2. CASE x = v
    <2>1. Places(t, v) = Places(s, v) \cup {n} /\ n \notin Places(s, v)
      BY <1>1, <1>2 DEF Places
    <2>2. Cardinality(Places(s, v) \cup {n}) = Cardinality(Places(s, v)) + 1
      BY <2>1, CountNat, FS_AddElement
    <2> QED
      BY <1>2, <2>1, <2>2 DEF Count, t
  <1>3. CASE x # v
    <2>1. Places(t, v) = Places(s, v)
      BY <1>1, <1>3 DEF Places
    <2>2. Count(s, v) + 0 = Count(s, v)
      BY CountNat
    <2> QED
      BY <1>3, <2>1, <2>2 DEF Count, t
  <1> QED
    BY <1>2, <1>3

LEMMA CountTail ==
  ASSUME NEW S, NEW s \in Seq(S), s # <<>>, NEW v
  PROVE  Count(s, v) = Count(Tail(s), v) + IF Head(s) = v THEN 1 ELSE 0
  <1> DEFINE t == Tail(s)
             moved == {k + 1 : k \in Places(t, v)}
             shift == [k \in Places(t, v) |-> k + 1]
  <1>1. Len(s) \in Nat /\ Len(s) > 0 /\ Len(t) = Len(s) - 1 /\ Head(s) = s[1] /\ t \in Seq(S)
        /\ \A k \in 1 .. Len(t) : t[k] = s[k + 1]
    OBVIOUS
  <1> HIDE DEF t
  <1>2. moved = {k \in 2 .. Len(s) : s[k] = v}
    <2>1. ASSUME NEW k \in 2 .. Len(s), s[k] = v
          PROVE  k \in moved
      <3>1. k - 1 \in 1 .. Len(t) /\ k = (k - 1) + 1
        BY <1>1
      <3> QED
        BY <1>1, <2>1, <3>1 DEF Places
    <2>2. ASSUME NEW k \in Places(t, v)
          PROVE  k + 1 \in 2 .. Len(s) /\ s[k + 1] = v
      BY <1>1 DEF Places
    <2> QED
      BY <2>1, <2>2
  <1>3. IsFiniteSet(moved) /\ Cardinality(moved) = Count(t, v)
    <2>1. IsFiniteSet(Places(t, v))
      BY <1>1, CountNat
    <2>2. shift \in Bijection(Places(t, v), moved)
      <3> DEFINE P == Places(t, v)
      <3>1. P \subseteq Int
        BY <1>1 DEF Places
      <3> HIDE DEF P
      <3>2. [k \in P |-> k + 1] \in Bijection(P, {k + 1 : k \in P})
        BY <3>1 DEF Bijection, Injection, Surjection, IsInjective
      <3> QED
        BY <3>2 DEF P
    <2>3. ExistsBijection(Places(t, v), moved)
      BY <2>2 DEF ExistsBijection
    <2> QED
      BY <2>1, <2>3, FS_Bijection DEF Count
  <1>4. CASE Head(s) = v
    <2>1. Places(s, v) = moved \cup {1} /\ 1 \notin moved
      <3> HIDE DEF moved
      <3>1. 1 .. Len(s) = {1} \cup 2 .. Len(s) /\ 1 \notin 2 .. Len(s) /\ s[1] = v
        BY <1>1, <1>4
      <3> QED
        BY <1>2, <3>1 DEF Places
    <2>2. Cardinality(moved \cup {1}) = Cardinality(moved) + 1
      BY <1>3, <2>1, FS_AddElement
    <2> QED
      BY <1>3, <1>4, <2>1, <2>2 DEF Count, t
  <1>5. CASE Head(s) # v
    <2>1. Places(s, v) = moved
      <3> HIDE DEF moved
      <3>1. 1 .. Len(s) = {1} \cup 2 .. Len(s) /\ s[1] # v
        BY <1>1, <1>5
      <3> QED
        BY <1>2, <3>1 DEF Places
    <2>2. Count(t, v) + 0 = Count(t, v)
      BY <1>1, CountNat
    <2> QED
      BY <1>3, <1>5, <2>1, <2>2 DEF Count, t
  <1> QED
    BY <1>4, <1>5

-----------------------------------------------------------------------------
(* What waits between submit_program and the decoder, as a walk over the   *)
(* submitted programs: entry k is of program who[k], its word idx[k] or,   *)
(* after the last word, the marker.                                        *)

Entry(p, i, size) == IF i <= size[p] THEN <<p, i>> ELSE Marker

Follows(who, idx, waiting, size, p, i) ==
  /\ who[1] = p /\ idx[1] = i
  /\ \A k \in 1 .. Len(waiting) :
       /\ who[k] \in 1 .. Len(size) /\ idx[k] \in 1 .. size[who[k]] + 1
       /\ waiting[k] = Entry(who[k], idx[k], size)
       /\ IF idx[k] <= size[who[k]] THEN who[k + 1] = who[k] /\ idx[k + 1] = idx[k] + 1
                                    ELSE who[k + 1] = who[k] + 1 /\ idx[k + 1] = 1
  /\ who[Len(waiting) + 1] = Len(size) + 1 /\ idx[Len(waiting) + 1] = 1

\* The decoder is at word i of program p, and all that comes after waits.
InStep(waiting, size, p, i) == \E who, idx \in [Nat -> Nat] : Follows(who, idx, waiting, size, p, i)

Pairs == Nat \X Nat

LEMMA TailAt ==
  ASSUME NEW S, NEW s \in Seq(S), s # <<>>
  PROVE  /\ Tail(s) \in Seq(S) /\ Len(s) \in Nat /\ Len(s) >= 1 /\ Len(Tail(s)) = Len(s) - 1
         /\ Head(s) = s[1] /\ \A k \in 1 .. Len(s) - 1 : Tail(s)[k] = s[k + 1]
  OBVIOUS

LEMMA SeqAt ==
  ASSUME NEW S, NEW s \in Seq(S), NEW k \in 1 .. Len(s)
  PROVE  s[k] \in S
  OBVIOUS

LEMMA Shifted ==
  ASSUME NEW f \in [Nat -> Nat]
  PROVE  /\ [k \in Nat |-> f[k + 1]] \in [Nat -> Nat]
         /\ \A k \in Nat : [j \in Nat |-> f[j + 1]][k] = f[k + 1]
  <1>1. \A k \in Nat : k + 1 \in Nat
    OBVIOUS
  <1> QED
    BY <1>1, Zenon

\* Taking the head takes the word, or the marker, that the walk is at.
LEMMA InStepTail ==
  ASSUME NEW waiting \in Seq(Pairs), waiting # <<>>, NEW size \in Seq(Nat),
         NEW p \in Nat, NEW i \in Nat, InStep(waiting, size, p, i)
  PROVE  /\ p \in 1 .. Len(size) /\ i \in 1 .. size[p] + 1 /\ Head(waiting) = Entry(p, i, size)
         /\ i <= size[p] => InStep(Tail(waiting), size, p, i + 1)
         /\ i > size[p] => InStep(Tail(waiting), size, p + 1, 1)
  <1>1. PICK who \in [Nat -> Nat] : \E idx \in [Nat -> Nat] : Follows(who, idx, waiting, size, p, i)
    BY DEF InStep
  <1>2. PICK idx \in [Nat -> Nat] : Follows(who, idx, waiting, size, p, i)
    BY <1>1
  <1> DEFINE rest == Tail(waiting)
             w == [k \in Nat |-> who[k + 1]]
             x == [k \in Nat |-> idx[k + 1]]
  <1>3. /\ Len(waiting) \in Nat /\ Len(waiting) >= 1 /\ Len(rest) = Len(waiting) - 1
        /\ Head(waiting) = waiting[1] /\ \A k \in 1 .. Len(rest) : rest[k] = waiting[k + 1]
    BY TailAt
  <1>4. w \in [Nat -> Nat] /\ x \in [Nat -> Nat] /\ \A k \in Nat : w[k] = who[k + 1] /\ x[k] = idx[k + 1]
    BY Shifted, Zenon
  <1> HIDE DEF rest, w, x
  <1>5. p \in 1 .. Len(size) /\ i \in 1 .. size[p] + 1 /\ Head(waiting) = Entry(p, i, size)
    <2>1. 1 \in 1 .. Len(waiting)
      BY <1>3
    <2> QED
      BY <1>2, <1>3, <2>1 DEF Follows
  <1>6. /\ i <= size[p] => who[2] = p /\ idx[2] = i + 1
        /\ i > size[p] => who[2] = p + 1 /\ idx[2] = 1
    <2>1. size[p] \in Nat
      BY <1>5, SeqAt, Zenon
    <2>2. 1 \in 1 .. Len(waiting) /\ 1 + 1 = 2
      BY <1>3
    <2>3. IF i <= size[p] THEN who[2] = p /\ idx[2] = i + 1
                          ELSE who[2] = p + 1 /\ idx[2] = 1
      BY <1>2, <2>2 DEF Follows
    <2> DEFINE n == size[p]
    <2>4. n \in Nat /\ (i <= n \/ i > n) /\ (i <= n => ~(i > n))
      <3> HIDE DEF n
      <3>1. n \in Nat
        BY <2>1 DEF n
      <3> QED
        BY <3>1
    <2> HIDE DEF n
    <2> QED
      BY <2>3, <2>4, Zenon DEF n
  <1>7. Follows(w, x, rest, size, who[2], idx[2])
    <2>1. w[1] = who[2] /\ x[1] = idx[2]
      BY <1>4
    <2>2. ASSUME NEW k \in 1 .. Len(rest)
          PROVE  /\ w[k] \in 1 .. Len(size) /\ x[k] \in 1 .. size[w[k]] + 1
                 /\ rest[k] = Entry(w[k], x[k], size)
                 /\ IF x[k] <= size[w[k]] THEN w[k + 1] = w[k] /\ x[k + 1] = x[k] + 1
                                          ELSE w[k + 1] = w[k] + 1 /\ x[k + 1] = 1
      <3> DEFINE j == k + 1
      <3>1. j \in 1 .. Len(waiting) /\ k \in Nat /\ j \in Nat /\ rest[k] = waiting[j]
        BY <1>3
      <3>2. w[k] = who[j] /\ x[k] = idx[j] /\ w[j] = who[j + 1] /\ x[j] = idx[j + 1]
        BY <1>4, <3>1
      <3> HIDE DEF j
      <3>3. /\ w[k] \in 1 .. Len(size) /\ x[k] \in 1 .. size[w[k]] + 1
            /\ rest[k] = Entry(w[k], x[k], size)
            /\ IF x[k] <= size[w[k]] THEN w[j] = w[k] /\ x[j] = x[k] + 1
                                     ELSE w[j] = w[k] + 1 /\ x[j] = 1
        BY <1>2, <3>1, <3>2 DEF Follows
      <3> QED
        BY <3>3 DEF j
    <2>3. w[Len(rest) + 1] = who[Len(waiting) + 1] /\ x[Len(rest) + 1] = idx[Len(waiting) + 1]
      <3> DEFINE n == Len(rest) + 1
      <3>1. n \in Nat /\ n + 1 = Len(waiting) + 1
        BY <1>3
      <3> HIDE DEF n
      <3>2. w[n] = who[n + 1] /\ x[n] = idx[n + 1]
        BY <1>4, <3>1, Zenon
      <3> QED
        BY <3>1, <3>2, Zenon DEF n
    <2> QED
      BY <1>2, <2>1, <2>2, <2>3 DEF Follows
  <1>8. InStep(rest, size, who[2], idx[2])
    BY <1>4, <1>7 DEF InStep
  <1> QED
    BY <1>5, <1>6, <1>8 DEF rest

LEMMA JoinedAt ==
  ASSUME NEW S, NEW s \in Seq(S), NEW t \in Seq(S)
  PROVE  /\ s \o t \in Seq(S) /\ Len(s \o t) = Len(s) + Len(t) /\ Len(s) \in Nat /\ Len(t) \in Nat
         /\ \A i \in 1 .. Len(s) : (s \o t)[i] = s[i]
         /\ \A i \in 1 .. Len(t) : (s \o t)[Len(s) + i] = t[i]
  OBVIOUS

LEMMA AppendAt ==
  ASSUME NEW S, NEW s \in Seq(S), NEW x \in S
  PROVE  /\ Append(s, x) \in Seq(S) /\ Len(s) \in Nat /\ Len(Append(s, x)) = Len(s) + 1
         /\ \A i \in 1 .. Len(s) : Append(s, x)[i] = s[i]
         /\ Append(s, x)[Len(s) + 1] = x
  OBVIOUS

\* all is waiting and then added, the n words of program q and its marker.
Extends(a, q, n, waiting, size, added, all, t) ==
  /\ Len(waiting) = a /\ Len(size) = q - 1
  /\ added[n + 1] = Marker /\ \A k \in 1 .. n : added[k] = <<q, k>>
  /\ Len(all) = a + (n + 1)
  /\ \A k \in 1 .. a : all[k] = waiting[k]
  /\ \A k \in 1 .. n + 1 : all[a + k] = added[k]
  /\ Len(t) = q /\ t[q] = n /\ \A k \in 1 .. q - 1 : t[k] = size[k]

LEMMA WalkOn ==
  ASSUME NEW a \in Nat, NEW q \in Nat, q >= 1, NEW n \in Nat, NEW p, NEW i,
         NEW waiting, NEW size, NEW added, NEW all, NEW t,
         Extends(a, q, n, waiting, size, added, all, t),
         NEW who \in [Nat -> Nat], NEW idx \in [Nat -> Nat], Follows(who, idx, waiting, size, p, i)
  PROVE  InStep(all, t, p, i)
  <1> SUFFICES ASSUME Len(waiting) = a, Len(size) = q - 1,
                      \A k \in 1 .. n : added[k] = <<q, k>>, added[n + 1] = Marker,
                      Len(all) = a + (n + 1), \A k \in 1 .. a : all[k] = waiting[k],
                      \A k \in 1 .. n + 1 : all[a + k] = added[k],
                      Len(t) = q, \A k \in 1 .. q - 1 : t[k] = size[k], t[q] = n
               PROVE  InStep(all, t, p, i)
    BY DEF Extends
  <1> DEFINE w == [k \in Nat |-> IF k <= a THEN who[k] ELSE IF k <= a + n + 1 THEN q ELSE q + 1]
             x == [k \in Nat |-> IF k <= a THEN idx[k] ELSE IF k <= a + n + 1 THEN k - a ELSE 1]
  <1>5. w \in [Nat -> Nat] /\ x \in [Nat -> Nat]
    <2>1. ASSUME NEW k \in Nat
          PROVE  /\ (IF k <= a THEN who[k] ELSE IF k <= a + n + 1 THEN q ELSE q + 1) \in Nat
                 /\ (IF k <= a THEN idx[k] ELSE IF k <= a + n + 1 THEN k - a ELSE 1) \in Nat
      <3>1. who[k] \in Nat /\ idx[k] \in Nat
        OBVIOUS
      <3>2. q + 1 \in Nat /\ (k <= a \/ k - a \in Nat)
        BY ONLY a \in Nat, q \in Nat, k \in Nat
      <3> QED
        BY <3>1, <3>2, Zenon
    <2> QED
      BY <2>1
  <1>6. /\ \A k \in 1 .. a + 1 : w[k] = who[k] /\ x[k] = idx[k]
        /\ \A j \in 1 .. n + 1 : w[a + j] = q /\ x[a + j] = j
        /\ w[a + n + 2] = q + 1 /\ x[a + n + 2] = 1
    <2>1. \A k \in 1 .. a : w[k] = who[k] /\ x[k] = idx[k]
      OBVIOUS
    <2>2. ASSUME NEW j \in 1 .. n + 1
          PROVE  w[a + j] = q /\ x[a + j] = j
      <3>1. a + j \in Nat /\ ~(a + j <= a) /\ a + j <= a + n + 1 /\ (a + j) - a = j
        OBVIOUS
      <3> QED
        BY <3>1
    <2>3. w[a + n + 2] = q + 1 /\ x[a + n + 2] = 1
      <3>1. a + n + 2 \in Nat /\ ~(a + n + 2 <= a) /\ ~(a + n + 2 <= a + n + 1)
        OBVIOUS
      <3> QED
        BY <3>1
    <2>4. w[a + 1] = who[a + 1] /\ x[a + 1] = idx[a + 1]
      <3>1. who[a + 1] = q /\ idx[a + 1] = 1
        BY DEF Follows
      <3> HIDE DEF w, x
      <3>2. w[a + 1] = q /\ x[a + 1] = 1
        <4>1. 1 \in 1 .. n + 1
          BY ONLY n \in Nat
        <4> QED
          BY <2>2, <4>1, Zenon
      <3> QED
        BY <3>1, <3>2
    <2> HIDE DEF w, x
    <2>5. \A k \in 1 .. a + 1 : k \in 1 .. a \/ k = a + 1
      OBVIOUS
    <2> QED
      BY <2>1, <2>2, <2>3, <2>4, <2>5
  <1> HIDE DEF w, x
  <1>7. Follows(w, x, all, t, p, i)
    <2>1. w[1] = p /\ x[1] = i
      <3>1. 1 \in 1 .. a + 1
        OBVIOUS
      <3> QED
        BY <1>6, <3>1 DEF Follows
    <2> DEFINE Good(k) == /\ w[k] \in 1 .. q /\ x[k] \in 1 .. t[w[k]] + 1
                          /\ all[k] = Entry(w[k], x[k], t)
                          /\ IF x[k] <= t[w[k]] THEN w[k + 1] = w[k] /\ x[k + 1] = x[k] + 1
                                                ELSE w[k + 1] = w[k] + 1 /\ x[k + 1] = 1
    <2>2. ASSUME NEW k \in 1 .. a
          PROVE  Good(k)
      <3>1. k \in 1 .. a + 1 /\ k + 1 \in 1 .. a + 1 /\ all[k] = waiting[k]
        OBVIOUS
      <3>2. w[k] = who[k] /\ x[k] = idx[k] /\ w[k + 1] = who[k + 1] /\ x[k + 1] = idx[k + 1]
        BY <1>6, <3>1
      <3>3. /\ who[k] \in 1 .. Len(size) /\ idx[k] \in 1 .. size[who[k]] + 1
            /\ waiting[k] = Entry(who[k], idx[k], size)
            /\ IF idx[k] <= size[who[k]] THEN who[k + 1] = who[k] /\ idx[k + 1] = idx[k] + 1
                                         ELSE who[k + 1] = who[k] + 1 /\ idx[k + 1] = 1
        BY DEF Follows
      <3>4. t[who[k]] = size[who[k]] /\ who[k] \in 1 .. q
        <4>1. who[k] \in 1 .. q - 1
          BY ONLY <3>3, Len(size) = q - 1
        <4>2. who[k] \in 1 .. q
          BY ONLY <4>1, q \in Nat
        <4> QED
          BY <4>1, <4>2, Zenon
      <3>5. Entry(w[k], x[k], t) = all[k]
        BY <3>1, <3>2, <3>3, <3>4, Zenon DEF Entry
      <3> QED
        BY <3>2, <3>3, <3>4, <3>5, Zenon
    <2>3. ASSUME NEW j \in 1 .. n + 1
          PROVE  Good(a + j)
      <3>1. w[a + j] = q /\ x[a + j] = j /\ all[a + j] = added[j]
        BY <1>6
      <3>2. q \in 1 .. q /\ j \in 1 .. t[q] + 1
        OBVIOUS
      <3>3. CASE j <= n
        <4>1. j \in 1 .. n /\ j + 1 \in 1 .. n + 1 /\ a + (j + 1) = (a + j) + 1
          BY <3>3
        <4>2. added[j] = <<q, j>>
          BY ONLY <4>1, \A k \in 1 .. n : added[k] = <<q, k>>
        <4>3. w[a + (j + 1)] = q /\ x[a + (j + 1)] = j + 1
          BY <1>6, <4>1, Zenon
        <4>4. w[(a + j) + 1] = q /\ x[(a + j) + 1] = j + 1
          BY <4>1, <4>3, Zenon
        <4> QED
          BY <3>1, <3>2, <3>3, <4>2, <4>4, Zenon DEF Entry
      <3>4. CASE j = n + 1
        <4>1. added[j] = Marker /\ ~(j <= n) /\ a + n + 2 = (a + j) + 1
          BY <3>4
        <4>2. w[(a + j) + 1] = q + 1 /\ x[(a + j) + 1] = 1
          BY <1>6, <4>1
        <4> QED
          BY <3>1, <3>2, <4>1, <4>2, Zenon DEF Entry
      <3>5. j <= n \/ j = n + 1
        BY ONLY j \in 1 .. n + 1, n \in Nat
      <3> QED
        BY <3>3, <3>4, <3>5, Zenon
    <2>4. ASSUME NEW k \in 1 .. Len(all)
          PROVE  Good(k)
      <3>1. CASE k <= a
        <4>1. k \in 1 .. a
          BY ONLY <3>1, k \in 1 .. Len(all), Len(all) = a + (n + 1), a \in Nat, n \in Nat
        <4> QED
          BY <2>2, <4>1
      <3>2. CASE k > a
        <4> DEFINE j == k - a
        <4>1. j \in 1 .. n + 1 /\ a + j = k
          BY ONLY <3>2, k \in 1 .. Len(all), Len(all) = a + (n + 1), a \in Nat, n \in Nat
        <4> HIDE DEF j, Good
        <4> QED
          BY <2>3, <4>1
      <3> QED
        BY <3>1, <3>2
    <2>5. w[Len(all) + 1] = Len(t) + 1 /\ x[Len(all) + 1] = 1
      <3>1. Len(all) + 1 = a + n + 2
        OBVIOUS
      <3> QED
        BY <1>6, <3>1
    <2> QED
      BY <2>1, <2>4, <2>5 DEF Follows
  <1> QED
    BY <1>5, <1>7 DEF InStep

\* A program that is submitted comes after all that waits.
LEMMA InStepMore ==
  ASSUME NEW waiting \in Seq(Pairs), NEW size \in Seq(Nat), NEW p \in Nat, NEW i \in Nat,
         InStep(waiting, size, p, i), NEW n \in Nat, NEW added \in Seq(Pairs), Len(added) = n + 1,
         \A k \in 1 .. n : added[k] = <<Len(size) + 1, k>>, added[n + 1] = Marker
  PROVE  InStep(waiting \o added, Append(size, n), p, i)
  <1> DEFINE a == Len(waiting)
             q == Len(size) + 1
             t == Append(size, n)
             all == waiting \o added
  <1>1. a \in Nat /\ Len(all) = a + Len(added)
    BY ONLY waiting \in Seq(Pairs), added \in Seq(Pairs)
  <1>2. \A k \in 1 .. a : all[k] = waiting[k]
    BY ONLY waiting \in Seq(Pairs), added \in Seq(Pairs)
  <1>3. \A k \in 1 .. Len(added) : all[a + k] = added[k]
    BY ONLY waiting \in Seq(Pairs), added \in Seq(Pairs)
  <1>4. q \in Nat /\ q >= 1 /\ Len(size) = q - 1 /\ Len(t) = q /\ t[q] = n
    BY ONLY size \in Seq(Nat), n \in Nat
  <1>5. \A k \in 1 .. q - 1 : t[k] = size[k]
    BY ONLY size \in Seq(Nat), n \in Nat
  <1>6. \A k \in 1 .. n : added[k] = <<q, k>>
    OBVIOUS
  <1>7. Len(waiting) = a
    OBVIOUS
  <1> HIDE DEF a, q, t, all
  <1>8. Len(all) = a + (n + 1) /\ \A k \in 1 .. n + 1 : all[a + k] = added[k]
    BY <1>1, <1>3
  <1>9. PICK who \in [Nat -> Nat] : \E idx \in [Nat -> Nat] : Follows(who, idx, waiting, size, p, i)
    BY DEF InStep
  <1>10. PICK idx \in [Nat -> Nat] : Follows(who, idx, waiting, size, p, i)
    BY <1>9
  <1>11. InStep(all, t, p, i)
    <2>1. Extends(a, q, n, waiting, size, added, all, t)
      BY <1>1, <1>2, <1>4, <1>5, <1>6, <1>7, <1>8, Zenon DEF Extends
    <2> QED
      BY <1>1, <1>4, <1>10, <2>1, WalkOn
  <1> QED
    BY <1>11 DEF all, t

-----------------------------------------------------------------------------
(* FIFO by FIFO: sequences that the steps build.                           *)

LEMMA WordsSeq ==
  ASSUME NEW p \in Nat, NEW n \in Nat
  PROVE  /\ Words(p, n) \in Seq(Pairs) /\ Len(Words(p, n)) = n
         /\ \A k \in 1 .. n : Words(p, n)[k] = <<p, k>>
  <1>1. \A k \in 1 .. n : <<p, k>> \in Pairs
    BY DEF Pairs
  <1> QED
    BY <1>1 DEF Words

\* The words of a sequence of pairs, told by its elements.
LEMMA WordsAre ==
  ASSUME NEW p \in Nat, NEW s \in Seq(Pairs), \A k \in 1 .. Len(s) : s[k] = <<p, k>>
  PROVE  s = Words(p, Len(s))
  <1>1. Len(s) \in Nat
    OBVIOUS
  <1> DEFINE t == Words(p, Len(s))
  <1>2. t \in Seq(Pairs) /\ Len(t) = Len(s) /\ \A k \in 1 .. Len(s) : t[k] = <<p, k>>
    BY <1>1, WordsSeq
  <1> HIDE DEF t
  <1>3. s = t
    BY <1>2
  <1> QED
    BY <1>3 DEF t

LEMMA WordsMore ==
  ASSUME NEW p \in Nat, NEW n \in Nat
  PROVE  Append(Words(p, n), <<p, n + 1>>) = Words(p, n + 1)
  <1> DEFINE s == Words(p, n)
             t == Append(s, <<p, n + 1>>)
  <1>1. s \in Seq(Pairs) /\ Len(s) = n /\ \A k \in 1 .. n : s[k] = <<p, k>>
    BY WordsSeq
  <1>2. <<p, n + 1>> \in Pairs
    BY DEF Pairs
  <1> HIDE DEF s
  <1>3. t \in Seq(Pairs) /\ Len(t) = n + 1 /\ t[n + 1] = <<p, n + 1>> /\ \A k \in 1 .. n : t[k] = s[k]
    BY <1>1, <1>2, AppendAt
  <1> HIDE DEF t
  <1>4. \A k \in 1 .. Len(t) : t[k] = <<p, k>>
    BY <1>1, <1>3
  <1>5. t = Words(p, Len(t))
    BY <1>3, <1>4, WordsAre
  <1> QED
    BY <1>3, <1>5 DEF t, s

\* submit_program's writes: the words, none of them the marker, and the marker.
LEMMA EntriesAre ==
  ASSUME NEW p \in Nat, p >= 1, NEW n \in Nat
  PROVE  LET e == Entries(Words(p, n)) IN
         /\ e \in Seq(Pairs) /\ Len(e) = n + 1 /\ e # <<>>
         /\ \A k \in 1 .. n : e[k] = <<p, k>>
         /\ e[n + 1] = Marker /\ Count(e, Marker) = 1
  <1> DEFINE s == Words(p, n)
             e == Append(s, Marker)
  <1>1. s \in Seq(Pairs) /\ Len(s) = n /\ \A k \in 1 .. n : s[k] = <<p, k>>
    BY WordsSeq
  <1>2. Marker \in Pairs
    BY DEF Pairs, Marker
  <1> HIDE DEF s
  <1>3. e \in Seq(Pairs) /\ Len(e) = n + 1 /\ e[n + 1] = Marker /\ \A k \in 1 .. n : e[k] = s[k]
    BY <1>1, <1>2, AppendAt
  <1>4. Count(s, Marker) = 0
    <2>1. \A k \in 1 .. Len(s) : s[k] # Marker
      BY <1>1 DEF Marker
    <2> QED
      BY <2>1, CountNone
  <1>5. Count(e, Marker) = 1
    <2>1. Count(e, Marker) = Count(s, Marker) + IF Marker = Marker THEN 1 ELSE 0
      BY <1>1, <1>2, CountAppend
    <2> HIDE DEF e
    <2> QED
      BY <1>4, <2>1
  <1>6. e # <<>>
    BY <1>3
  <1> QED
    BY <1>1, <1>3, <1>5, <1>6 DEF Entries, s

LEMMA TailJoined ==
  ASSUME NEW S, NEW s \in Seq(S), s # <<>>, NEW t \in Seq(S)
  PROVE  s \o t # <<>> /\ Head(s \o t) = Head(s) /\ Tail(s \o t) = Tail(s) \o t
  OBVIOUS

LEMMA MovedOver ==
  ASSUME NEW S, NEW s \in Seq(S), NEW t \in Seq(S), t # <<>>
  PROVE  Append(s, Head(t)) \o Tail(t) = s \o t
  OBVIOUS

LEMMA EmptyIs ==
  ASSUME NEW S, NEW s \in Seq(S)
  PROVE  s = <<>> <=> Len(s) = 0
  OBVIOUS

LEMMA LastOne ==
  ASSUME NEW S, NEW s \in Seq(S), s # <<>>
  PROVE  Tail(s) # <<>> <=> Len(s) # 1
  <1>1. Tail(s) \in Seq(S) /\ Len(s) \in Nat /\ Len(Tail(s)) = Len(s) - 1
    OBVIOUS
  <1>2. Tail(s) = <<>> <=> Len(Tail(s)) = 0
    BY <1>1, EmptyIs, Zenon
  <1>3. Len(Tail(s)) = 0 <=> Len(s) = 1
    BY ONLY <1>1
  <1> QED
    BY <1>2, <1>3

LEMMA JoinedNone ==
  ASSUME NEW S, NEW s \in Seq(S)
  PROVE  s \o <<>> = s
  OBVIOUS

-----------------------------------------------------------------------------
(* The inductive invariant of UioAccess.                                   *)

Sizes(progs) == [r \in 1 .. Len(progs) |-> Len(progs[r])]

\* Programs are what submit_program makes them, FIFOs hold entries.
UioTypes ==
  /\ programs \in Seq(Seq(Pairs))
  /\ \A r \in 1 .. Len(programs) : programs[r] = Words(r, Len(programs[r]))
  /\ cmdFifo \in Seq(Pairs) /\ pending \in Seq(Pairs) /\ decoded \in Seq(Pairs)
  /\ ran \in Seq(Seq(Pairs)) /\ stsFifo \in Seq({"BUSY", "DONE"})
  /\ claims \in Nat /\ running \in BOOLEAN /\ fitted \in BOOLEAN
  /\ caller = "pushing" <=> pending # <<>>

\* No kick without a submitted program, no DONE without a kick: markers and
\* DONE words can be lost but never made.
Counted ==
  /\ Len(ran) + Count(cmdFifo, Marker) + Count(pending, Marker) <= Len(programs)
  /\ claims + Count(stsFifo, "DONE") + (IF running THEN 1 ELSE 0) = Len(ran)

\* While nothing was dropped the decoder walks over the submitted programs.
Ordered ==
  /\ Len(cmdFifo) + Len(pending) <= FifoDepth
  /\ \A r \in 1 .. Len(ran) : ran[r] = programs[r]
  /\ decoded = Words(Len(ran) + 1, Len(decoded))
  /\ InStep(cmdFifo \o pending, Sizes(programs), Len(ran) + 1, Len(decoded) + 1)

UioInv == UioTypes /\ Counted /\ (fitted => Ordered)

LEMMA EmptyCounts == \A v : Count(<<>>, v) = 0
  <1>1. ASSUME NEW v PROVE Count(<<>>, v) = 0
    <2>1. \A k \in 1 .. Len(<<>>) : <<>>[k] # v
      OBVIOUS
    <2> QED
      BY <2>1, CountNone
  <1> QED
    BY <1>1

LEMMA NothingWaits == InStep(<<>>, <<>>, 1, 1)
  <1> DEFINE one == [k \in Nat |-> 1]
  <1>1. one \in [Nat -> Nat] /\ one[1] = 1
    OBVIOUS
  <1> HIDE DEF one
  <1>2. Len(<<>>) + 1 = 1 /\ 1 .. Len(<<>>) = {}
    OBVIOUS
  <1> DEFINE none == <<>>
  <1>3. Len(none) = 0 /\ Len(none) + 1 = 1 /\ 1 .. Len(none) = {}
    BY <1>2
  <1> HIDE DEF none
  <1>4. Follows(one, one, none, none, 1, 1)
    <2>1. one[Len(none) + 1] = Len(none) + 1 /\ one[Len(none) + 1] = 1
      BY <1>1, <1>3, Zenon
    <2>2. \A k \in 1 .. Len(none) : FALSE
      BY <1>3, Zenon
    <2> QED
      BY <1>1, <2>1, <2>2, Zenon DEF Follows
  <1> QED
    BY <1>1, <1>4 DEF InStep, none

LEMMA UioInvInit == UioInit => UioInv
  <1> SUFFICES ASSUME UioInit PROVE UioInv
    OBVIOUS
  <1> USE DEF UioInit
  <1>1. UioTypes
    <2>1. /\ programs \in Seq(Seq(Pairs)) /\ ran \in Seq(Seq(Pairs))
          /\ cmdFifo \in Seq(Pairs) /\ pending \in Seq(Pairs) /\ decoded \in Seq(Pairs)
          /\ stsFifo \in Seq({"BUSY", "DONE"})
      OBVIOUS
    <2>2. \A r \in 1 .. Len(programs) : FALSE
      OBVIOUS
    <2>3. claims \in Nat /\ running \in BOOLEAN /\ fitted \in BOOLEAN
      OBVIOUS
    <2>4. ~(caller = "pushing") /\ ~(pending # <<>>)
      OBVIOUS
    <2> QED
      BY ONLY <2>1, <2>2, <2>3, <2>4 DEF UioTypes
  <1>2. Counted
    BY EmptyCounts DEF Counted
  <1>3. Ordered
    <2>1. Len(cmdFifo) + Len(pending) <= FifoDepth
      BY UioOK
    <2>2. decoded = Words(Len(ran) + 1, Len(decoded))
      BY DEF Words
    <2>3. Sizes(programs) = <<>> /\ cmdFifo \o pending = <<>> /\ Len(ran) + 1 = 1 /\ Len(decoded) + 1 = 1
      BY DEF Sizes
    <2>4. \A r \in 1 .. Len(ran) : ran[r] = programs[r]
      OBVIOUS
    <2> QED
      BY <2>1, <2>2, <2>3, <2>4, NothingWaits DEF Ordered
  <1> QED
    BY <1>1, <1>2, <1>3 DEF UioInv

LEMMA SizesAre ==
  ASSUME NEW progs \in Seq(Seq(Pairs))
  PROVE  /\ Sizes(progs) \in Seq(Nat) /\ Len(Sizes(progs)) = Len(progs)
         /\ \A r \in 1 .. Len(progs) : Sizes(progs)[r] = Len(progs[r])
         /\ \A words \in Seq(Pairs) : Sizes(Append(progs, words)) = Append(Sizes(progs), Len(words))
  <1>1. ASSUME NEW ps \in Seq(Seq(Pairs))
        PROVE  /\ Sizes(ps) \in Seq(Nat) /\ Len(Sizes(ps)) = Len(ps)
               /\ \A r \in 1 .. Len(ps) : Sizes(ps)[r] = Len(ps[r])
    <2>1. Len(ps) \in Nat /\ \A r \in 1 .. Len(ps) : Len(ps[r]) \in Nat
      <3>1. \A r \in 1 .. Len(ps) : ps[r] \in Seq(Pairs)
        BY SeqAt
      <3> QED
        BY <3>1
    <2> QED
      BY <2>1 DEF Sizes
  <1>2. ASSUME NEW words \in Seq(Pairs)
        PROVE  Sizes(Append(progs, words)) = Append(Sizes(progs), Len(words))
    <2> DEFINE all == Append(progs, words)
               n == Len(words)
    <2>1. /\ all \in Seq(Seq(Pairs)) /\ Len(progs) \in Nat /\ Len(all) = Len(progs) + 1
          /\ \A r \in 1 .. Len(progs) : all[r] = progs[r]
          /\ all[Len(progs) + 1] = words
      BY AppendAt
    <2>2. n \in Nat
      OBVIOUS
    <2> HIDE DEF all, n
    <2>3. /\ Sizes(all) \in Seq(Nat) /\ Len(Sizes(all)) = Len(progs) + 1
          /\ \A r \in 1 .. Len(progs) + 1 : Sizes(all)[r] = Len(all[r])
      BY <1>1, <2>1
    <2>4. Sizes(progs) \in Seq(Nat) /\ Len(Sizes(progs)) = Len(progs)
          /\ \A r \in 1 .. Len(progs) : Sizes(progs)[r] = Len(progs[r])
      BY <1>1
    <2> DEFINE a == Sizes(all)
               b == Sizes(progs)
               c == Append(b, n)
    <2>5. a[Len(progs) + 1] = n
      <3>1. Len(progs) + 1 \in 1 .. Len(progs) + 1
        BY ONLY <2>1
      <3>2. Sizes(all)[Len(progs) + 1] = Len(all[Len(progs) + 1])
        BY <2>3, <3>1, Zenon
      <3> QED
        BY <2>1, <3>2, Zenon DEF n
    <2>6. \A r \in 1 .. Len(progs) : a[r] = b[r]
      BY <2>1, <2>3, <2>4
    <2>7. a \in Seq(Nat) /\ b \in Seq(Nat) /\ Len(a) = Len(progs) + 1 /\ Len(b) = Len(progs)
      BY <2>3, <2>4
    <2> HIDE DEF a, b
    <2>8. c \in Seq(Nat) /\ Len(c) = Len(b) + 1 /\ c[Len(b) + 1] = n /\ \A r \in 1 .. Len(b) : c[r] = b[r]
      BY <2>2, <2>7, AppendAt
    <2> HIDE DEF c
    <2>9. a = c
      <3>1. Len(a) = Len(c)
        BY <2>7, <2>8
      <3>2. ASSUME NEW r \in 1 .. Len(a) PROVE a[r] = c[r]
        <4>1. r \in 1 .. Len(progs) \/ r = Len(progs) + 1
          BY ONLY <2>1, <2>7, r \in 1 .. Len(a)
        <4> QED
          BY <2>5, <2>6, <2>7, <2>8, <4>1, Zenon
      <3> QED
        BY ONLY <2>7, <2>8, <3>1, <3>2
    <2> QED
      BY <2>9 DEF a, b, c, all, n
  <1> QED
    BY <1>1, <1>2

\* Steps that touch neither the FIFOs nor the histories.
LEMMA UioSame ==
  ASSUME UioInv, UNCHANGED <<pending, programs, claims, fitted, deviceVars>>,
         caller' = "pushing" <=> caller = "pushing"
  PROVE  UioInv'
  <1>1. /\ pending' = pending /\ programs' = programs /\ claims' = claims /\ fitted' = fitted
        /\ cmdFifo' = cmdFifo /\ decoded' = decoded /\ ran' = ran /\ running' = running
        /\ stsFifo' = stsFifo
    BY DEF deviceVars
  <1>2. UioTypes'
    BY <1>1 DEF UioInv, UioTypes
  <1>3. Counted'
    BY <1>1 DEF UioInv, Counted
  <1>4. Ordered => Ordered'
    BY <1>1 DEF Ordered
  <1> QED
    BY <1>1, <1>2, <1>3, <1>4 DEF UioInv

\* submit_program: what it writes comes after what waits.
LEMMA SubmitKeeps == UioInv /\ SubmitProgram => UioInv'
  <1> SUFFICES ASSUME UioInv, SubmitProgram PROVE UioInv'
    OBVIOUS
  <1>1. PICK n \in 0 .. MaxWords :
          IF n > FifoDepth
          THEN /\ result' = "ValueError"
               /\ UNCHANGED <<caller, pending, programs, fitted>>
          ELSE LET words == Words(Len(programs) + 1, n) IN
               /\ caller' = "pushing"
               /\ pending' = Entries(words)
               /\ programs' = Append(programs, words)
               /\ fitted' = (fitted /\ Len(cmdFifo) + n + 1 <= FifoDepth)
               /\ UNCHANGED result
    BY DEF SubmitProgram
  <1>2. CASE n > FifoDepth
    BY <1>1, <1>2, UioSame DEF SubmitProgram
  <1>3. CASE ~(n > FifoDepth)
    <2> DEFINE q == Len(programs) + 1
               words == Words(q, n)
               entries == Entries(words)
    <2>1. /\ caller = "idle" /\ pending = <<>>
          /\ caller' = "pushing" /\ pending' = entries /\ programs' = Append(programs, words)
          /\ fitted' = (fitted /\ Len(cmdFifo) + n + 1 <= FifoDepth)
          /\ claims' = claims /\ cmdFifo' = cmdFifo /\ decoded' = decoded /\ ran' = ran
          /\ running' = running /\ stsFifo' = stsFifo
      BY <1>1, <1>3, Zenon DEF SubmitProgram, UioInv, UioTypes, deviceVars
    <2>2. n \in Nat /\ q \in Nat /\ q >= 1 /\ Len(programs) \in Nat
      BY UioOK DEF UioInv, UioTypes
    <2>3. /\ words \in Seq(Pairs) /\ Len(words) = n
          /\ entries \in Seq(Pairs) /\ Len(entries) = n + 1 /\ entries # <<>>
          /\ (\A k \in 1 .. n : entries[k] = <<q, k>>)
          /\ entries[n + 1] = Marker /\ Count(entries, Marker) = 1
      BY <2>2, WordsSeq, EntriesAre, Zenon
    <2>4. words = Words(q, Len(words))
      BY <2>3, Zenon
    <2> HIDE DEF words, entries
    <2>5. /\ programs' \in Seq(Seq(Pairs)) /\ Len(programs') = Len(programs) + 1
          /\ (\A r \in 1 .. Len(programs) : programs'[r] = programs[r])
          /\ programs'[q] = words
      BY <2>1, <2>3, AppendAt DEF UioInv, UioTypes
    <2>6. UioTypes'
      <3>1. ASSUME NEW r \in 1 .. Len(programs')
            PROVE  programs'[r] = Words(r, Len(programs'[r]))
        <4>1. CASE r = q
          BY <2>4, <2>5, <4>1
        <4>2. CASE r \in 1 .. Len(programs)
          BY <2>5, <4>2 DEF UioInv, UioTypes
        <4> QED
          BY <2>2, <2>5, <4>1, <4>2
      <3> QED
        BY <2>1, <2>3, <2>5, <3>1 DEF UioInv, UioTypes
    <2>7. Counted'
      <3>1. Count(cmdFifo, Marker) \in Nat /\ Count(pending, Marker) = 0 /\ Len(ran) \in Nat
        BY <2>1, CountNat, EmptyCounts DEF UioInv, UioTypes
      <3>2. Len(ran) + Count(cmdFifo, Marker) + 1 <= Len(programs) + 1
        BY <2>2, <3>1 DEF UioInv, Counted
      <3>3. Len(ran') + Count(cmdFifo', Marker) + Count(pending', Marker) <= Len(programs')
        BY <2>1, <2>3, <2>5, <3>2
      <3> QED
        BY <2>1, <3>3 DEF UioInv, Counted
    <2>8. ASSUME fitted' PROVE Ordered'
      <3>1. Ordered /\ Len(cmdFifo) + n + 1 <= FifoDepth
        BY <2>1, <2>8 DEF UioInv
      <3>2. Len(cmdFifo') + Len(pending') <= FifoDepth
        <4>1. Len(cmdFifo) + (n + 1) <= FifoDepth
          BY <2>2, <3>1 DEF UioInv, UioTypes
        <4> QED
          BY <2>1, <2>3, <4>1
      <3>3. \A r \in 1 .. Len(ran') : ran'[r] = programs'[r]
        <4>1. Len(ran) <= Len(programs) /\ Len(ran) \in Nat
          BY <2>2, CountNat, SMTT(30) DEF UioInv, UioTypes, Counted
        <4> QED
          BY <2>1, <2>2, <2>5, <3>1, <4>1 DEF Ordered
      <3>4. InStep(cmdFifo \o entries, Append(Sizes(programs), n), Len(ran) + 1, Len(decoded) + 1)
        <4> DEFINE p == Len(ran) + 1
                   i == Len(decoded) + 1
        <4>1. p \in Nat /\ i \in Nat
          BY DEF UioInv, UioTypes
        <4>2. Sizes(programs) \in Seq(Nat) /\ Len(Sizes(programs)) + 1 = q
          BY SizesAre DEF UioInv, UioTypes
        <4>3. InStep(cmdFifo, Sizes(programs), p, i)
          BY <2>1, <3>1, JoinedNone DEF Ordered, UioInv, UioTypes
        <4> HIDE DEF p, i, q
        <4> DEFINE size == Sizes(programs)
        <4> HIDE DEF size
        <4>4. /\ size \in Seq(Nat) /\ InStep(cmdFifo, size, p, i) /\ cmdFifo \in Seq(Pairs)
              /\ \A k \in 1 .. n : entries[k] = <<Len(size) + 1, k>>
          BY <2>3, <4>2, <4>3, Zenon DEF size, UioInv, UioTypes
        <4>5. InStep(cmdFifo \o entries, Append(size, n), p, i)
          BY <2>2, <2>3, <4>1, <4>4, InStepMore
        <4> QED
          BY <4>5, Zenon DEF size, p, i
      <3>5. Sizes(programs') = Append(Sizes(programs), n)
        BY <2>1, <2>3, SizesAre DEF UioInv, UioTypes
      <3> QED
        BY <2>1, <3>1, <3>2, <3>3, <3>4, <3>5 DEF Ordered
    <2> QED
      BY <2>6, <2>7, <2>8 DEF UioInv
  <1> QED
    BY <1>2, <1>3

\* push_inst, push_kick: an entry goes over, or the oldest is lost for it.
LEMMA PushCounts ==
  ASSUME NEW f \in Seq(Pairs), NEW g \in Seq(Pairs), g # <<>>
  PROVE  LET e == Append(f, Head(g)) IN
         /\ Count(e, Marker) + Count(Tail(g), Marker) = Count(f, Marker) + Count(g, Marker)
         /\ Count(Tail(e), Marker) + Count(Tail(g), Marker) <= Count(f, Marker) + Count(g, Marker)
  <1> DEFINE e == Append(f, Head(g))
             a == Count(f, Marker)
             b == Count(g, Marker)
             c == Count(e, Marker)
             d == Count(Tail(g), Marker)
             h == Count(Tail(e), Marker)
  <1>1. Head(g) \in Pairs /\ Tail(g) \in Seq(Pairs) /\ e \in Seq(Pairs) /\ e # <<>>
    OBVIOUS
  <1>2. Tail(e) \in Seq(Pairs)
    BY <1>1
  <1>3. a \in Nat /\ b \in Nat /\ c \in Nat /\ d \in Nat /\ h \in Nat
    BY <1>1, <1>2, CountNat
  <1>4. c = a + IF Head(g) = Marker THEN 1 ELSE 0
    BY <1>1, CountAppend
  <1>5. b = d + IF Head(g) = Marker THEN 1 ELSE 0
    BY CountTail
  <1>6. c = h + IF Head(e) = Marker THEN 1 ELSE 0
    BY <1>1, CountTail
  <1> HIDE DEF a, b, c, d, h, e
  <1>7. c + d = a + b
    BY <1>3, <1>4, <1>5
  <1>8. h + d <= a + b
    BY <1>3, <1>6, <1>7
  <1> QED
    BY <1>7, <1>8 DEF a, b, c, d, e, h

LEMMA PushKeeps == UioInv /\ Push => UioInv'
  <1> SUFFICES ASSUME UioInv, Push PROVE UioInv'
    OBVIOUS
  <1> DEFINE entries == Append(cmdFifo, Head(pending))
  <1>1. /\ caller = "pushing" /\ pending # <<>> /\ pending' = Tail(pending)
        /\ cmdFifo' = IF Len(entries) > FifoDepth THEN Tail(entries) ELSE entries
        /\ programs' = programs /\ claims' = claims /\ fitted' = fitted /\ decoded' = decoded
        /\ ran' = ran /\ running' = running /\ stsFifo' = stsFifo
    BY DEF Push, UioInv, UioTypes
  <1>2. cmdFifo \in Seq(Pairs) /\ pending \in Seq(Pairs) /\ Head(pending) \in Pairs
        /\ Tail(pending) \in Seq(Pairs) /\ Len(Tail(pending)) = Len(pending) - 1
        /\ Len(pending) \in Nat /\ Len(cmdFifo) \in Nat
    <2>1. cmdFifo \in Seq(Pairs) /\ pending \in Seq(Pairs)
      BY DEF UioInv, UioTypes
    <2> QED
      BY <1>1, <2>1
  <1>3. entries \in Seq(Pairs) /\ Tail(entries) \in Seq(Pairs) /\ Len(entries) = Len(cmdFifo) + 1
    BY ONLY <1>2
  <1>4. UioTypes'
    <2>1. cmdFifo' \in Seq(Pairs) /\ pending' \in Seq(Pairs)
      BY <1>1, <1>2, <1>3, Zenon
    <2>2. caller' = "pushing" <=> pending' # <<>>
      <3>1. caller' = "pushing" <=> Len(pending) # 1
        BY <1>1 DEF Push
      <3>2. Tail(pending) # <<>> <=> Len(pending) # 1
        BY <1>1, <1>2, LastOne, Zenon
      <3> QED
        BY <1>1, <3>1, <3>2
    <2> QED
      BY <1>1, <2>1, <2>2 DEF UioInv, UioTypes
  <1>5. Counted'
    <2> DEFINE a == Count(cmdFifo, Marker)
               b == Count(pending, Marker)
               c == Count(cmdFifo', Marker)
               d == Count(Tail(pending), Marker)
    <2>1. c + d <= a + b
      <3>1. /\ Count(entries, Marker) + d = a + b
            /\ Count(Tail(entries), Marker) + d <= a + b
        BY <1>1, <1>2, PushCounts, Zenon
      <3>2. a \in Nat /\ b \in Nat
        BY <1>2, CountNat
      <3> HIDE DEF entries, a, b, d
      <3>3. a + b \in Nat
        BY <3>2
      <3>4. CASE Len(entries) > FifoDepth
        BY <1>1, <3>1, <3>4
      <3>5. CASE ~(Len(entries) > FifoDepth)
        BY <1>1, <3>1, <3>3, <3>5
      <3> QED
        BY <3>4, <3>5
    <2>2. a \in Nat /\ b \in Nat /\ c \in Nat /\ d \in Nat /\ Len(ran) \in Nat /\ Len(programs) \in Nat
      <3>1. cmdFifo' \in Seq(Pairs) /\ ran \in Seq(Seq(Pairs)) /\ programs \in Seq(Seq(Pairs))
        BY <1>4, Zenon DEF UioTypes, UioInv
      <3>2. Len(ran) \in Nat /\ Len(programs) \in Nat
        BY ONLY <3>1
      <3> QED
        BY <1>2, <3>1, <3>2, CountNat, Zenon
    <2>3. Len(ran) + a + b <= Len(programs)
      BY DEF UioInv, Counted
    <2> HIDE DEF a, b, c, d
    <2>4. Len(ran) + c + d <= Len(programs)
      BY <2>1, <2>2, <2>3
    <2>5. Len(ran') + c + Count(pending', Marker) <= Len(programs')
      BY <1>1, <2>4, Zenon DEF d
    <2> QED
      BY <1>1, <2>5 DEF UioInv, Counted, c
  <1>6. Ordered => Ordered'
    <2> SUFFICES ASSUME Ordered PROVE Ordered'
      OBVIOUS
    <2>1. FifoDepth \in Nat
      BY UioOK
    <2>2. Len(cmdFifo) + 1 <= FifoDepth /\ Len(cmdFifo) + 1 + (Len(pending) - 1) <= FifoDepth
      <3>1. Len(pending) # 0
        BY ONLY <1>1, <1>2
      <3>2. Len(cmdFifo) + Len(pending) <= FifoDepth
        BY DEF Ordered
      <3> QED
        BY ONLY <1>2, <2>1, <3>1, <3>2
    <2>3. cmdFifo' = entries
      <3>1. ~(Len(entries) > FifoDepth)
        BY ONLY <1>2, <1>3, <2>1, <2>2
      <3> QED
        BY <1>1, <3>1, Zenon
    <2>4. cmdFifo' \o pending' = cmdFifo \o pending
      BY <1>1, <1>2, <2>3, MovedOver, Zenon
    <2>5. Len(cmdFifo') + Len(pending') <= FifoDepth
      BY <1>1, <1>2, <1>3, <2>2, <2>3
    <2> HIDE DEF entries
    <2> QED
      BY <1>1, <2>4, <2>5 DEF Ordered
  <1> QED
    BY <1>1, <1>4, <1>5, <1>6 DEF UioInv

\* read_status, and wait_done's answer: a DONE is taken once.
LEMMA ReadKeeps == UioInv /\ ReadStatus => UioInv'
  <1> SUFFICES ASSUME UioInv, ReadStatus PROVE UioInv'
    OBVIOUS
  <1>1. /\ caller = "reading" /\ caller' # "pushing" /\ stsFifo # <<>> /\ stsFifo' = Tail(stsFifo)
        /\ claims' = IF Head(stsFifo) = "DONE" THEN claims + 1 ELSE claims
        /\ pending' = pending /\ programs' = programs /\ fitted' = fitted /\ cmdFifo' = cmdFifo
        /\ decoded' = decoded /\ ran' = ran /\ running' = running
    BY DEF ReadStatus
  <1>2. stsFifo \in Seq({"BUSY", "DONE"}) /\ Tail(stsFifo) \in Seq({"BUSY", "DONE"}) /\ claims \in Nat
    BY <1>1 DEF UioInv, UioTypes
  <1>3. UioTypes'
    <2>1. claims' \in Nat
      BY <1>1, <1>2
    <2> QED
      BY <1>1, <1>2, <2>1 DEF UioInv, UioTypes
  <1>4. Counted'
    <2> DEFINE a == Count(stsFifo, "DONE")
               b == Count(Tail(stsFifo), "DONE")
               u == IF running THEN 1 ELSE 0
               v == IF Head(stsFifo) = "DONE" THEN 1 ELSE 0
    <2>1. a = b + v /\ a \in Nat /\ b \in Nat /\ u \in Nat /\ v \in Nat
      BY <1>1, <1>2, CountTail, CountNat
    <2>2. claims + a + u = Len(ran)
      BY DEF UioInv, Counted
    <2>3. claims' = claims + v
      BY <1>1, <1>2
    <2> HIDE DEF a, b, u, v
    <2>4. (claims + v) + b + u = Len(ran)
      BY <1>2, <2>1, <2>2
    <2>5. claims' + Count(stsFifo', "DONE") + (IF running' THEN 1 ELSE 0) = Len(ran')
      BY <1>1, <2>3, <2>4, Zenon DEF b, u
    <2> QED
      BY <1>1, <2>5 DEF UioInv, Counted
  <1>5. Ordered => Ordered'
    BY <1>1 DEF Ordered
  <1> QED
    BY <1>1, <1>3, <1>4, <1>5 DEF UioInv

\* The NPU reports while it runs a program, DONE when it has.
LEMMA ReportKeeps == UioInv /\ Report => UioInv'
  <1> SUFFICES ASSUME UioInv, Report PROVE UioInv'
    OBVIOUS
  <1>1. PICK word \in {"BUSY", "DONE"} : stsFifo' = Append(stsFifo, word) /\ running' = (word = "BUSY")
    BY DEF Report
  <1>2. /\ running /\ caller' = caller
        /\ pending' = pending /\ programs' = programs /\ fitted' = fitted /\ cmdFifo' = cmdFifo
        /\ decoded' = decoded /\ ran' = ran /\ claims' = claims
    BY DEF Report, callerVars
  <1>3. stsFifo \in Seq({"BUSY", "DONE"}) /\ claims \in Nat
    BY DEF UioInv, UioTypes
  <1>4. UioTypes'
    <2>1. stsFifo' \in Seq({"BUSY", "DONE"}) /\ running' \in BOOLEAN
      BY <1>1, <1>3
    <2> QED
      BY <1>2, <2>1 DEF UioInv, UioTypes
  <1>5. Counted'
    <2> DEFINE a == Count(stsFifo, "DONE")
               b == Count(Append(stsFifo, word), "DONE")
               u == IF word = "BUSY" THEN 1 ELSE 0
               v == IF word = "DONE" THEN 1 ELSE 0
    <2>1. b = a + v /\ a \in Nat
      BY <1>3, CountAppend, CountNat
    <2>2. u + v = 1 /\ u \in Nat /\ v \in Nat
      OBVIOUS
    <2>3. claims + a + 1 = Len(ran)
      BY <1>2 DEF UioInv, Counted
    <2> HIDE DEF a, b, u, v
    <2>4. claims + b + u = Len(ran)
      BY <1>3, <2>1, <2>2, <2>3
    <2>5. claims' + Count(stsFifo', "DONE") + (IF running' THEN 1 ELSE 0) = Len(ran')
      BY <1>1, <1>2, <2>4, Zenon DEF b, u
    <2> QED
      BY <1>2, <2>5 DEF UioInv, Counted
  <1>6. Ordered => Ordered'
    BY <1>2 DEF Ordered
  <1> QED
    BY <1>2, <1>4, <1>5, <1>6 DEF UioInv

\* The decoder takes a word, or a marker and starts what it has decoded.
LEMMA DecodeKeeps == UioInv /\ Decode => UioInv'
  <1> SUFFICES ASSUME UioInv, Decode PROVE UioInv'
    OBVIOUS
  <1>1. /\ cmdFifo # <<>> /\ ~running /\ cmdFifo' = Tail(cmdFifo)
        /\ Head(cmdFifo) = Marker => running' = TRUE /\ decoded' = <<>> /\ ran' = Append(ran, decoded)
        /\ Head(cmdFifo) # Marker => /\ decoded' = Append(decoded, Head(cmdFifo))
                                     /\ running' = running /\ ran' = ran
        /\ caller' = caller /\ pending' = pending /\ programs' = programs /\ claims' = claims
        /\ fitted' = fitted /\ stsFifo' = stsFifo
    BY DEF Decode, callerVars
  <1>2. /\ cmdFifo \in Seq(Pairs) /\ pending \in Seq(Pairs) /\ decoded \in Seq(Pairs)
        /\ ran \in Seq(Seq(Pairs)) /\ programs \in Seq(Seq(Pairs)) /\ claims \in Nat
    BY DEF UioInv, UioTypes
  <1>3. /\ Head(cmdFifo) \in Pairs /\ Tail(cmdFifo) \in Seq(Pairs)
        /\ Len(cmdFifo) \in Nat /\ Len(Tail(cmdFifo)) = Len(cmdFifo) - 1
    BY ONLY <1>1, <1>2
  <1>4. /\ Append(decoded, Head(cmdFifo)) \in Seq(Pairs)
        /\ Len(Append(decoded, Head(cmdFifo))) = Len(decoded) + 1
        /\ Append(ran, decoded) \in Seq(Seq(Pairs)) /\ Len(Append(ran, decoded)) = Len(ran) + 1
        /\ Len(decoded) \in Nat /\ Len(ran) \in Nat /\ Len(programs) \in Nat
    <2>1. decoded \in Seq(Pairs) /\ Head(cmdFifo) \in Pairs
      BY <1>2, <1>3, Zenon
    <2>2. ran \in Seq(Seq(Pairs)) /\ decoded \in Seq(Pairs) /\ programs \in Seq(Seq(Pairs))
      BY <1>2, Zenon
    <2>3. Len(programs) \in Nat
      BY ONLY <2>2
    <2> QED
      BY <2>1, <2>2, <2>3, AppendAt, Zenon
  <1>5. UioTypes'
    <2>1. decoded' \in Seq(Pairs) /\ ran' \in Seq(Seq(Pairs)) /\ running' \in BOOLEAN
      <3>1. <<>> \in Seq(Pairs) /\ TRUE \in BOOLEAN /\ running \in BOOLEAN
        BY DEF UioInv, UioTypes
      <3> QED
        BY <1>1, <1>2, <1>4, <3>1, Zenon
    <2> QED
      BY <1>1, <1>3, <2>1 DEF UioInv, UioTypes
  <1>6. Counted'
    <2> DEFINE a == Count(cmdFifo, Marker)
               b == Count(Tail(cmdFifo), Marker)
               c == Count(pending, Marker)
               d == Count(stsFifo, "DONE")
               v == IF Head(cmdFifo) = Marker THEN 1 ELSE 0
               n == Len(ran)
               m == Len(programs)
    <2>1. a = b + v /\ a \in Nat /\ b \in Nat /\ c \in Nat /\ d \in Nat /\ v \in Nat
      BY <1>1, <1>2, <1>3, CountTail, CountNat DEF UioInv, UioTypes
    <2>2. n + a + c <= m /\ claims + d = n
      <3>1. claims + d \in Nat
        BY <1>2, <2>1
      <3> HIDE DEF d
      <3>2. n + a + c <= m /\ claims + d + 0 = n
        BY <1>1 DEF UioInv, Counted, d
      <3> HIDE DEF n, a, c, m
      <3> QED
        BY <1>2, <2>1, <3>2
    <2>3. Len(ran') = n + v
      <3>1. CASE Head(cmdFifo) = Marker
        BY <1>1, <1>4, <3>1
      <3>2. CASE Head(cmdFifo) # Marker
        <4>1. n + 0 = n
          BY <1>4
        <4> QED
          BY <1>1, <3>2, <4>1
      <3> QED
        BY <3>1, <3>2
    <2>4. (IF running' THEN 1 ELSE 0) = v
      BY <1>1
    <2>5. n \in Nat /\ m \in Nat
      BY <1>4
    <2> HIDE DEF a, b, c, d, v, n, m
    <2>6. (n + v) + b + c <= m /\ claims + d + v = n + v
      BY <1>2, <2>1, <2>2, <2>5
    <2>7. Len(ran') + Count(cmdFifo', Marker) + Count(pending', Marker) <= Len(programs')
      BY <1>1, <2>3, <2>6, Zenon DEF b, c, m
    <2>8. claims' + Count(stsFifo', "DONE") + (IF running' THEN 1 ELSE 0) = Len(ran')
      BY <1>1, <2>3, <2>4, <2>6, Zenon DEF d
    <2> QED
      BY <2>7, <2>8 DEF Counted
  <1>7. ASSUME Ordered PROVE Ordered'
    <2> DEFINE waiting == cmdFifo \o pending
               size == Sizes(programs)
               p == Len(ran) + 1
               i == Len(decoded) + 1
    <2>1. waiting \in Seq(Pairs) /\ waiting # <<>> /\ Head(waiting) = Head(cmdFifo)
          /\ Tail(waiting) = Tail(cmdFifo) \o pending
      BY <1>1, <1>2, JoinedAt, TailJoined, Zenon
    <2>2. size \in Seq(Nat) /\ Len(size) = Len(programs)
          /\ \A r \in 1 .. Len(programs) : size[r] = Len(programs[r])
      BY <1>2, SizesAre, Zenon
    <2>3. p \in Nat /\ p >= 1 /\ i \in Nat /\ i >= 1
      BY <1>4
    <2>4. InStep(waiting, size, p, i)
      BY <1>7, Zenon DEF Ordered
    <2>5. decoded = Words(p, Len(decoded)) /\ \A r \in 1 .. Len(ran) : ran[r] = programs[r]
      BY <1>7, Zenon DEF Ordered
    <2>6. Len(cmdFifo') + Len(pending') <= FifoDepth
      <3>1. FifoDepth \in Nat /\ Len(pending) \in Nat
        BY <1>2, UioOK
      <3>2. Len(cmdFifo) + Len(pending) <= FifoDepth
        BY <1>7, Zenon DEF Ordered
      <3>3. (Len(cmdFifo) - 1) + Len(pending) <= FifoDepth
        BY ONLY <1>3, <3>1, <3>2
      <3> QED
        BY <1>1, <1>3, <3>3, Zenon
    <2> HIDE DEF waiting, size
    <2>7. /\ p \in 1 .. Len(size) /\ i \in 1 .. size[p] + 1 /\ Head(waiting) = Entry(p, i, size)
          /\ i <= size[p] => InStep(Tail(waiting), size, p, i + 1)
          /\ i > size[p] => InStep(Tail(waiting), size, p + 1, 1)
      <3> HIDE DEF p, i
      <3> QED
        BY <2>1, <2>2, <2>3, <2>4, InStepTail
    <2>8. size[p] \in Nat /\ size[p] = Len(programs[p]) /\ programs[p] = Words(p, size[p])
      <3>1. p \in 1 .. Len(programs)
        BY <2>2, <2>7, Zenon
      <3>2. programs[p] = Words(p, Len(programs[p]))
        BY <3>1, Zenon DEF UioInv, UioTypes
      <3> QED
        BY <2>2, <2>7, <3>1, <3>2, SeqAt, Zenon
    <2>9. CASE Head(cmdFifo) = Marker
      <3>1. i > size[p] /\ i = size[p] + 1
        <4> HIDE DEF p, i
        <4>1. ~(i <= size[p])
          BY <2>1, <2>3, <2>7, <2>9 DEF Entry, Marker
        <4> QED
          BY <2>3, <2>7, <2>8, <4>1
      <3>2. decoded = programs[p]
        <4>1. Len(decoded) = size[p]
          BY <1>4, <2>8, <3>1
        <4> QED
          BY <2>5, <2>8, <4>1, Zenon
      <3>3. \A r \in 1 .. Len(ran') : ran'[r] = programs'[r]
        <4> DEFINE s == Append(ran, decoded)
        <4>1. Len(s) = p /\ s[p] = decoded /\ \A r \in 1 .. Len(ran) : s[r] = ran[r]
          BY <1>2, AppendAt
        <4>2. ran' = s /\ programs' = programs
          BY <1>1, <2>9, Zenon
        <4>3. \A r \in 1 .. p : r = p \/ r \in 1 .. Len(ran)
          BY <1>4
        <4> HIDE DEF s, p
        <4> QED
          BY <2>5, <3>2, <4>1, <4>2, <4>3, Zenon
      <3>4. Len(ran') + 1 = p + 1 /\ Len(decoded') + 1 = 1 /\ decoded' = <<>>
        BY <1>1, <1>4, <2>9
      <3>5. decoded' = Words(Len(ran') + 1, Len(decoded'))
        BY <3>4 DEF Words
      <3>6. InStep(cmdFifo' \o pending', Sizes(programs'), Len(ran') + 1, Len(decoded') + 1)
        BY <1>1, <2>1, <2>7, <3>1, <3>4, Zenon DEF size
      <3> QED
        BY <2>6, <3>3, <3>5, <3>6 DEF Ordered
    <2>10. CASE Head(cmdFifo) # Marker
      <3>1. i <= size[p] /\ Head(cmdFifo) = <<p, i>>
        BY <2>1, <2>7, <2>10, Zenon DEF Entry
      <3>2. decoded' = Words(p, i)
        <4>1. Append(Words(p, Len(decoded)), <<p, i>>) = Words(p, i)
          BY <1>4, <2>3, WordsMore, Zenon
        <4> QED
          BY <1>1, <2>5, <2>10, <3>1, <4>1, Zenon
      <3>3. Len(decoded') = i
        BY <2>3, <3>2, WordsSeq, Zenon
      <3>4. ran' = ran
        BY <1>1, <2>10, Zenon
      <3>5. InStep(cmdFifo' \o pending', Sizes(programs'), Len(ran') + 1, Len(decoded') + 1)
        BY <1>1, <2>1, <2>7, <3>1, <3>3, <3>4, Zenon DEF size
      <3>6. decoded' = Words(Len(ran') + 1, Len(decoded'))
        BY <3>2, <3>3, <3>4, Zenon
      <3> QED
        BY <1>1, <2>5, <2>6, <3>4, <3>5, <3>6 DEF Ordered
    <2> QED
      BY <2>9, <2>10
  <1> QED
    BY <1>1, <1>5, <1>6, <1>7 DEF UioInv

LEMMA UioInvStep == UioInv /\ [UioNext]_uioVars => UioInv'
  <1> SUFFICES ASSUME UioInv, [UioNext]_uioVars PROVE UioInv'
    OBVIOUS
  <1>1. CASE SubmitProgram
    BY <1>1, SubmitKeeps
  <1>2. CASE Push
    BY <1>2, PushKeeps
  <1>3. CASE WaitDone
    BY <1>3, UioSame DEF WaitDone
  <1>4. CASE InTime
    BY <1>4, UioSame DEF InTime
  <1>5. CASE TooLate
    BY <1>5, UioSame DEF TooLate
  <1>6. CASE ReadStatus
    BY <1>6, ReadKeeps
  <1>7. CASE Decode
    BY <1>7, DecodeKeeps
  <1>8. CASE Report
    BY <1>8, ReportKeeps
  <1>9. CASE UNCHANGED uioVars
    BY <1>9, UioSame DEF uioVars, callerVars
  <1> QED
    BY <1>1, <1>2, <1>3, <1>4, <1>5, <1>6, <1>7, <1>8, <1>9 DEF UioNext

LEMMA UioInvSafe == UioInv => ProgramsRunWhole
  <1> SUFFICES ASSUME UioInv PROVE ProgramsRunWhole
    OBVIOUS
  <1> DEFINE n == Len(ran)
             m == Len(programs)
             a == Count(cmdFifo, Marker)
             c == Count(pending, Marker)
             d == Count(stsFifo, "DONE")
             u == IF running THEN 1 ELSE 0
  <1>1. n \in Nat /\ m \in Nat /\ a \in Nat /\ c \in Nat /\ d \in Nat /\ u \in Nat /\ claims \in Nat
    BY CountNat DEF UioInv, UioTypes
  <1>2. n + a + c <= m /\ claims + d + u = n
    BY DEF UioInv, Counted
  <1>3. claims = m => n = m /\ u = 0
    <2> HIDE DEF n, m, a, c, d, u
    <2> QED
      BY <1>1, <1>2
  <1>4. n <= m
    <2> HIDE DEF n, m, a, c
    <2> QED
      BY <1>1, <1>2
  <1>5. ASSUME fitted PROVE IsPrefix(ran, programs)
    <2>1. \A r \in 1 .. n : ran[r] = programs[r]
      BY <1>5 DEF UioInv, Ordered
    <2>2. ran \in Seq(Seq(Pairs)) /\ programs \in Seq(Seq(Pairs))
      BY DEF UioInv, UioTypes
    <2>3. SubSeq(ran, 1, n) = SubSeq(programs, 1, n)
      BY ONLY <1>1, <1>4, <2>1, <2>2, SMTT(30)
    <2> QED
      BY <1>4, <2>3 DEF IsPrefix
  <1> QED
    BY <1>3, <1>5 DEF ProgramsRunWhole

-----------------------------------------------------------------------------
(* RegisterDrivers: one of the four runs, the others stand still.          *)

RegistersInv == MainInv /\ UcaInv /\ UioInv /\ DmaInv

LEMMA RegistersInvInit == RegistersInit => RegistersInv
  BY MainInvInit, UcaInvInit, UioInvInit, DmaInvInit DEF RegistersInit, RegistersInv

LEMMA RegistersInvStep == RegistersInv /\ [RegistersNext]_allVars => RegistersInv'
  <1> SUFFICES ASSUME RegistersInv, [RegistersNext]_allVars PROVE RegistersInv'
    OBVIOUS
  <1>1. [Next]_vars /\ [DriverNext]_driverVars /\ [UioNext]_uioVars /\ [DmaNext]_dmaVars
    BY DEF RegistersNext, GemmaStep, Next, allVars
  <1> QED
    BY <1>1, MainInvStep, UcaInvStep, UioInvStep, DmaInvStep DEF RegistersInv

THEOREM RegistersInvariant == RegistersSpec => []RegistersInv
  BY RegistersInvInit, RegistersInvStep, PTL DEF RegistersSpec

\* The C driver writes the word that isa.py encodes from the same operands,
\* isa.py accepts them, and both read the same token in a status word: for
\* every prompt and every operand that fits its type.
THEOREM HostsSpeakAlike == RegistersSpec => []HostsAgree
  <1>1. RegistersInv => HostsAgree
    BY MainInvSafe DEF RegistersInv
  <1> QED
    BY <1>1, RegistersInvariant, PTL

\* However long the NPU stays busy and wherever a poll gives up, what it has
\* executed is the beginning of main's commands, each once.
THEOREM CommandsInOrder == RegistersSpec => []InOrder
  <1>1. RegistersInv => InOrder
    BY MainInvSafe DEF RegistersInv
  <1> QED
    BY <1>1, RegistersInvariant, PTL

\* main returns 0 only when the NPU executed all its commands with the weights
\* the program had written, and then with the token the NPU returned.
THEOREM ReturnsTheToken == RegistersSpec => []SuccessIsComplete
  <1>1. RegistersInv => SuccessIsComplete
    BY MainInvSafe DEF RegistersInv
  <1> QED
    BY <1>1, RegistersInvariant, PTL

\* The two writes of a uCA call leave in the NPU's latch each field that fits
\* where the layout has it, and nothing of the call before.
THEOREM CallsArriveIntact == RegistersSpec => []InstructionIntact
  <1>1. RegistersInv => InstructionIntact
    BY UcaInvSafe DEF RegistersInv
  <1> QED
    BY <1>1, RegistersInvariant, PTL

\* uca_sync polls as often as its timeout says when the product fits the
\* counter, and always ends: for every width of the counter.
THEOREM TimeoutsAreKept == RegistersSpec => []TimeoutIsThatLong
  <1>1. RegistersInv => TimeoutIsThatLong
    BY UcaInvSafe DEF RegistersInv
  <1> QED
    BY <1>1, RegistersInvariant, PTL

\* While every program finds room, the NPU runs the submitted programs whole
\* and in order, for every FIFO depth; and whatever was dropped, one True of
\* wait_done for each submitted program means that all were run.
THEOREM ProgramsAreRun == RegistersSpec => []ProgramsRunWhole
  <1>1. RegistersInv => ProgramsRunWhole
    BY UioInvSafe DEF RegistersInv
  <1> QED
    BY <1>1, RegistersInvariant, PTL

\* Three register writes say a 72-bit command to the channel it was issued on,
\* wherever the board's map puts the NPU.
THEOREM CommandsArrive == RegistersSpec => []CommandsReachChannel
  <1>1. RegistersInv => CommandsReachChannel
    BY DmaInvSafe DEF RegistersInv
  <1> QED
    BY <1>1, RegistersInvariant, PTL

\* A poll is answered with the status of its own command, or, after another
\* timed out, of one with the same tag; every mismatch was paid by a timeout.
THEOREM StatusesAreTheirs == RegistersSpec => []StatusIsOurs
  <1>1. RegistersInv => StatusIsOurs
    BY DmaInvSafe DEF RegistersInv, DmaInv
  <1> QED
    BY <1>1, RegistersInvariant, PTL
=============================================================================
