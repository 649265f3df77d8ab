------------------------ MODULE GemmaBackendsProofs ------------------------
(***************************************************************************)
(* Theorems about GemmaBackends for all values of its constants. The NPU's *)
(* path: however chats interleave, time out and are dropped, one that had  *)
(* the device to itself reads its own tokens, each once. The CPU's path: a *)
(* layer attends to this chat's rows, and weights shared without a lock    *)
(* are whole. The strengthened invariants, NpuInv and GemInv, say what a   *)
(* thread at each place may rely on; each backend leaves the other's state *)
(* alone.                                                                  *)
(***************************************************************************)
EXTENDS GemmaBackends, FiniteSetTheorems, TLAPS

-----------------------------------------------------------------------------
(* NpuTokenRuntime. What a thread, the device and their histories hold.    *)

Phases == {"idle", "weights", "reset", "prompt", "next", "paused"}
Ops == {"LOAD_WEIGHT", "RESET_KV_CACHE", "LOAD_PROMPT", "NEXT_TOKEN"}
Commands == [op : Ops, by : Threads, n : Nat]

NpuTypes ==
  /\ phase \in [Threads -> Phases] /\ bus \in [Threads -> {"write", "kick", "read"}]
  /\ step \in [Threads -> Nat]
  /\ \A t \in Threads : phase[t] \in {"idle", "paused"} => bus[t] = "write"
  /\ cmdIn \in Commands \cup {None} /\ context \in Seq(Commands)
  /\ \A t \in Threads : bus[t] = "kick" => cmdIn # None
  /\ weightsLoaded \in BOOLEAN /\ weightsInL2 \in BOOLEAN
  /\ tokens \in 0 .. SimTokens /\ status \in Nat /\ yielded \in Seq(Nat)
  /\ loads \in Nat /\ timeouts \in Nat /\ alone \in SUBSET Threads

\* The generator of t, and no other, moved.
Went(t, p, b, n) ==
  /\ phase' \in [Threads -> Phases] /\ bus' \in [Threads -> {"write", "kick", "read"}]
  /\ step' \in [Threads -> Nat]
  /\ phase'[t] = p /\ bus'[t] = b /\ step'[t] = n
  /\ \A u \in Threads \ {t} : phase'[u] = phase[u] /\ bus'[u] = bus[u] /\ step'[u] = step[u]

LEMMA GoesIs ==
  ASSUME NpuTypes, NEW t \in Threads, NEW p \in Phases, NEW n \in Nat, Goes(t, p, n)
  PROVE  Went(t, p, "write", n)
  BY DEF NpuTypes, Goes, Went

\* The command a thread is about to submit.
LEMMA CommandIs ==
  ASSUME NpuTypes, NEW t \in Threads, phase[t] \notin {"idle", "paused"}
  PROVE  /\ Command(t) \in Commands /\ Command(t).by = t /\ Command(t).n = step[t]
         /\ phase[t] = "weights" => Command(t).op = "LOAD_WEIGHT"
         /\ phase[t] = "reset" => Command(t).op = "RESET_KV_CACHE"
         /\ phase[t] = "prompt" => Command(t).op = "LOAD_PROMPT"
         /\ phase[t] = "next" => Command(t).op = "NEXT_TOKEN"
         /\ Command(t) = [op |-> Command(t).op, by |-> t, n |-> step[t]]
  <1> DEFINE op == CASE phase[t] = "weights" -> "LOAD_WEIGHT"
                     [] phase[t] = "reset" -> "RESET_KV_CACHE"
                     [] phase[t] = "prompt" -> "LOAD_PROMPT"
                     [] phase[t] = "next" -> "NEXT_TOKEN"
  <1>1. phase[t] \in {"weights", "reset", "prompt", "next"} /\ step[t] \in Nat
    BY DEF NpuTypes, Phases
  <1>2. /\ op \in Ops
        /\ phase[t] = "weights" => op = "LOAD_WEIGHT"
        /\ phase[t] = "reset" => op = "RESET_KV_CACHE"
        /\ phase[t] = "prompt" => op = "LOAD_PROMPT"
        /\ phase[t] = "next" => op = "NEXT_TOKEN"
    BY <1>1 DEF Ops
  <1>3. Command(t) = [op |-> op, by |-> t, n |-> step[t]]
    BY DEF Command
  <1> HIDE DEF op
  <1> QED
    BY <1>1, <1>2, <1>3 DEF Commands

-----------------------------------------------------------------------------
(* Weights before all else.                                                *)

Loading ==
  /\ weightsLoaded => weightsInL2
  /\ context # <<>> => weightsInL2
  /\ cmdIn.op \notin {"none", "LOAD_WEIGHT"} => weightsLoaded
  /\ \A t \in Threads : /\ phase[t] \in {"reset", "prompt", "next", "paused"} => weightsLoaded
                        /\ phase[t] = "weights" /\ bus[t] = "read" => weightsInL2

\* A thread that goes on loading has not seen a load return.
Loads ==
  /\ IsFiniteSet(Active) /\ Cardinality(Active) <= MaxActive
  /\ ~weightsLoaded => loads <= Cardinality(Active) + timeouts
  /\ loads <= MaxActive + timeouts

-----------------------------------------------------------------------------
(* A chat that has the device to itself.                                   *)

OwnEntry(t, i) ==
  IF i = 1 THEN [op |-> "RESET_KV_CACHE", by |-> t, n |-> 0]
  ELSE IF i <= PromptLen + 1 THEN [op |-> "LOAD_PROMPT", by |-> t, n |-> i - 2]
  ELSE [op |-> "NEXT_TOKEN", by |-> t, n |-> i - PromptLen - 2]
Own(t, m) == [i \in 1 .. m |-> OwnEntry(t, i)]

\* The own commands that the device has executed when t is where it is.
Behind(t) == IF bus[t] = "read" THEN 1 ELSE 0
Alone ==
  \A t \in alone :
    /\ \A u \in Threads : phase[u] # "idle" => u = t
    /\ bus[t] = "kick" => cmdIn = Command(t)
    /\ phase[t] = "reset" => step[t] = 0 /\ (bus[t] = "read" => context = Own(t, 1))
    /\ phase[t] = "prompt" => step[t] < PromptLen /\ context = Own(t, step[t] + 1 + Behind(t))
    /\ phase[t] = "next" => context = Own(t, PromptLen + step[t] + 1 + Behind(t))
    /\ phase[t] = "paused" => context = Own(t, PromptLen + step[t] + 1)

\* The tokens handed out are below those to come.
Tokens ==
  /\ \A i \in DOMAIN yielded : yielded[i] + tokens <= SimTokens
  /\ \A t \in alone : phase[t] = "next" /\ bus[t] = "read" /\ status \notin {NoToken, Stop} =>
       /\ status + tokens <= SimTokens
       /\ \A i \in DOMAIN yielded : yielded[i] < status
  /\ TokenOnce

NpuInv == NpuTypes /\ Loading /\ Loads /\ Alone /\ Tokens

LEMMA NpuInvInit == Init => NpuInv
  <1> SUFFICES ASSUME Init PROVE NpuInv
    OBVIOUS
  <1> USE DEF Init
  <1>1. NpuTypes
    <2>1. /\ phase \in [Threads -> Phases] /\ bus \in [Threads -> {"write", "kick", "read"}]
          /\ step \in [Threads -> Nat] /\ \A t \in Threads : bus[t] = "write"
      BY DEF Phases
    <2>2. tokens \in 0 .. SimTokens /\ status \in Nat /\ loads \in Nat /\ timeouts \in Nat
      BY ConstantsOK DEF NoToken
    <2>3. cmdIn \in Commands \cup {None}
      <3>1. cmdIn = None
        OBVIOUS
      <3> QED
        BY ONLY <3>1
    <2>4. context \in Seq(Commands) /\ yielded \in Seq(Nat)
          /\ alone \in SUBSET Threads /\ weightsLoaded \in BOOLEAN /\ weightsInL2 \in BOOLEAN
      <3>1. context = <<>> /\ yielded = <<>> /\ alone = {} /\ weightsLoaded = FALSE /\ weightsInL2 = FALSE
        OBVIOUS
      <3>2. <<>> \in Seq(Commands) /\ <<>> \in Seq(Nat)
        OBVIOUS
      <3> QED
        BY <3>1, <3>2, Zenon
    <2> QED
      BY ONLY <2>1, <2>2, <2>3, <2>4 DEF NpuTypes
  <1>2. Loading
    BY DEF Loading, None
  <1>3. Loads
    <2>1. Active = {}
      BY DEF Active
    <2>2. IsFiniteSet(Active) /\ Cardinality(Active) = 0
      BY <2>1, FS_EmptySet
    <2> QED
      BY <2>2, ConstantsOK DEF Loads
  <1>4. Alone
    BY DEF Alone
  <1>5. Tokens
    BY DEF Tokens, TokenOnce
  <1> QED
    BY <1>1, <1>2, <1>3, <1>4, <1>5 DEF NpuInv

-----------------------------------------------------------------------------
(* Steps. All but Write and Kick move a generator and leave the device.    *)

Moves(t) ==
  \/ Start(t) \/ Resume(t) \/ Abandon(t) \/ WeightsDone(t) \/ ResetDone(t) \/ PromptDone(t)
  \/ TokenYielded(t) \/ TokenEnds(t) \/ TimesOut(t) \/ BadSampling(t)

\* Where a generator goes, and what else its move changes.
MovedTo(t, p, n) ==
  /\ Went(t, p, "write", n) /\ UNCHANGED device
  /\ IF phase[t] = "weights" /\ p = "reset" THEN weightsLoaded' = TRUE
                                            ELSE weightsLoaded' = weightsLoaded
  /\ phase[t] # "idle" => alone' = alone /\ loads' = loads
  /\ \/ /\ phase[t] = "idle" /\ p = IF weightsLoaded THEN "reset" ELSE "weights"
        /\ n = 0 /\ Cardinality(Active) < MaxActive
        /\ alone' = IF Active = {} THEN {t} ELSE {}
        /\ loads' = IF p = "weights" THEN loads + 1 ELSE loads
     \/ phase[t] # "idle" /\ p = "idle"
     \/ phase[t] = "weights" /\ bus[t] = "read" /\ p = "reset" /\ n = 0
     \/ phase[t] = "reset" /\ bus[t] = "read" /\ p = "prompt" /\ n = 0
     \/ phase[t] = "prompt" /\ bus[t] = "read" /\ p = "prompt" /\ n = step[t] + 1 /\ n < PromptLen
     \/ phase[t] = "prompt" /\ bus[t] = "read" /\ p = "next" /\ n = 0 /\ ~(step[t] + 1 < PromptLen)
     \/ /\ phase[t] = "next" /\ bus[t] = "read" /\ p = "paused" /\ n = step[t] + 1
        /\ status \notin {NoToken, Stop}
        /\ yielded' = IF t \in alone THEN Append(yielded, status) ELSE yielded
     \/ phase[t] = "paused" /\ p = "next" /\ n = step[t]
  /\ yielded' = yielded \/ (phase[t] = "next" /\ p = "paused")
  /\ timeouts' = timeouts \/ (timeouts' = timeouts + 1 /\ p = "idle")
  /\ (phase[t] = "weights" /\ p = "idle") => timeouts' = timeouts + 1

LEMMA MoveIs ==
  ASSUME NpuTypes, NEW t \in Threads, Moves(t)
  PROVE  \E p \in Phases, n \in Nat : MovedTo(t, p, n)
  <1>0. phase[t] \in Phases /\ step[t] \in Nat /\ step[t] + 1 \in Nat /\ weightsLoaded \in BOOLEAN
    BY DEF NpuTypes
  <1>1. CASE Start(t)
    <2> DEFINE p == IF weightsLoaded THEN "reset" ELSE "weights"
    <2>1. p \in Phases /\ p \in {"reset", "weights"} /\ 0 \in Nat
      BY DEF Phases
    <2>2. Goes(t, p, 0) /\ phase[t] = "idle" /\ Cardinality(Active) < MaxActive
          /\ Enters(t) /\ UNCHANGED <<weightsLoaded, device, yielded, timeouts>>
      BY <1>1 DEF Start
    <2> HIDE DEF p
    <2>4. Went(t, p, "write", 0)
      BY <2>1, <2>2, GoesIs
    <2>5. phase'[t] = p
      BY <2>4 DEF Went
    <2>6. MovedTo(t, p, 0)
      BY <2>2, <2>4, <2>5, Zenon DEF MovedTo, Enters, p
    <2> QED
      BY <2>1, <2>6
  <1>2. CASE Resume(t) /\ step[t] < MaxNewTokens
    <2>1. Went(t, "next", "write", step[t])
      BY <1>0, <1>2, GoesIs DEF Resume, Phases
    <2>2. MovedTo(t, "next", step[t])
      BY <1>0, <1>2, <2>1 DEF MovedTo, Resume
    <2> QED
      BY <1>0, <2>2 DEF Phases
  <1>3. CASE \/ Resume(t) /\ ~(step[t] < MaxNewTokens)
             \/ Abandon(t) \/ TokenEnds(t) \/ TimesOut(t) \/ BadSampling(t)
    <2>1. Goes(t, "idle", 0) /\ phase[t] # "idle"
          /\ UNCHANGED <<weightsLoaded, device, loads, alone, yielded>>
          /\ \/ UNCHANGED timeouts /\ phase[t] # "weights"
             \/ timeouts' = timeouts + 1
      <3>1. CASE TimesOut(t)
        BY <3>1 DEF TimesOut, NpuTypes
      <3>2. CASE ~TimesOut(t)
        BY <1>3, <3>2 DEF Resume, Abandon, TokenEnds, BadSampling
      <3> QED
        BY <3>1, <3>2
    <2>2. Went(t, "idle", "write", 0)
      BY <2>1, GoesIs DEF Phases
    <2>3. MovedTo(t, "idle", 0)
      BY <1>0, <2>1, <2>2 DEF MovedTo
    <2> QED
      BY <2>3 DEF Phases
  <1>4. CASE WeightsDone(t)
    <2>1. Went(t, "reset", "write", 0)
      BY <1>4, GoesIs DEF WeightsDone, Phases
    <2>2. MovedTo(t, "reset", 0)
      BY <1>0, <1>4, <2>1 DEF MovedTo, WeightsDone
    <2> QED
      BY <2>2 DEF Phases
  <1>5. CASE ResetDone(t)
    <2>1. Went(t, "prompt", "write", 0)
      BY <1>5, GoesIs DEF ResetDone, Phases
    <2>2. MovedTo(t, "prompt", 0)
      BY <1>0, <1>5, <2>1 DEF MovedTo, ResetDone
    <2> QED
      BY <2>2 DEF Phases
  <1>6. CASE PromptDone(t) /\ step[t] + 1 < PromptLen
    <2>1. Went(t, "prompt", "write", step[t] + 1)
      BY <1>0, <1>6, GoesIs DEF PromptDone, Phases
    <2>2. MovedTo(t, "prompt", step[t] + 1)
      BY <1>0, <1>6, <2>1 DEF MovedTo, PromptDone
    <2> QED
      BY <1>0, <2>2 DEF Phases
  <1>7. CASE PromptDone(t) /\ ~(step[t] + 1 < PromptLen)
    <2>1. Went(t, "next", "write", 0)
      BY <1>7, GoesIs DEF PromptDone, Phases
    <2>2. MovedTo(t, "next", 0)
      BY <1>0, <1>7, <2>1 DEF MovedTo, PromptDone
    <2> QED
      BY <2>2 DEF Phases
  <1>8. CASE TokenYielded(t)
    <2>1. Went(t, "paused", "write", step[t] + 1)
      BY <1>0, <1>8, GoesIs DEF TokenYielded, Phases
    <2>2. MovedTo(t, "paused", step[t] + 1)
      BY <1>0, <1>8, <2>1 DEF MovedTo, TokenYielded
    <2> QED
      BY <1>0, <2>2 DEF Phases
  <1> QED
    BY <1>1, <1>2, <1>3, <1>4, <1>5, <1>6, <1>7, <1>8 DEF Moves

LEMMA TypesMove ==
  ASSUME NpuTypes, NEW t \in Threads, NEW p \in Phases, NEW n \in Nat, MovedTo(t, p, n)
  PROVE  NpuTypes'
  <1>1. Went(t, p, "write", n) /\ UNCHANGED device
    BY DEF MovedTo
  <1>2. \A u \in Threads : /\ phase'[u] \in {"idle", "paused"} => bus'[u] = "write"
                           /\ bus'[u] = "kick" => cmdIn' # None
    BY <1>1 DEF NpuTypes, Went, device
  <1>3. alone' \in SUBSET Threads /\ loads' \in Nat
    <2>1. alone' \in {alone, {t}, {}} /\ loads' \in {loads, loads + 1}
      BY Zenon DEF MovedTo
    <2> QED
      BY <2>1 DEF NpuTypes
  <1>4. yielded' \in Seq(Nat) /\ timeouts' \in Nat
    <2>1. yielded' \in {yielded, Append(yielded, status)} /\ timeouts' \in {timeouts, timeouts + 1}
      BY Zenon DEF MovedTo
    <2>2. Append(yielded, status) \in Seq(Nat) /\ yielded \in Seq(Nat)
      BY DEF NpuTypes
    <2>3. timeouts \in Nat /\ timeouts + 1 \in Nat
      BY DEF NpuTypes
    <2> QED
      BY <2>1, <2>2, <2>3, Zenon
  <1>5. weightsLoaded' \in BOOLEAN
    BY DEF MovedTo, NpuTypes
  <1> QED
    BY <1>1, <1>2, <1>3, <1>4, <1>5 DEF NpuTypes, Went, device

\* Write leaves a thread's command; Kick has the newest executed.
Written(t) ==
  /\ phase[t] \notin {"idle", "paused"} /\ bus[t] = "write" /\ bus' = [bus EXCEPT ![t] = "kick"]
  /\ cmdIn' = Command(t) /\ phase' = phase /\ step' = step /\ weightsLoaded' = weightsLoaded
  /\ status' = status /\ tokens' = tokens /\ context' = context /\ weightsInL2' = weightsInL2
  /\ loads' = loads /\ alone' = alone /\ yielded' = yielded /\ timeouts' = timeouts

Kicked(t) ==
  /\ bus[t] = "kick" /\ bus' = [bus EXCEPT ![t] = "read"] /\ Executed(cmdIn)
  /\ cmdIn' = cmdIn /\ phase' = phase /\ step' = step /\ weightsLoaded' = weightsLoaded
  /\ loads' = loads /\ alone' = alone /\ yielded' = yielded /\ timeouts' = timeouts

LEMMA TypesWrite ==
  ASSUME NpuTypes, NEW t \in Threads, Written(t)
  PROVE  NpuTypes'
  <1>1. Command(t) \in Commands /\ Command(t).by = t
    BY CommandIs DEF Written
  <1>2. Command(t) # None
    <2>1. Command(t).op \in Ops
      BY <1>1 DEF Commands
    <2>2. None.op \notin Ops
      BY DEF None, Ops
    <2> QED
      BY <2>1, <2>2
  <1>3. /\ bus' \in [Threads -> {"write", "kick", "read"}]
        /\ \A u \in Threads : phase'[u] \in {"idle", "paused"} => bus'[u] = "write"
    BY DEF NpuTypes, Written
  <1> QED
    BY <1>1, <1>2, <1>3 DEF NpuTypes, Written

\* What the device does with a command.
LEMMA ExecutedIs ==
  ASSUME NpuTypes, cmdIn \in Commands, Executed(cmdIn)
  PROVE  /\ tokens' \in 0 .. SimTokens /\ status' \in Nat /\ context' \in Seq(Commands)
         /\ weightsInL2' \in BOOLEAN /\ tokens' <= tokens
         /\ cmdIn.op = "NEXT_TOKEN" =>
              status' = Stop \/ (status' + tokens' = SimTokens /\ tokens > tokens')
         /\ context' # <<>> => context # <<>> \/ cmdIn.op # "LOAD_WEIGHT"
  <1>1. SimTokens \in Nat /\ tokens \in 0 .. SimTokens /\ context \in Seq(Commands)
    BY ConstantsOK DEF NpuTypes
  <1>2. tokens' \in 0 .. SimTokens /\ tokens' <= tokens
    BY <1>1 DEF Executed
  <1>3. status' \in Nat
    BY <1>1 DEF Executed, NoToken, Stop
  <1>4. context' \in Seq(Commands)
    <2>1. context' \in {<<cmdIn>>, context, Append(context, cmdIn)}
      BY Zenon DEF Executed
    <2>2. <<cmdIn>> \in Seq(Commands) /\ Append(context, cmdIn) \in Seq(Commands)
      <3>1. context \in Seq(Commands) /\ cmdIn \in Commands
        BY <1>1
      <3> QED
        BY ONLY <3>1
    <2> QED
      BY <1>1, <2>1, <2>2, Zenon
  <1>5. weightsInL2' \in BOOLEAN
    BY DEF Executed
  <1>6. ASSUME cmdIn.op = "NEXT_TOKEN"
        PROVE  status' = Stop \/ (status' + tokens' = SimTokens /\ tokens > tokens')
    <2>1. CASE tokens = 0
      BY <1>6, <2>1, Zenon DEF Executed
    <2>2. CASE tokens # 0
      <3>1. tokens' = tokens - 1 /\ status' = SimTokens - tokens + 1
        BY <1>1, <1>6, <2>2 DEF Executed
      <3>2. (SimTokens - tokens + 1) + (tokens - 1) = SimTokens /\ tokens > tokens - 1
        BY <1>1
      <3> QED
        BY <3>1, <3>2
    <2> QED
      BY <2>1, <2>2
  <1>7. context' # <<>> => context # <<>> \/ cmdIn.op # "LOAD_WEIGHT"
    BY DEF Executed
  <1> QED
    BY <1>2, <1>3, <1>4, <1>5, <1>6, <1>7

LEMMA TypesKick ==
  ASSUME NpuTypes, NEW t \in Threads, Kicked(t)
  PROVE  NpuTypes'
  <1>1. cmdIn \in Commands
    BY DEF NpuTypes, Kicked
  <1>2. tokens' \in 0 .. SimTokens /\ status' \in Nat /\ context' \in Seq(Commands) /\ weightsInL2' \in BOOLEAN
    BY <1>1, ExecutedIs DEF Kicked
  <1>3. /\ bus' \in [Threads -> {"write", "kick", "read"}]
        /\ \A u \in Threads : phase'[u] \in {"idle", "paused"} => bus'[u] = "write"
        /\ \A u \in Threads : bus'[u] = "kick" => cmdIn' # None
    BY DEF NpuTypes, Kicked
  <1> QED
    BY <1>1, <1>2, <1>3 DEF NpuTypes, Kicked

LEMMA LoadingMove ==
  ASSUME NpuTypes, Loading, NEW t \in Threads, NEW p \in Phases, NEW n \in Nat, MovedTo(t, p, n)
  PROVE  Loading'
  <1>1. Went(t, p, "write", n)
    BY DEF MovedTo
  <1>2. UNCHANGED device
    BY DEF MovedTo
  <1>3. weightsLoaded' => weightsLoaded \/ (phase[t] = "weights" /\ bus[t] = "read")
    BY DEF MovedTo
  <1>4. weightsLoaded => weightsLoaded'
    BY DEF MovedTo
  <1>5. weightsLoaded' => weightsInL2'
    BY <1>2, <1>3 DEF Loading, device
  <1>6. p \in {"reset", "prompt", "next", "paused"} => weightsLoaded'
    <2>1. CASE phase[t] \in {"reset", "prompt", "next", "paused"}
      BY <1>4, <2>1 DEF Loading
    <2>2. CASE phase[t] = "idle"
      BY <1>4, <2>2 DEF MovedTo
    <2>3. CASE phase[t] = "weights"
      BY <2>3 DEF MovedTo
    <2> QED
      BY <2>1, <2>2, <2>3 DEF NpuTypes, Phases
  <1>7. ASSUME NEW u \in Threads
        PROVE  /\ phase'[u] \in {"reset", "prompt", "next", "paused"} => weightsLoaded'
               /\ phase'[u] = "weights" /\ bus'[u] = "read" => weightsInL2'
    <2>1. CASE u = t
      BY <1>1, <1>6, <2>1 DEF Went
    <2>2. CASE u # t
      BY <1>1, <1>2, <1>4, <2>2 DEF Went, Loading, device
    <2> QED
      BY <2>1, <2>2
  <1>8. context' # <<>> => weightsInL2'
    BY <1>2 DEF Loading, device
  <1>9. cmdIn'.op \notin {"none", "LOAD_WEIGHT"} => weightsLoaded'
    BY <1>2, <1>4 DEF Loading, device
  <1> QED
    BY <1>5, <1>7, <1>8, <1>9 DEF Loading

LEMMA LoadingWrite ==
  ASSUME NpuTypes, Loading, NEW t \in Threads, Written(t)
  PROVE  Loading'
  <1>1. cmdIn'.op \notin {"none", "LOAD_WEIGHT"} => weightsLoaded'
    <2>1. phase[t] = "weights" \/ phase[t] \in {"reset", "prompt", "next", "paused"}
      BY DEF NpuTypes, Phases, Written
    <2>2. cmdIn' = Command(t) /\ weightsLoaded' = weightsLoaded
      BY DEF Written
    <2>3. phase[t] = "weights" => Command(t).op = "LOAD_WEIGHT"
      BY CommandIs DEF Written
    <2> QED
      BY <2>1, <2>2, <2>3 DEF Loading
  <1>2. ASSUME NEW u \in Threads
        PROVE  /\ phase'[u] \in {"reset", "prompt", "next", "paused"} => weightsLoaded'
               /\ phase'[u] = "weights" /\ bus'[u] = "read" => weightsInL2'
    BY DEF Loading, NpuTypes, Written
  <1> QED
    BY <1>1, <1>2 DEF Loading, Written

LEMMA LoadingKick ==
  ASSUME NpuTypes, Loading, NEW t \in Threads, Kicked(t)
  PROVE  Loading'
  <1>1. cmdIn \in Commands /\ cmdIn.op # "none"
    BY DEF NpuTypes, Kicked, Commands, Ops
  <1>2. weightsInL2'
    BY <1>1 DEF Loading, Executed, Kicked
  <1>3. \A u \in Threads : phase'[u] \in {"reset", "prompt", "next", "paused"} => weightsLoaded'
    BY DEF Loading, Kicked
  <1> QED
    BY <1>2, <1>3 DEF Loading, Kicked

-----------------------------------------------------------------------------
(* The threads that generate.                                              *)

LEMMA ActiveAfter ==
  ASSUME NpuTypes, NEW t \in Threads, NEW p \in Phases, NEW b, NEW n, Went(t, p, b, n)
  PROVE  /\ phase[t] # "idle" /\ p # "idle" => Active' = Active
         /\ phase[t] # "idle" /\ p = "idle" => Active' = Active \ {t} /\ t \in Active
         /\ phase[t] = "idle" /\ p # "idle" => Active' = Active \cup {t} /\ t \notin Active
  BY DEF Went, Active

LEMMA LoadsMove ==
  ASSUME NpuTypes, Loading, Loads, NEW t \in Threads, NEW p \in Phases, NEW n \in Nat,
         MovedTo(t, p, n)
  PROVE  Loads'
  <1> DEFINE a == Cardinality(Active)
             b == Cardinality(Active')
  <1>1. Went(t, p, "write", n) /\ IsFiniteSet(Active)
    BY DEF MovedTo, Loads
  <1>2. a \in Nat
    BY <1>1, FS_CardinalityType
  <1>3. CASE phase[t] # "idle" /\ p # "idle"
    <2>1. Active' = Active
      BY <1>1, <1>3, ActiveAfter
    <2>2. loads' = loads /\ timeouts' = timeouts /\ (~weightsLoaded' => ~weightsLoaded)
      BY <1>3 DEF MovedTo
    <2> QED
      BY <1>1, <2>1, <2>2 DEF Loads
  <1>4. CASE phase[t] # "idle" /\ p = "idle"
    <2>1. Active' = Active \ {t} /\ t \in Active
      BY <1>1, <1>4, ActiveAfter
    <2>2. IsFiniteSet(Active') /\ b = a - 1 /\ a > 0
      <3> DEFINE rest == Active \ {t}
      <3>1. IsFiniteSet(rest) /\ t \notin rest /\ Active = rest \cup {t}
        BY <1>1, <2>1, FS_Subset
      <3>2. Cardinality(rest) \in Nat /\ a = Cardinality(rest) + 1
        BY <3>1, FS_AddElement, FS_CardinalityType
      <3> HIDE DEF rest
      <3>3. Active' = rest
        BY <2>1 DEF rest
      <3> QED
        BY <3>1, <3>2, <3>3
    <2>3. loads' = loads /\ (~weightsLoaded' => ~weightsLoaded)
      BY <1>4 DEF MovedTo
    <2>4. timeouts' = timeouts \/ timeouts' = timeouts + 1
      BY DEF MovedTo
    <2>5. ~weightsLoaded => timeouts' = timeouts + 1
      <3>1. ~weightsLoaded => phase[t] = "weights"
        BY <1>4 DEF Loading, NpuTypes, Phases
      <3> QED
        BY <1>4, <3>1 DEF MovedTo
    <2>6. MaxActive \in Nat /\ loads \in Nat /\ timeouts \in Nat
      BY ConstantsOK DEF NpuTypes
    <2>7. a <= MaxActive /\ loads <= MaxActive + timeouts /\ (~weightsLoaded => loads <= a + timeouts)
      BY DEF Loads
    <2> HIDE DEF a, b
    <2>8. a - 1 <= MaxActive /\ loads <= MaxActive + (timeouts + 1)
          /\ (~weightsLoaded => loads <= (a - 1) + (timeouts + 1))
      BY <1>2, <2>6, <2>7
    <2>9. b <= MaxActive /\ loads' <= MaxActive + timeouts'
          /\ (~weightsLoaded' => loads' <= b + timeouts')
      <3>1. b <= MaxActive
        BY <2>2, <2>8
      <3>2. loads' <= MaxActive + timeouts'
        BY <2>3, <2>4, <2>7, <2>8
      <3>3. ASSUME ~weightsLoaded' PROVE loads' <= b + timeouts'
        <4>1. b = a - 1 /\ timeouts' = timeouts + 1 /\ loads <= (a - 1) + (timeouts + 1) /\ loads' = loads
          BY <2>2, <2>3, <2>5, <2>8, <3>3
        <4> QED
          BY ONLY <4>1
      <3> QED
        BY <3>1, <3>2, <3>3
    <2> QED
      BY <2>2, <2>9 DEF Loads, b
  <1>5. CASE phase[t] = "idle"
    <2>1. /\ p = (IF weightsLoaded THEN "reset" ELSE "weights") /\ a < MaxActive
          /\ loads' = (IF p = "weights" THEN loads + 1 ELSE loads)
          /\ weightsLoaded' = weightsLoaded /\ timeouts' = timeouts
      BY <1>5 DEF MovedTo
    <2>2. Active' = Active \cup {t} /\ t \notin Active
      BY <1>1, <1>5, <2>1, ActiveAfter
    <2>3. IsFiniteSet(Active') /\ b = a + 1
      BY <1>1, <2>2, FS_AddElement
    <2>4. MaxActive \in Nat /\ loads \in Nat /\ timeouts \in Nat
      BY ConstantsOK DEF NpuTypes
    <2>5. loads <= MaxActive + timeouts /\ (~weightsLoaded => loads <= a + timeouts)
      BY DEF Loads
    <2> HIDE DEF a, b
    <2>6. a + 1 <= MaxActive /\ (~weightsLoaded => loads + 1 <= (a + 1) + timeouts)
          /\ (~weightsLoaded => loads + 1 <= MaxActive + timeouts)
      BY <1>2, <2>1, <2>4, <2>5
    <2>7. b <= MaxActive /\ loads' <= MaxActive + timeouts'
          /\ (~weightsLoaded' => loads' <= b + timeouts')
      <3>1. CASE weightsLoaded
        BY <2>1, <2>3, <2>5, <2>6, <3>1
      <3>2. CASE ~weightsLoaded
        BY <2>1, <2>3, <2>6, <3>2
      <3> QED
        BY <3>1, <3>2
    <2> QED
      BY <2>3, <2>7 DEF Loads, b
  <1> QED
    BY <1>3, <1>4, <1>5

LEMMA LoadsStill ==
  ASSUME Loads, phase' = phase, loads' = loads, timeouts' = timeouts, weightsLoaded' = weightsLoaded
  PROVE  Loads'
  <1>1. Active' = Active
    BY DEF Active
  <1> QED
    BY <1>1 DEF Loads

-----------------------------------------------------------------------------
(* The commands of a chat that is alone.                                   *)

LEMMA OwnMore ==
  ASSUME NEW t \in Threads, NEW m \in Nat
  PROVE  Append(Own(t, m), OwnEntry(t, m + 1)) = Own(t, m + 1)
  <1> DEFINE E == {OwnEntry(t, i) : i \in 1 .. m + 1}
             s == Own(t, m)
             x == OwnEntry(t, m + 1)
             a == Append(s, x)
             b == Own(t, m + 1)
  <1>1. s \in Seq(E) /\ Len(s) = m /\ \A i \in 1 .. m : s[i] = OwnEntry(t, i)
    BY DEF Own
  <1>2. b \in Seq(E) /\ Len(b) = m + 1 /\ \A i \in 1 .. m + 1 : b[i] = OwnEntry(t, i)
    BY DEF Own
  <1>3. x \in E
    OBVIOUS
  <1> HIDE DEF E, s, b
  <1>4. a \in Seq(E) /\ Len(a) = m + 1 /\ a[m + 1] = x /\ \A i \in 1 .. m : a[i] = s[i]
    BY <1>1, <1>3
  <1> HIDE DEF a, x
  <1>5. \A i \in 1 .. m + 1 : a[i] = b[i]
    BY <1>1, <1>2, <1>4 DEF x
  <1>6. a = b
    BY <1>2, <1>4, <1>5
  <1> QED
    BY <1>6 DEF a, b, s, x

LEMMA OwnOne == ASSUME NEW t PROVE <<OwnEntry(t, 1)>> = Own(t, 1)
  BY DEF Own

LEMMA AloneMove ==
  ASSUME NpuTypes, Alone, NEW t \in Threads, NEW p \in Phases, NEW n \in Nat, MovedTo(t, p, n)
  PROVE  Alone'
  <1>1. Went(t, p, "write", n) /\ context' = context
    BY DEF MovedTo, device
  <1>2. PromptLen \in Nat /\ PromptLen >= 1 /\ step[t] \in Nat
    BY ConstantsOK DEF NpuTypes
  <1>3. CASE phase[t] = "idle"
    <2>1. alone' = (IF Active = {} THEN {t} ELSE {}) /\ p \in {"reset", "weights"} /\ n = 0
      BY <1>3 DEF MovedTo
    <2>2. ASSUME Active = {}, NEW u \in Threads, phase'[u] # "idle"
          PROVE  u = t
      BY <1>1, <2>2 DEF Active, Went
    <2> QED
      BY <1>1, <2>1, <2>2 DEF Alone, Went
  <1>4. CASE phase[t] # "idle"
    <2> SUFFICES ASSUME NEW x \in alone'
                 PROVE  /\ \A u \in Threads : phase'[u] # "idle" => u = x
                        /\ bus'[x] = "kick" => cmdIn' = Command(x)'
                        /\ phase'[x] = "reset" => step'[x] = 0 /\ (bus'[x] = "read" => context' = Own(x, 1))
                        /\ phase'[x] = "prompt" =>
                             step'[x] < PromptLen /\ context' = Own(x, step'[x] + 1 + Behind(x)')
                        /\ phase'[x] = "next" => context' = Own(x, PromptLen + step'[x] + 1 + Behind(x)')
                        /\ phase'[x] = "paused" => context' = Own(x, PromptLen + step'[x] + 1)
      BY DEF Alone
    <2>1. x \in alone /\ x = t
      BY <1>4 DEF MovedTo, Alone
    <2>2. \A u \in Threads : phase'[u] # "idle" => u = x
      BY <1>1, <1>4, <2>1 DEF Alone, Went
    <2>3. /\ phase'[t] = p /\ step'[t] = n /\ bus'[t] = "write" /\ Behind(t)' = 0
      BY <1>1 DEF Went, Behind
    <2>4. /\ phase[t] = "reset" /\ bus[t] = "read" => context = Own(t, 1)
          /\ phase[t] = "prompt" /\ bus[t] = "read" =>
               step[t] < PromptLen /\ context = Own(t, step[t] + 1 + 1)
          /\ phase[t] = "next" /\ bus[t] = "read" => context = Own(t, PromptLen + step[t] + 1 + 1)
          /\ phase[t] = "paused" => context = Own(t, PromptLen + step[t] + 1)
      BY <2>1 DEF Alone, Behind
    <2>5. CASE p \in {"idle", "weights"}
      BY <2>1, <2>2, <2>3, <2>5
    <2>6. CASE p = "reset"
      <3>1. n = 0
        BY <1>4, <2>6 DEF MovedTo
      <3> QED
        BY <2>1, <2>2, <2>3, <2>6, <3>1
    <2>7. CASE p = "prompt"
      <3>1. CASE phase[t] = "reset" /\ bus[t] = "read" /\ n = 0
        <4>1. n < PromptLen /\ n + 1 + 0 = 1
          BY <1>2, <3>1
        <4> QED
          BY <1>1, <2>1, <2>2, <2>3, <2>4, <2>7, <3>1, <4>1
      <3>2. CASE phase[t] = "prompt" /\ bus[t] = "read" /\ n = step[t] + 1 /\ n < PromptLen
        <4>1. n + 1 + 0 = step[t] + 1 + 1
          BY <1>2, <3>2
        <4> QED
          BY <1>1, <2>1, <2>2, <2>3, <2>4, <2>7, <3>2, <4>1
      <3> QED
        BY <1>4, <2>7, <3>1, <3>2 DEF MovedTo
    <2>8. CASE p = "next"
      <3>1. CASE phase[t] = "prompt" /\ bus[t] = "read" /\ n = 0 /\ ~(step[t] + 1 < PromptLen)
        <4>1. step[t] < PromptLen /\ context = Own(t, step[t] + 1 + 1)
          BY <2>4, <3>1
        <4>2. step[t] + 1 + 1 = PromptLen + n + 1 + 0
          BY <1>2, <3>1, <4>1
        <4> QED
          BY <1>1, <2>1, <2>2, <2>3, <2>8, <4>1, <4>2
      <3>2. CASE phase[t] = "paused" /\ n = step[t]
        <4>1. PromptLen + n + 1 + 0 = PromptLen + step[t] + 1
          BY <1>2, <3>2
        <4> QED
          BY <1>1, <2>1, <2>2, <2>3, <2>4, <2>8, <3>2, <4>1
      <3> QED
        BY <1>4, <2>8, <3>1, <3>2 DEF MovedTo
    <2>9. CASE p = "paused"
      <3>1. phase[t] = "next" /\ bus[t] = "read" /\ n = step[t] + 1
        BY <1>4, <2>9 DEF MovedTo
      <3>2. PromptLen + step[t] + 1 + 1 = PromptLen + n + 1
        BY <1>2, <3>1
      <3> QED
        BY <1>1, <2>1, <2>2, <2>3, <2>4, <2>9, <3>1, <3>2
    <2> QED
      BY <2>5, <2>6, <2>7, <2>8, <2>9 DEF Phases
  <1> QED
    BY <1>3, <1>4

LEMMA AloneWrite ==
  ASSUME NpuTypes, Alone, NEW t \in Threads, Written(t)
  PROVE  Alone'
  <1>1. /\ phase[t] # "idle" /\ bus[t] = "write" /\ alone' = alone /\ phase' = phase /\ step' = step
        /\ context' = context /\ cmdIn' = Command(t) /\ bus'[t] = "kick"
    BY DEF Written, NpuTypes
  <1>2. Command(t)' = Command(t)
    BY <1>1 DEF Command
  <1>3. ASSUME NEW x \in alone PROVE x = t
    BY <1>1 DEF Alone
  <1>4. Behind(t)' = Behind(t)
    BY <1>1 DEF Behind
  <1> QED
    BY <1>1, <1>2, <1>3, <1>4 DEF Alone

LEMMA AloneKick ==
  ASSUME NpuTypes, Alone, NEW t \in Threads, Kicked(t)
  PROVE  Alone'
  <1>1. /\ bus[t] = "kick" /\ alone' = alone /\ phase' = phase /\ step' = step /\ bus'[t] = "read"
        /\ Executed(cmdIn) /\ phase[t] \notin {"idle", "paused"}
    BY DEF Kicked, NpuTypes
  <1>2. ASSUME NEW x \in alone PROVE x = t
    BY <1>1 DEF Alone
  <1> SUFFICES ASSUME t \in alone PROVE Alone'
    BY <1>1, <1>2 DEF Alone
  <1>3. cmdIn = Command(t) /\ Behind(t) = 0 /\ Behind(t)' = 1
    BY <1>1 DEF Alone, Behind
  <1> DEFINE k == step[t]
             cmd == [op |-> Command(t).op, by |-> t, n |-> k]
  <1>4. k \in Nat /\ PromptLen \in Nat /\ PromptLen >= 1
    BY ConstantsOK DEF NpuTypes
  <1>5. cmdIn = cmd
    BY <1>1, <1>3, CommandIs
  <1>6. /\ phase[t] = "reset" => cmdIn.op = "RESET_KV_CACHE" /\ k = 0
        /\ phase[t] = "prompt" => cmdIn.op = "LOAD_PROMPT" /\ k < PromptLen /\ context = Own(t, k + 1 + 0)
        /\ phase[t] = "next" => cmdIn.op = "NEXT_TOKEN" /\ context = Own(t, PromptLen + k + 1 + 0)
    BY <1>1, <1>3, CommandIs DEF Alone
  <1>7. phase[t] = "reset" => context' = Own(t, 1)
    <2> SUFFICES ASSUME phase[t] = "reset" PROVE context' = Own(t, 1)
      OBVIOUS
    <2>1. cmdIn = OwnEntry(t, 1)
      BY <1>3, <1>5, <1>6 DEF OwnEntry
    <2>2. context' = <<cmdIn>>
      BY <1>1, <1>6 DEF Executed
    <2> QED
      BY <2>1, <2>2, OwnOne, Zenon
  <1>8. phase[t] = "prompt" => context' = Own(t, k + 1 + 1)
    <2> SUFFICES ASSUME phase[t] = "prompt" PROVE context' = Own(t, k + 1 + 1)
      OBVIOUS
    <2>1. cmdIn = OwnEntry(t, (k + 1) + 1)
      <3> HIDE DEF k
      <3>1. (k + 1) + 1 # 1 /\ (k + 1) + 1 <= PromptLen + 1 /\ ((k + 1) + 1) - 2 = k
        BY <1>4, <1>6
      <3> QED
        BY <1>3, <1>5, <1>6, <3>1, Zenon DEF OwnEntry
    <2>2. context = Own(t, k + 1)
      <3>1. k + 1 + 0 = k + 1
        BY <1>4
      <3> QED
        BY <1>6, <3>1
    <2>3. context' = Append(context, cmdIn)
      BY <1>1, <1>6 DEF Executed
    <2>4. k + 1 \in Nat
      BY <1>4
    <2> HIDE DEF k
    <2> QED
      BY <2>1, <2>2, <2>3, <2>4, OwnMore, Zenon
  <1>9. phase[t] = "next" => context' = Own(t, PromptLen + k + 1 + 1)
    <2> SUFFICES ASSUME phase[t] = "next" PROVE context' = Own(t, PromptLen + k + 1 + 1)
      OBVIOUS
    <2> DEFINE m == PromptLen + k + 1
    <2>1. cmdIn = OwnEntry(t, m + 1)
      <3> HIDE DEF k
      <3>1. m + 1 # 1 /\ ~(m + 1 <= PromptLen + 1) /\ (m + 1) - PromptLen - 2 = k
        BY <1>4
      <3> HIDE DEF m
      <3> QED
        BY <1>3, <1>5, <1>6, <3>1, Zenon DEF OwnEntry
    <2>2. context = Own(t, m)
      <3>1. m + 0 = m
        BY <1>4
      <3> QED
        BY <1>6, <3>1
    <2>3. context' = Append(context, cmdIn)
      BY <1>1, <1>6 DEF Executed
    <2>4. m \in Nat
      BY <1>4
    <2> HIDE DEF k, m
    <2>5. context' = Own(t, m + 1)
      BY <2>1, <2>2, <2>3, <2>4, OwnMore, Zenon
    <2> QED
      BY <2>5 DEF m
  <1> QED
    BY <1>1, <1>2, <1>3, <1>6, <1>7, <1>8, <1>9 DEF Alone

-----------------------------------------------------------------------------
(* The tokens of the chats that are alone.                                 *)

LEMMA Rising ==
  ASSUME NEW s \in Seq(Nat), NEW x \in Nat, \A i \in DOMAIN s : s[i] < x,
         \A i, j \in DOMAIN s : i < j => s[i] < s[j]
  PROVE  /\ \A i, j \in DOMAIN Append(s, x) : i < j => Append(s, x)[i] < Append(s, x)[j]
         /\ \A i \in DOMAIN Append(s, x) : Append(s, x)[i] = x \/ (i \in DOMAIN s /\ Append(s, x)[i] = s[i])
  OBVIOUS

LEMMA TokensMove ==
  ASSUME NpuTypes, Alone, Tokens, NEW t \in Threads, NEW p \in Phases, NEW n \in Nat,
         MovedTo(t, p, n)
  PROVE  Tokens'
  <1>1. Went(t, p, "write", n) /\ tokens' = tokens /\ status' = status
    BY DEF MovedTo, device
  <1>2. ASSUME NEW x \in alone', bus'[x] = "read", phase'[x] = "next"
        PROVE  FALSE
    <2>1. x # t
      BY <1>1, <1>2 DEF Went
    <2>2. CASE phase[t] = "idle"
      BY <1>2, <2>1, <2>2 DEF MovedTo
    <2>3. CASE phase[t] # "idle"
      <3>1. alone' = alone /\ alone \subseteq Threads
        BY <2>3 DEF MovedTo, NpuTypes
      <3> QED
        BY <1>2, <2>1, <2>3, <3>1 DEF Alone
    <2> QED
      BY <2>2, <2>3
  <1>3. CASE yielded' = yielded
    <2>1. \A i \in DOMAIN yielded' : yielded'[i] + tokens' <= SimTokens
      BY <1>1, <1>3 DEF Tokens
    <2>2. TokenOnce'
      BY <1>3 DEF Tokens, TokenOnce
    <2> QED
      BY <1>2, <2>1, <2>2 DEF Tokens
  <1>4. CASE yielded' # yielded
    <2>1. /\ phase[t] = "next" /\ bus[t] = "read" /\ status \notin {NoToken, Stop} /\ t \in alone
          /\ yielded' = Append(yielded, status)
      BY <1>4 DEF MovedTo
    <2>2. /\ status + tokens <= SimTokens /\ \A i \in DOMAIN yielded : yielded[i] < status
          /\ \A i \in DOMAIN yielded : yielded[i] + tokens <= SimTokens
          /\ \A i, j \in DOMAIN yielded : i < j => yielded[i] < yielded[j]
      BY <2>1 DEF Tokens, TokenOnce
    <2>3. yielded \in Seq(Nat) /\ status \in Nat
      BY DEF NpuTypes
    <2>4. /\ \A i, j \in DOMAIN Append(yielded, status) :
               i < j => Append(yielded, status)[i] < Append(yielded, status)[j]
          /\ \A i \in DOMAIN Append(yielded, status) :
               \/ Append(yielded, status)[i] = status
               \/ i \in DOMAIN yielded /\ Append(yielded, status)[i] = yielded[i]
      BY <2>2, <2>3, Rising
    <2>5. \A i \in DOMAIN yielded' : yielded'[i] + tokens' <= SimTokens
      BY <1>1, <2>1, <2>2, <2>4, Zenon
    <2>6. TokenOnce'
      BY <2>1, <2>4, Zenon DEF TokenOnce
    <2> QED
      BY <1>2, <2>5, <2>6 DEF Tokens
  <1> QED
    BY <1>3, <1>4

LEMMA TokensWrite ==
  ASSUME NpuTypes, Tokens, NEW t \in Threads, Written(t)
  PROVE  Tokens'
  <1>1. \A x \in alone : bus'[x] = "read" => bus[x] = "read"
    BY DEF Written, NpuTypes
  <1> QED
    BY <1>1 DEF Written, Tokens, TokenOnce

LEMMA TokensKick ==
  ASSUME NpuTypes, Alone, Tokens, NEW t \in Threads, Kicked(t)
  PROVE  Tokens'
  <1>1. /\ bus[t] = "kick" /\ alone' = alone /\ phase' = phase /\ yielded' = yielded
        /\ Executed(cmdIn) /\ phase[t] \notin {"idle", "paused"}
    BY DEF Kicked, NpuTypes
  <1>2. cmdIn \in Commands
    BY DEF NpuTypes, Kicked
  <1>3. /\ tokens' \in 0 .. SimTokens /\ tokens' <= tokens /\ status' \in Nat
        /\ cmdIn.op = "NEXT_TOKEN" =>
             status' = Stop \/ (status' + tokens' = SimTokens /\ tokens > tokens')
    BY <1>1, <1>2, ExecutedIs
  <1>4. SimTokens \in Nat /\ tokens \in Nat /\ yielded \in Seq(Nat)
    BY ConstantsOK DEF NpuTypes
  <1>5. \A i \in DOMAIN yielded : yielded[i] \in Nat /\ yielded[i] + tokens <= SimTokens
    BY <1>4 DEF Tokens
  <1>6. PICK b \in Nat, w \in Nat : b = tokens' /\ w = status'
    BY <1>3
  <1>7. \A i \in DOMAIN yielded : yielded[i] + b <= SimTokens
    <2>1. b <= tokens
      BY <1>3, <1>6
    <2> QED
      BY ONLY <1>4, <1>5, <1>6, <2>1
  <1>8. ASSUME NEW x \in alone, phase'[x] = "next", bus'[x] = "read", w \notin {NoToken, Stop}
        PROVE  w + b <= SimTokens /\ \A i \in DOMAIN yielded : yielded[i] < w
    <2>1. x = t /\ phase[t] = "next"
      BY <1>1, <1>8 DEF Alone
    <2>2. cmdIn.op = "NEXT_TOKEN"
      BY <1>1, <1>8, <2>1, CommandIs DEF Alone
    <2>3. w + b = SimTokens /\ tokens > b
      BY <1>3, <1>6, <1>8, <2>2
    <2>4. ASSUME NEW y \in Nat, y + tokens <= SimTokens PROVE y < w
      BY ONLY <1>4, <2>3, <2>4, b \in Nat, w \in Nat
    <2>5. w + b <= SimTokens
      BY ONLY <1>4, <2>3
    <2> QED
      BY <1>5, <2>4, <2>5, Zenon
  <1> QED
    BY <1>1, <1>6, <1>7, <1>8 DEF Tokens, TokenOnce

LEMMA NpuInvStep == NpuInv /\ [Next]_vars => NpuInv'
  <1> SUFFICES ASSUME NpuInv, [Next]_vars PROVE NpuInv'
    OBVIOUS
  <1> USE DEF NpuInv
  <1>1. ASSUME NEW t \in Threads, Moves(t) PROVE NpuInv'
    <2>1. PICK p \in Phases, n \in Nat : MovedTo(t, p, n)
      BY <1>1, MoveIs
    <2> QED
      BY <2>1, TypesMove, LoadingMove, LoadsMove, AloneMove, TokensMove
  <1>2. ASSUME NEW t \in Threads, Write(t) PROVE NpuInv'
    <2>1. Written(t)
      BY <1>2 DEF Write, Written
    <2>2. Loads'
      BY <2>1, LoadsStill DEF Written
    <2> QED
      BY <2>1, <2>2, TypesWrite, LoadingWrite, AloneWrite, TokensWrite
  <1>3. ASSUME NEW t \in Threads, Kick(t) PROVE NpuInv'
    <2>1. Kicked(t)
      BY <1>3 DEF Kick, Kicked
    <2>2. Loads'
      BY <2>1, LoadsStill DEF Kicked
    <2> QED
      BY <2>1, <2>2, TypesKick, LoadingKick, AloneKick, TokensKick
  <1>4. CASE UNCHANGED vars
    <2>1. Loads'
      BY <1>4, LoadsStill DEF vars
    <2>2. NpuTypes' /\ Loading'
      BY <1>4 DEF vars, NpuTypes, Loading
    <2>3. Alone' /\ Tokens'
      BY <1>4 DEF vars, Alone, Behind, Command, Tokens, TokenOnce
    <2> QED
      BY <2>1, <2>2, <2>3
  <1> QED
    BY <1>1, <1>2, <1>3, <1>4, Zenon DEF Next, Moves

LEMMA NpuInvSafe == NpuInv => OwnContext /\ TokenOnce /\ WeightsFirst
  <1> SUFFICES ASSUME NpuInv PROVE OwnContext /\ TokenOnce /\ WeightsFirst
    OBVIOUS
  <1>1. ASSUME NEW t \in alone, phase[t] = "next", bus[t] = "read"
        PROVE  context = OwnCommands(t, step[t] + 1)
    <2> DEFINE k == step[t]
    <2>1. context = Own(t, PromptLen + k + 1 + 1)
      BY <1>1 DEF NpuInv, Alone, Behind
    <2>2. k \in Nat /\ PromptLen \in Nat
      BY ConstantsOK DEF NpuInv, NpuTypes
    <2> HIDE DEF k
    <2>3. PromptLen + k + 1 + 1 = PromptLen + (k + 1) + 1
      BY <2>2
    <2>4. OwnCommands(t, k + 1) = Own(t, PromptLen + (k + 1) + 1)
      BY DEF OwnCommands, Own, OwnEntry
    <2> QED
      BY <2>1, <2>3, <2>4 DEF k
  <1> QED
    BY <1>1 DEF NpuInv, OwnContext, Tokens, WeightsFirst, Loading, Loads


-----------------------------------------------------------------------------
(* GemmaSession. What a generate() call, its state and the weights hold.   *)

Spots == {"idle", "check", "return", "probe", "take", "scan", "index", "file", "keep",
          "store", "attend", "sample", "yield", "failed"}
Kept == {"none", "whole"}
Unnamed == [at : Spots, doing : {"forward", "logits"}, wants : Tensors, fed : Nat,
            prompt : Nat, weight : Kept]
Named == [at : Spots, doing : {"forward", "logits"}, wants : Tensors, fed : Nat,
          prompt : Nat, weight : Kept, name : SessionNames]
GenCalls == Unnamed \cup Named
Rows == [by : Chats \cup {"nobody"}, token : Nat]
States == [pos : Nat, kv : [Layers -> [0 .. MaxSeqLen - 1 -> Rows]]]

WeightTypes ==
  /\ cache \in [Tensors -> Kept] /\ layerCache \in [Layers -> Kept] /\ globals \in Kept
  /\ indexed \in BOOLEAN /\ (indexed => scaleFor = Tensors)
GemTypes ==
  chat \in [Chats -> GenCalls] /\ state \in [Chats -> States] /\ WeightTypes

\* Only whole tensors are kept or handed out, and once there they stay, until
\* the session closes.
Fetching(c) ==
  /\ chat[c].at \in {"index", "file"} => scaleFor = Tensors
  /\ chat[c].at \in {"store", "attend", "sample", "keep"} => chat[c].weight = "whole"
  /\ closing = "open" => /\ chat[c].at = "return" => Held(chat[c].wants) = "whole"
                         /\ chat[c].at = "take" => cache[chat[c].wants] = "whole"
  /\ chat[c].at = "failed" => chat[c].fed = MaxSeqLen \/ closing # "open"

\* The rows of the tokens before, and of this one in the layers so far.
Past(c) ==
  LET fed == chat[c].fed
      kv == state[c].kv
  IN  chat[c].at # "idle" =>
        /\ state[c].pos = fed /\ fed <= MaxSeqLen
        /\ chat[c].at = "attend" => fed < MaxSeqLen
        /\ chat[c].at \in {"store", "attend"} => chat[c].wants \in Layers
        /\ \A l \in Layers : l < Arch.kv_shared_first_layer =>
             /\ \A p \in 0 .. fed - 1 : kv[l][p] = Row(c, p)
             /\ (/\ chat[c].at \notin {"yield", "failed"} /\ chat[c].wants \in Layers
                 /\ \/ l < chat[c].wants
                    \/ l = chat[c].wants /\ chat[c].at = "attend") => kv[l][fed] = Row(c, fed)

GemInv == GemTypes /\ \A c \in Chats : Fetching(c) /\ Past(c)

LEMMA LayersAre ==
  /\ Globals \in Nat /\ Globals \in Tensors /\ Globals \notin Layers /\ 0 \in Tensors
  /\ Layers \subseteq Nat /\ Layers \subseteq Tensors
  /\ \A k \in Tensors : k \in Layers \/ k = Globals
  /\ \A l \in Layers : l + 1 \in Layers \/ l + 1 = Globals
  /\ \A l \in Layers : l < Globals
  BY GemmaOK DEF Globals, Layers, Tensors

LEMMA NewStateIs == NewState \in States /\ NewState.pos = 0
  <1>1. Row("nobody", 0) \in Rows
    BY DEF Row, Rows
  <1> DEFINE kv == [l \in Layers |-> [p \in 0 .. MaxSeqLen - 1 |-> Row("nobody", 0)]]
  <1>2. kv \in [Layers -> [0 .. MaxSeqLen - 1 -> Rows]]
    BY <1>1
  <1> HIDE DEF kv
  <1>3. [pos |-> 0, kv |-> kv] \in States
    BY <1>2 DEF States
  <1> QED
    BY <1>3 DEF NewState, kv

LEMMA GemInvInit == GemmaInit => GemInv
  <1> SUFFICES ASSUME GemmaInit PROVE GemInv
    OBVIOUS
  <1>1. Quiet \in GenCalls
    BY LayersAre DEF Quiet, GenCalls, Unnamed, Spots, Kept
  <1>2. GemTypes
    <2>1. chat \in [Chats -> GenCalls] /\ state \in [Chats -> States]
      BY <1>1, NewStateIs DEF GemmaInit
    <2>2. cache \in [Tensors -> Kept] /\ layerCache \in [Layers -> Kept] /\ globals \in Kept
      BY DEF GemmaInit, Kept
    <2> QED
      BY <2>1, <2>2 DEF GemTypes, WeightTypes, GemmaInit
  <1>3. ASSUME NEW c \in Chats PROVE chat[c].at = "idle"
    BY DEF GemmaInit, Quiet
  <1> QED
    BY <1>2, <1>3 DEF GemInv, Fetching, Past

-----------------------------------------------------------------------------
(* How a step changes one call.                                            *)

Now(c, a, d, k, f, m, w) ==
  /\ chat' \in [Chats -> GenCalls]
  /\ chat'[c].at = a /\ chat'[c].doing = d /\ chat'[c].wants = k /\ chat'[c].fed = f
  /\ chat'[c].prompt = m /\ chat'[c].weight = w
  /\ \A e \in Chats \ {c} : chat'[e] = chat[e]

LEMMA CallFields ==
  ASSUME NEW r \in GenCalls
  PROVE  /\ r.at \in Spots /\ r.doing \in {"forward", "logits"} /\ r.wants \in Tensors
         /\ r.fed \in Nat /\ r.prompt \in Nat /\ r.weight \in Kept
  BY DEF GenCalls, Unnamed, Named

\* Any update of a call's fields is a call.
LEMMA CallUpdate ==
  ASSUME NEW r \in GenCalls, NEW a \in Spots, NEW d \in {"forward", "logits"}, NEW k \in Tensors,
         NEW f \in Nat, NEW w \in Kept
  PROVE  LET x == [r EXCEPT !.at = a, !.doing = d, !.wants = k, !.fed = f, !.weight = w] IN
         /\ x \in GenCalls /\ x.at = a /\ x.doing = d /\ x.wants = k /\ x.fed = f
         /\ x.prompt = r.prompt /\ x.weight = w
  <1>1. CASE r \in Unnamed
    BY <1>1 DEF GenCalls, Unnamed
  <1>2. CASE r \in Named
    BY <1>2 DEF GenCalls, Named
  <1> QED
    BY <1>1, <1>2 DEF GenCalls

GoneTo(r, a) == [r EXCEPT !.at = a]

LEMMA GotoRecord ==
  ASSUME NEW r \in GenCalls, NEW a \in Spots
  PROVE  LET x == GoneTo(r, a) IN
         /\ x \in GenCalls /\ x.at = a /\ x.doing = r.doing /\ x.wants = r.wants /\ x.fed = r.fed
         /\ x.prompt = r.prompt /\ x.weight = r.weight
  <1>1. CASE r \in Unnamed
    BY <1>1 DEF GoneTo, GenCalls, Unnamed
  <1>2. CASE r \in Named
    BY <1>2 DEF GoneTo, GenCalls, Named
  <1> QED
    BY <1>1, <1>2 DEF GenCalls

LEMMA FedRecord ==
  ASSUME NEW r \in GenCalls, NEW f \in Nat
  PROVE  LET x == [r EXCEPT !.fed = f] IN
         /\ x \in GenCalls /\ x.at = r.at /\ x.doing = r.doing /\ x.wants = r.wants /\ x.fed = f
         /\ x.prompt = r.prompt /\ x.weight = r.weight
  <1>1. CASE r \in Unnamed
    BY <1>1 DEF GenCalls, Unnamed
  <1>2. CASE r \in Named
    BY <1>2 DEF GenCalls, Named
  <1> QED
    BY <1>1, <1>2 DEF GenCalls

HeldAt(r, a, w) == [r EXCEPT !.at = a, !.weight = w]
Wanting(r, d, k) == [r EXCEPT !.at = "check", !.doing = d, !.wants = k, !.weight = "none"]

LEMMA GotoWithRecord ==
  ASSUME NEW r \in GenCalls, NEW a \in Spots, NEW w \in Kept
  PROVE  LET x == HeldAt(r, a, w) IN
         /\ x \in GenCalls /\ x.at = a /\ x.doing = r.doing /\ x.wants = r.wants /\ x.fed = r.fed
         /\ x.prompt = r.prompt /\ x.weight = w
  <1>1. CASE r \in Unnamed
    BY <1>1 DEF HeldAt, GenCalls, Unnamed
  <1>2. CASE r \in Named
    BY <1>2 DEF HeldAt, GenCalls, Named
  <1> QED
    BY <1>1, <1>2 DEF GenCalls

LEMMA WantsRecord ==
  ASSUME NEW r \in GenCalls, NEW d \in {"forward", "logits"}, NEW k \in Tensors
  PROVE  LET x == Wanting(r, d, k) IN
         /\ x \in GenCalls /\ x.at = "check" /\ x.doing = d /\ x.wants = k /\ x.fed = r.fed
         /\ x.prompt = r.prompt /\ x.weight = "none"
  <1>0. "check" \in Spots /\ "none" \in Kept
    BY DEF Spots, Kept
  <1>1. CASE r \in Unnamed
    BY <1>0, <1>1 DEF Wanting, GenCalls, Unnamed
  <1>2. CASE r \in Named
    BY <1>0, <1>2 DEF Wanting, GenCalls, Named
  <1> QED
    BY <1>1, <1>2 DEF GenCalls

LEMMA Becomes ==
  ASSUME GemTypes, NEW c \in Chats, NEW r \in GenCalls, chat' = [chat EXCEPT ![c] = r]
  PROVE  Now(c, r.at, r.doing, r.wants, r.fed, r.prompt, r.weight)
  BY DEF Now, GemTypes

LEMMA GotoIs ==
  ASSUME GemTypes, NEW c \in Chats, NEW a \in Spots, Goto(c, a)
  PROVE  Now(c, a, chat[c].doing, chat[c].wants, chat[c].fed, chat[c].prompt, chat[c].weight)
  <1> DEFINE x == GoneTo(chat[c], a)
  <1>1. chat[c] \in GenCalls /\ chat' = [chat EXCEPT ![c] = x]
    BY DEF GemTypes, Goto, GoneTo
  <1>2. /\ x \in GenCalls /\ x.at = a /\ x.doing = chat[c].doing /\ x.wants = chat[c].wants
        /\ x.fed = chat[c].fed /\ x.prompt = chat[c].prompt /\ x.weight = chat[c].weight
    BY <1>1, GotoRecord
  <1> HIDE DEF x
  <1>3. Now(c, x.at, x.doing, x.wants, x.fed, x.prompt, x.weight)
    BY <1>1, <1>2, Becomes
  <1> QED
    BY <1>2, <1>3 DEF Now

LEMMA GotoWithIs ==
  ASSUME GemTypes, NEW c \in Chats, NEW a \in Spots, NEW w \in Kept, GotoWith(c, a, w)
  PROVE  Now(c, a, chat[c].doing, chat[c].wants, chat[c].fed, chat[c].prompt, w)
  <1> DEFINE x == HeldAt(chat[c], a, w)
  <1>1. chat[c] \in GenCalls /\ chat' = [chat EXCEPT ![c] = x]
    BY DEF GemTypes, GotoWith, HeldAt
  <1>2. /\ x \in GenCalls /\ x.at = a /\ x.doing = chat[c].doing /\ x.wants = chat[c].wants
        /\ x.fed = chat[c].fed /\ x.prompt = chat[c].prompt /\ x.weight = w
    BY <1>1, GotoWithRecord
  <1> HIDE DEF x
  <1>3. Now(c, x.at, x.doing, x.wants, x.fed, x.prompt, x.weight)
    BY <1>1, <1>2, Becomes
  <1> QED
    BY <1>2, <1>3 DEF Now

LEMMA WantsAre ==
  ASSUME GemTypes, NEW c \in Chats, NEW d \in {"forward", "logits"}, NEW k \in Tensors
  PROVE  LET x == Wants(c, d, k) IN
         /\ x \in GenCalls /\ x.at = "check" /\ x.doing = d /\ x.wants = k
         /\ x.fed = chat[c].fed /\ x.prompt = chat[c].prompt /\ x.weight = "none"
  <1>1. chat[c] \in GenCalls
    BY DEF GemTypes
  <1>2. Wants(c, d, k) = Wanting(chat[c], d, k)
    BY DEF Wants, Wanting
  <1> QED
    BY <1>1, <1>2, WantsRecord

LEMMA WantsIs ==
  ASSUME GemTypes, NEW c \in Chats, NEW d \in {"forward", "logits"}, NEW k \in Tensors,
         chat' = [chat EXCEPT ![c] = Wants(c, d, k)]
  PROVE  Now(c, "check", d, k, chat[c].fed, chat[c].prompt, "none")
  <1> DEFINE x == Wants(c, d, k)
  <1>1. /\ x \in GenCalls /\ x.at = "check" /\ x.doing = d /\ x.wants = k
        /\ x.fed = chat[c].fed /\ x.prompt = chat[c].prompt /\ x.weight = "none"
    BY WantsAre
  <1> HIDE DEF x
  <1>2. Now(c, x.at, x.doing, x.wants, x.fed, x.prompt, x.weight)
    BY <1>1, Becomes DEF x
  <1> QED
    BY <1>1, <1>2 DEF Now

LEMMA QuietIs ==
  ASSUME GemTypes, NEW c \in Chats, chat' = [chat EXCEPT ![c] = Quiet]
  PROVE  Now(c, "idle", "forward", Globals, 0, 0, "none")
  <1>1. /\ Quiet \in GenCalls /\ Quiet.at = "idle" /\ Quiet.doing = "forward"
        /\ Quiet.wants = Globals /\ Quiet.fed = 0 /\ Quiet.prompt = 0 /\ Quiet.weight = "none"
    BY LayersAre DEF Quiet, GenCalls, Unnamed, Spots, Kept
  <1>2. Now(c, Quiet.at, Quiet.doing, Quiet.wants, Quiet.fed, Quiet.prompt, Quiet.weight)
    BY <1>1, Becomes
  <1> QED
    BY <1>1, <1>2 DEF Now

-----------------------------------------------------------------------------
(* What a step may take from the other calls: nothing they rely on.        *)

Grows ==
  /\ scaleFor = Tensors => scaleFor' = Tensors
  /\ closing # "open" => closing' # "open"
  /\ closing' = "open" =>
       \A k \in Tensors : /\ Held(k) = "whole" => Held(k)' = "whole"
                          /\ cache[k] = "whole" => cache'[k] = "whole"

LEMMA Untouched ==
  ASSUME GemInv, Grows, NEW e \in Chats, chat'[e] = chat[e], state'[e] = state[e]
  PROVE  Fetching(e)' /\ Past(e)'
  <1>1. chat[e].wants \in Tensors
    BY CallFields DEF GemInv, GemTypes
  <1>2. Fetching(e) /\ Past(e)
    BY DEF GemInv
  <1>3. Past(e)'
    BY <1>2 DEF Past
  <1>4. Fetching(e)'
    <2>1. chat'[e].at \in {"index", "file"} => scaleFor' = Tensors
      BY <1>2 DEF Fetching, Grows
    <2>2. chat'[e].at \in {"store", "attend", "sample", "keep"} => chat'[e].weight = "whole"
      BY <1>2 DEF Fetching
    <2>3. closing' = "open" =>
            /\ chat'[e].at = "return" => Held(chat[e].wants)' = "whole"
            /\ chat'[e].at = "take" => cache'[chat[e].wants] = "whole"
      BY <1>1, <1>2 DEF Fetching, Grows, Held
    <2>4. chat'[e].at = "failed" => chat'[e].fed = MaxSeqLen \/ closing' # "open"
      BY <1>2 DEF Fetching, Grows
    <2> QED
      BY <2>1, <2>2, <2>3, <2>4 DEF Fetching, Held
  <1> QED
    BY <1>3, <1>4

-----------------------------------------------------------------------------
(* A step of one call that leaves its rows alone.                          *)

Served(a, k, f, w) ==
  /\ a \in {"index", "file"} => scaleFor' = Tensors
  /\ a \in {"store", "attend", "sample", "keep"} => w = "whole"
  /\ closing' = "open" => /\ a = "return" => Held(k)' = "whole"
                          /\ a = "take" => cache'[k] = "whole"
  /\ a = "failed" => f = MaxSeqLen \/ closing' # "open"

LEMMA ServedIs ==
  ASSUME NEW c, NEW a, NEW d, NEW k, NEW f, NEW m, NEW w,
         Now(c, a, d, k, f, m, w), Served(a, k, f, w)
  PROVE  Fetching(c)'
  <1>1. chat'[c].at = a /\ chat'[c].wants = k /\ chat'[c].fed = f /\ chat'[c].weight = w
    BY DEF Now
  <1> QED
    BY <1>1 DEF Served, Fetching, Held

LEMMA StepOf ==
  ASSUME GemInv, Grows, NEW c \in Chats, NEW a, NEW d, NEW k, NEW f, NEW m, NEW w,
         Now(c, a, d, k, f, m, w), Served(a, k, f, w), WeightTypes',
         state' \in [Chats -> States], \A e \in Chats \ {c} : state'[e] = state[e], Past(c)'
  PROVE  GemInv'
  <1>1. GemTypes'
    BY DEF Now, GemTypes
  <1>2. Fetching(c)'
    BY ServedIs
  <1>3. ASSUME NEW e \in Chats \ {c} PROVE Fetching(e)' /\ Past(e)'
    <2>1. chat'[e] = chat[e] /\ state'[e] = state[e]
      BY DEF Now
    <2> QED
      BY <2>1, Untouched
  <1>4. \A e \in Chats : Fetching(e)' /\ Past(e)'
    BY <1>2, <1>3
  <1> QED
    BY <1>1, <1>4 DEF GemInv

\* Where a call that keeps its rows may go.
MovesOn(c, a, k) ==
  /\ chat[c].at # "idle" /\ a # "attend"
  /\ a = "store" => k \in Layers
  /\ k \in Layers => \/ k = 0
                     \/ k = chat[c].wants /\ chat[c].at \notin {"yield", "failed"}

LEMMA PastStill ==
  ASSUME GemInv, NEW c \in Chats, NEW a, NEW d, NEW k, NEW m, NEW w,
         Now(c, a, d, k, chat[c].fed, m, w), MovesOn(c, a, k), state'[c] = state[c]
  PROVE  Past(c)'
  <1>1. Past(c) /\ chat[c].at # "idle"
    BY DEF GemInv, MovesOn
  <1>2. /\ chat'[c].at = a /\ chat'[c].wants = k /\ chat'[c].fed = chat[c].fed
    BY DEF Now
  <1>3. \A l \in Layers : ~(l < 0)
    BY LayersAre
  <1>4. ASSUME NEW l \in Layers, k \in Layers, l < k \/ (l = k /\ a = "attend")
        PROVE  chat[c].at \notin {"yield", "failed"} /\ chat[c].wants \in Layers /\ l < chat[c].wants
    BY <1>3, <1>4 DEF MovesOn
  <1>5. /\ state'[c].pos = chat'[c].fed /\ chat'[c].fed <= MaxSeqLen
        /\ chat'[c].at # "attend"
        /\ chat'[c].at = "store" => chat'[c].wants \in Layers
    BY <1>1, <1>2 DEF Past, MovesOn
  <1>6. ASSUME NEW l \in Layers, l < Arch.kv_shared_first_layer
        PROVE  /\ \A p \in 0 .. chat'[c].fed - 1 : state'[c].kv[l][p] = Row(c, p)
               /\ (/\ chat'[c].at \notin {"yield", "failed"} /\ chat'[c].wants \in Layers
                   /\ \/ l < chat'[c].wants
                      \/ l = chat'[c].wants /\ chat'[c].at = "attend") =>
                   state'[c].kv[l][chat'[c].fed] = Row(c, chat'[c].fed)
    BY <1>1, <1>2, <1>4, <1>6 DEF Past
  <1> QED
    BY <1>5, <1>6 DEF Past

LEMMA StillStep ==
  ASSUME GemInv, Grows, NEW c \in Chats, NEW a, NEW d, NEW k, NEW m, NEW w,
         Now(c, a, d, k, chat[c].fed, m, w), Served(a, k, chat[c].fed, w), WeightTypes',
         MovesOn(c, a, k), state' = state
  PROVE  GemInv'
  <1>1. Past(c)'
    BY PastStill
  <1>2. state' \in [Chats -> States] /\ \A e \in Chats \ {c} : state'[e] = state[e]
    BY DEF GemInv, GemTypes
  <1> QED
    BY <1>1, <1>2, StepOf

LEMMA QuietStep ==
  ASSUME GemInv, Grows, NEW c \in Chats, chat' = [chat EXCEPT ![c] = Quiet], WeightTypes',
         state' = state
  PROVE  GemInv'
  <1>1. Now(c, "idle", "forward", Globals, 0, 0, "none")
    BY QuietIs DEF GemInv
  <1>2. Served("idle", Globals, 0, "none")
    BY DEF Served
  <1>3. Past(c)'
    BY <1>1 DEF Now, Past
  <1>4. state' \in [Chats -> States] /\ \A e \in Chats \ {c} : state'[e] = state[e]
    BY DEF GemInv, GemTypes
  <1> QED
    BY <1>1, <1>2, <1>3, <1>4, StepOf

LEMMA HandedStep ==
  ASSUME GemInv, Grows, NEW c \in Chats, chat[c].at \in {"return", "keep"},
         Handed(c, "whole"), WeightTypes', state' = state
  PROVE  GemInv'
  <1> PICK k \in Tensors : k = chat[c].wants
    BY CallFields DEF GemInv, GemTypes
  <1>0. /\ chat[c] \in GenCalls /\ GemTypes /\ "whole" \in Kept /\ "none" \in Kept
        /\ {"store", "sample", "check"} \subseteq Spots
    BY DEF GemInv, GemTypes, Kept, Spots
  <1>1. chat[c].at \notin {"idle", "yield", "failed"}
    BY <1>0, CallFields
  <1>2. CASE k \in Layers
    <2>1. Now(c, "store", chat[c].doing, k, chat[c].fed, chat[c].prompt, "whole")
      BY <1>0, <1>2, GotoWithIs DEF Handed
    <2>2. Served("store", k, chat[c].fed, "whole")
      BY DEF Served
    <2>3. MovesOn(c, "store", k)
      BY <1>1, <1>2 DEF MovesOn
    <2> QED
      BY <2>1, <2>2, <2>3, StillStep
  <1>3. CASE k \notin Layers /\ chat[c].doing = "logits"
    <2>1. Now(c, "sample", chat[c].doing, k, chat[c].fed, chat[c].prompt, "whole")
      BY <1>0, <1>3, GotoWithIs DEF Handed
    <2>2. Served("sample", k, chat[c].fed, "whole")
      BY DEF Served
    <2>3. MovesOn(c, "sample", k)
      BY <1>1, <1>3 DEF MovesOn
    <2> QED
      BY <2>1, <2>2, <2>3, StillStep
  <1>4. CASE k \notin Layers /\ chat[c].doing # "logits"
    <2>1. Now(c, "check", "forward", 0, chat[c].fed, chat[c].prompt, "none")
      BY <1>0, <1>4, LayersAre, WantsIs DEF Handed
    <2>2. Served("check", 0, chat[c].fed, "none")
      BY DEF Served
    <2>3. MovesOn(c, "check", 0)
      BY <1>1 DEF MovesOn
    <2> QED
      BY <2>1, <2>2, <2>3, StillStep
  <1> QED
    BY <1>2, <1>3, <1>4

-----------------------------------------------------------------------------
(* The steps of a call between two tensors.                                *)

LEMMA Shared ==
  ASSUME GemInv, UNCHANGED <<weights, closing>>
  PROVE  /\ Grows /\ WeightTypes'
         /\ \A k \in Tensors : Held(k)' = Held(k)
  BY DEF weights, Grows, Held, WeightTypes, GemInv, GemTypes

LEMMA HeldIs ==
  ASSUME GemInv, NEW k \in Tensors
  PROVE  Held(k) \in Kept /\ cache[k] \in Kept
  <1>1. /\ cache \in [Tensors -> Kept] /\ layerCache \in [Layers -> Kept] /\ globals \in Kept
        /\ k \in Layers \/ k = Globals
    BY LayersAre DEF GemInv, GemTypes, WeightTypes
  <1>2. CASE k = Globals
    BY <1>1, <1>2 DEF Held
  <1>3. CASE k # Globals
    BY <1>1, <1>3 DEF Held
  <1> QED
    BY <1>1, <1>2, <1>3

LEMMA CallIs ==
  ASSUME GemInv, NEW c \in Chats
  PROVE  /\ GemTypes /\ Fetching(c) /\ Past(c) /\ state[c] \in States
         /\ chat[c].at \in Spots /\ chat[c].doing \in {"forward", "logits"}
         /\ chat[c].wants \in Tensors /\ chat[c].fed \in Nat /\ chat[c].prompt \in Nat
         /\ chat[c].weight \in Kept
  BY CallFields DEF GemInv, GemTypes

LEMMA CheckStep == ASSUME GemInv, NEW c \in Chats, Check(c) PROVE GemInv'
  <1> PICK k \in Tensors : k = chat[c].wants
    BY CallIs
  <1>0. /\ GemTypes /\ Held(k) \in Kept /\ chat[c].at = "check"
        /\ {"probe", "return"} \subseteq Spots /\ state' = state
    BY CallIs, HeldIs DEF Spots, Check
  <1>1. Grows /\ WeightTypes' /\ Held(k)' = Held(k)
    BY Shared DEF Check
  <1>2. CASE Held(k) = "none"
    <2>1. Now(c, "probe", chat[c].doing, k, chat[c].fed, chat[c].prompt, chat[c].weight)
      BY <1>0, <1>2, GotoIs DEF Check
    <2>2. Served("probe", k, chat[c].fed, chat[c].weight) /\ MovesOn(c, "probe", k)
      BY <1>0 DEF Served, MovesOn
    <2> QED
      BY <1>0, <1>1, <2>1, <2>2, StillStep
  <1>3. CASE Held(k) # "none"
    <2>1. Now(c, "return", chat[c].doing, k, chat[c].fed, chat[c].prompt, chat[c].weight)
      BY <1>0, <1>3, GotoIs DEF Check
    <2>2. Held(k)' = "whole"
      BY <1>0, <1>1, <1>3 DEF Kept
    <2>3. Served("return", k, chat[c].fed, chat[c].weight)
      BY <2>2 DEF Served, Held
    <2>4. MovesOn(c, "return", k)
      BY <1>0 DEF MovesOn
    <2> QED
      BY <1>0, <1>1, <2>1, <2>3, <2>4, StillStep
  <1> QED
    BY <1>2, <1>3

LEMMA ReturnStep == ASSUME GemInv, NEW c \in Chats, Return(c) PROVE GemInv'
  <1> PICK k \in Tensors : k = chat[c].wants
    BY CallIs
  <1>0. /\ GemTypes /\ Held(k) \in Kept /\ chat[c].at = "return"
        /\ "failed" \in Spots /\ state' = state /\ closing' = closing
    BY CallIs, HeldIs DEF Spots, Return
  <1>1. Grows /\ WeightTypes'
    BY Shared DEF Return
  <1>2. CASE Held(k) = "none"
    <2>1. Now(c, "failed", chat[c].doing, k, chat[c].fed, chat[c].prompt, chat[c].weight)
      BY <1>0, <1>2, GotoIs DEF Return
    <2>2. closing # "open"
      BY <1>0, <1>2, CallIs DEF Fetching
    <2>3. Served("failed", k, chat[c].fed, chat[c].weight) /\ MovesOn(c, "failed", k)
      BY <1>0, <2>2 DEF Served, MovesOn
    <2> QED
      BY <1>0, <1>1, <2>1, <2>3, StillStep
  <1>3. CASE Held(k) # "none"
    <2>1. Held(k) = "whole"
      BY <1>0, <1>3 DEF Kept
    <2>2. Handed(c, "whole")
      BY <1>3, <2>1 DEF Return
    <2> QED
      BY <1>0, <1>1, <2>2, HandedStep
  <1> QED
    BY <1>2, <1>3

LEMMA ProbeStep == ASSUME GemInv, NEW c \in Chats, Probe(c) PROVE GemInv'
  <1> PICK k \in Tensors : k = chat[c].wants
    BY CallIs
  <1>0. /\ GemTypes /\ cache[k] \in Kept /\ chat[c].at = "probe"
        /\ {"scan", "take"} \subseteq Spots /\ state' = state /\ cache' = cache
    BY CallIs, HeldIs DEF Spots, Probe, weights
  <1>1. Grows /\ WeightTypes'
    BY Shared DEF Probe
  <1>2. CASE cache[k] = "none"
    <2>1. Now(c, "scan", chat[c].doing, k, chat[c].fed, chat[c].prompt, chat[c].weight)
      BY <1>0, <1>2, GotoIs DEF Probe
    <2>2. Served("scan", k, chat[c].fed, chat[c].weight) /\ MovesOn(c, "scan", k)
      BY <1>0 DEF Served, MovesOn
    <2> QED
      BY <1>0, <1>1, <2>1, <2>2, StillStep
  <1>3. CASE cache[k] # "none"
    <2>1. Now(c, "take", chat[c].doing, k, chat[c].fed, chat[c].prompt, chat[c].weight)
      BY <1>0, <1>3, GotoIs DEF Probe
    <2>2. cache'[k] = "whole"
      BY <1>0, <1>3 DEF Kept
    <2>3. Served("take", k, chat[c].fed, chat[c].weight) /\ MovesOn(c, "take", k)
      BY <1>0, <2>2 DEF Served, MovesOn
    <2> QED
      BY <1>0, <1>1, <2>1, <2>3, StillStep
  <1> QED
    BY <1>2, <1>3

LEMMA TakeStep == ASSUME GemInv, NEW c \in Chats, Take(c) PROVE GemInv'
  <1> PICK k \in Tensors : k = chat[c].wants
    BY CallIs
  <1>0. /\ GemTypes /\ cache[k] \in Kept /\ chat[c].at = "take"
        /\ {"failed", "keep"} \subseteq Spots /\ state' = state /\ closing' = closing
    BY CallIs, HeldIs DEF Spots, Take
  <1>1. Grows /\ WeightTypes'
    BY Shared DEF Take
  <1>2. CASE cache[k] = "none"
    <2>1. Now(c, "failed", chat[c].doing, k, chat[c].fed, chat[c].prompt, chat[c].weight)
      BY <1>0, <1>2, GotoIs DEF Take
    <2>2. closing # "open"
      BY <1>0, <1>2, CallIs DEF Fetching
    <2>3. Served("failed", k, chat[c].fed, chat[c].weight) /\ MovesOn(c, "failed", k)
      BY <1>0, <2>2 DEF Served, MovesOn
    <2> QED
      BY <1>0, <1>1, <2>1, <2>3, StillStep
  <1>3. CASE cache[k] # "none"
    <2>1. cache[k] = "whole" /\ "whole" \in Kept
      BY <1>0, <1>3 DEF Kept
    <2>2. Now(c, "keep", chat[c].doing, k, chat[c].fed, chat[c].prompt, "whole")
      BY <1>0, <1>3, <2>1, GotoWithIs DEF Take
    <2>3. Served("keep", k, chat[c].fed, "whole") /\ MovesOn(c, "keep", k)
      BY <1>0 DEF Served, MovesOn
    <2> QED
      BY <1>0, <1>1, <2>2, <2>3, StillStep
  <1> QED
    BY <1>2, <1>3

\* The index is marked as read only after the scales are in it.
LEMMA ScanStep == ASSUME GemInv, NEW c \in Chats, Scan(c) PROVE GemInv'
  <1> PICK k \in Tensors : k = chat[c].wants
    BY CallIs
  <1> DEFINE a == IF indexed THEN "file" ELSE "index"
  <1>0. /\ GemTypes /\ chat[c].at = "scan" /\ a \in Spots /\ state' = state
        /\ a \in {"index", "file"} /\ UNCHANGED <<indexed, cache, layerCache, globals, closing>>
    BY CallIs DEF Spots, Scan
  <1>1. Goto(c, a) /\ scaleFor' = Tensors
    BY CallIs DEF Scan, GemTypes, WeightTypes
  <1>2. Grows /\ WeightTypes'
    BY <1>0, <1>1 DEF Grows, Held, GemTypes, WeightTypes
  <1> HIDE DEF a
  <1>3. Now(c, a, chat[c].doing, k, chat[c].fed, chat[c].prompt, chat[c].weight)
    BY <1>0, <1>1, GotoIs
  <1>4. Served(a, k, chat[c].fed, chat[c].weight) /\ MovesOn(c, a, k)
    BY <1>0, <1>1 DEF Served, MovesOn
  <1> QED
    BY <1>0, <1>2, <1>3, <1>4, StillStep

LEMMA ScanEndsStep == ASSUME GemInv, NEW c \in Chats, ScanEnds(c) PROVE GemInv'
  <1> PICK k \in Tensors : k = chat[c].wants
    BY CallIs
  <1>0. /\ GemTypes /\ chat[c].at = "index" /\ "file" \in Spots /\ state' = state
        /\ indexed' = TRUE /\ UNCHANGED <<scaleFor, cache, layerCache, globals, closing>>
    BY CallIs DEF Spots, ScanEnds
  <1>1. scaleFor = Tensors
    BY <1>0, CallIs DEF Fetching
  <1>2. Grows /\ WeightTypes'
    BY <1>0, <1>1 DEF Grows, Held, GemTypes, WeightTypes
  <1>3. Now(c, "file", chat[c].doing, k, chat[c].fed, chat[c].prompt, chat[c].weight)
    BY <1>0, GotoIs DEF ScanEnds
  <1>4. Served("file", k, chat[c].fed, chat[c].weight) /\ MovesOn(c, "file", k)
    BY <1>0, <1>1 DEF Served, MovesOn
  <1> QED
    BY <1>0, <1>2, <1>3, <1>4, StillStep

LEMMA MapFileStep == ASSUME GemInv, NEW c \in Chats, MapFile(c) PROVE GemInv'
  <1> PICK k \in Tensors : k = chat[c].wants
    BY CallIs
  <1>0. /\ GemTypes /\ chat[c].at = "file" /\ "keep" \in Spots /\ state' = state
        /\ "whole" \in Kept /\ UNCHANGED <<indexed, scaleFor, layerCache, globals, closing>>
    BY CallIs DEF Spots, Kept, MapFile
  <1>1. scaleFor = Tensors
    BY <1>0, CallIs DEF Fetching
  <1>2. cache' = [cache EXCEPT ![k] = "whole"] /\ GotoWith(c, "keep", "whole")
    BY <1>0, <1>1 DEF MapFile
  <1>3. Grows /\ WeightTypes'
    BY <1>0, <1>2 DEF Grows, Held, GemTypes, WeightTypes
  <1>4. Now(c, "keep", chat[c].doing, k, chat[c].fed, chat[c].prompt, "whole")
    BY <1>0, <1>2, GotoWithIs
  <1>5. Served("keep", k, chat[c].fed, "whole") /\ MovesOn(c, "keep", k)
    BY <1>0 DEF Served, MovesOn
  <1> QED
    BY <1>0, <1>3, <1>4, <1>5, StillStep

LEMMA KeepStep == ASSUME GemInv, NEW c \in Chats, Keep(c) PROVE GemInv'
  <1> PICK k \in Tensors : k = chat[c].wants
    BY CallIs
  <1>0. /\ GemTypes /\ chat[c].at = "keep" /\ "return" \in Spots /\ state' = state
        /\ "whole" \in Kept /\ UNCHANGED <<indexed, scaleFor, cache, closing>>
    BY CallIs DEF Spots, Kept, Keep
  <1>1. chat[c].weight = "whole"
    BY <1>0, CallIs DEF Fetching
  <1>2. CASE k = Globals
    <2>1. globals' = "whole" /\ Goto(c, "return") /\ UNCHANGED layerCache
      BY <1>1, <1>2 DEF Keep
    <2>2. Grows /\ WeightTypes'
      BY <1>0, <2>1 DEF Grows, Held, GemTypes, WeightTypes
    <2>3. Now(c, "return", chat[c].doing, k, chat[c].fed, chat[c].prompt, chat[c].weight)
      BY <1>0, <2>1, GotoIs
    <2>4. Served("return", k, chat[c].fed, chat[c].weight)
      BY <1>2, <2>1 DEF Served, Held
    <2>5. MovesOn(c, "return", k)
      BY <1>0 DEF MovesOn
    <2> QED
      BY <1>0, <2>2, <2>3, <2>4, <2>5, StillStep
  <1>3. CASE k # Globals
    <2>1. layerCache' = [layerCache EXCEPT ![k] = "whole"] /\ Handed(c, "whole") /\ UNCHANGED globals
      BY <1>1, <1>3 DEF Keep
    <2>2. k \in Layers /\ Globals \notin Layers
      BY <1>0, <1>3, LayersAre
    <2>3. WeightTypes'
      BY <1>0, <2>1, <2>2 DEF GemTypes, WeightTypes
    <2>4. layerCache \in [Layers -> Kept] /\ layerCache'[k] = "whole"
      BY <1>0, <2>1, <2>2 DEF GemTypes, WeightTypes
    <2>5. \A j \in Tensors : Held(j) = "whole" => Held(j)' = "whole"
      <3>1. ASSUME NEW j \in Layers, layerCache[j] = "whole" PROVE layerCache'[j] = "whole"
        BY <2>1, <2>4, <3>1
      <3> QED
        BY <2>1, <3>1, LayersAre DEF Held
    <2>6. Grows
      BY <1>0, <2>5 DEF Grows
    <2> QED
      BY <1>0, <2>1, <2>3, <2>6, HandedStep
  <1> QED
    BY <1>2, <1>3

LEMMA SampleStep == ASSUME GemInv, NEW c \in Chats, Sample(c) PROVE GemInv'
  <1>0. GemTypes /\ chat[c].at = "sample" /\ state' = state /\ Globals \in Tensors
    BY CallIs, LayersAre DEF Sample
  <1>1. Grows /\ WeightTypes'
    BY Shared DEF Sample
  <1>2. CASE chat' = [chat EXCEPT ![c] = Wants(c, "forward", Globals)]
    <2>1. Now(c, "check", "forward", Globals, chat[c].fed, chat[c].prompt, "none")
      BY <1>0, <1>2, WantsIs
    <2>2. Served("check", Globals, chat[c].fed, "none") /\ MovesOn(c, "check", Globals)
      BY <1>0, LayersAre DEF Served, MovesOn
    <2> QED
      BY <1>0, <1>1, <2>1, <2>2, StillStep
  <1>3. CASE chat' = [chat EXCEPT ![c] = Quiet]
    BY <1>0, <1>1, <1>3, QuietStep
  <1> QED
    BY <1>2, <1>3 DEF Sample

LEMMA GoOnStep == ASSUME GemInv, NEW c \in Chats, GoOn(c) PROVE GemInv'
  <1>0. GemTypes /\ chat[c].at = "yield" /\ state' = state /\ Globals \in Tensors
    BY CallIs, LayersAre DEF GoOn
  <1>1. Grows /\ WeightTypes'
    BY Shared DEF GoOn
  <1>2. CASE chat' = [chat EXCEPT ![c] = Wants(c, "logits", Globals)]
    <2>1. Now(c, "check", "logits", Globals, chat[c].fed, chat[c].prompt, "none")
      BY <1>0, <1>2, WantsIs
    <2>2. Served("check", Globals, chat[c].fed, "none") /\ MovesOn(c, "check", Globals)
      BY <1>0, LayersAre DEF Served, MovesOn
    <2> QED
      BY <1>0, <1>1, <2>1, <2>2, StillStep
  <1>3. CASE chat' = [chat EXCEPT ![c] = Quiet]
    BY <1>0, <1>1, <1>3, QuietStep
  <1> QED
    BY <1>2, <1>3 DEF GoOn

LEMMA FailStep == ASSUME GemInv, NEW c \in Chats, Fail(c) PROVE GemInv'
  <1>1. Grows /\ WeightTypes'
    BY Shared DEF Fail
  <1> QED
    BY <1>1, QuietStep DEF Fail

-----------------------------------------------------------------------------
(* The steps that store a row or finish a token.                           *)

LEMMA RowStored ==
  ASSUME NEW s \in States, NEW k \in Layers, NEW f \in 0 .. MaxSeqLen - 1, NEW r \in Rows
  PROVE  LET t == [s EXCEPT !.kv[k][f] = r] IN
         /\ t \in States /\ t.pos = s.pos
         /\ \A l \in Layers, p \in 0 .. MaxSeqLen - 1 :
              t.kv[l][p] = IF l = k /\ p = f THEN r ELSE s.kv[l][p]
  BY DEF States

LEMMA EarlierRows ==
  ASSUME NEW n \in Nat, NEW f \in 0 .. n - 1
  PROVE  \A p \in 0 .. f - 1 : p \in 0 .. n - 1 /\ p # f
  OBVIOUS

LEMMA StoreStep == ASSUME GemInv, NEW c \in Chats, Store(c) PROVE GemInv'
  <1> PICK k \in Tensors : k = chat[c].wants
    BY CallIs
  <1> PICK f \in Nat : f = chat[c].fed
    BY CallIs
  <1>0. /\ GemTypes /\ chat[c].at = "store" /\ {"failed", "attend"} \subseteq Spots
        /\ closing' = closing /\ state[c] \in States /\ MaxSeqLen \in Nat
    BY CallIs, GemmaOK DEF Spots, Store
  <1>1. Grows /\ WeightTypes'
    BY Shared DEF Store
  <1>2. /\ k \in Layers /\ state[c].pos = f /\ f <= MaxSeqLen /\ chat[c].weight = "whole"
        /\ \A l \in Layers : l < Arch.kv_shared_first_layer =>
             /\ \A p \in 0 .. f - 1 : state[c].kv[l][p] = Row(c, p)
             /\ l < k => state[c].kv[l][f] = Row(c, f)
    BY <1>0, CallIs DEF Past, Fetching
  <1>3. CASE f >= MaxSeqLen
    <2>1. Goto(c, "failed") /\ state' = state
      BY <1>2, <1>3 DEF Store, StateOf
    <2>2. Now(c, "failed", chat[c].doing, k, chat[c].fed, chat[c].prompt, chat[c].weight)
      BY <1>0, <2>1, GotoIs
    <2>3. f = MaxSeqLen
      BY <1>0, <1>2, <1>3
    <2>4. Served("failed", k, chat[c].fed, chat[c].weight) /\ MovesOn(c, "failed", k)
      BY <1>0, <2>3 DEF Served, MovesOn
    <2> QED
      BY <1>1, <2>1, <2>2, <2>4, StillStep
  <1>4. CASE ~(f >= MaxSeqLen)
    <2>1. /\ Goto(c, "attend")
          /\ state' = IF k < Arch.kv_shared_first_layer
                      THEN [state EXCEPT ![c].kv[k][f] = Row(c, f)] ELSE state
      BY <1>2, <1>4 DEF Store, StateOf
    <2>2. Now(c, "attend", chat[c].doing, k, f, chat[c].prompt, "whole")
      BY <1>0, <1>2, <2>1, GotoIs
    <2>3. Served("attend", k, f, "whole")
      BY DEF Served
    <2>4. f \in 0 .. MaxSeqLen - 1 /\ Row(c, f) \in Rows
      BY <1>0, <1>4 DEF Row, Rows
    <2> DEFINE t == [state[c] EXCEPT !.kv[k][f] = Row(c, f)]
    <2>5. /\ t \in States /\ t.pos = state[c].pos
          /\ \A l \in Layers, p \in 0 .. MaxSeqLen - 1 :
               t.kv[l][p] = IF l = k /\ p = f THEN Row(c, f) ELSE state[c].kv[l][p]
      <3>1. state[c] \in States /\ k \in Layers /\ f \in 0 .. MaxSeqLen - 1 /\ Row(c, f) \in Rows
        BY <1>0, <1>2, <2>4
      <3> QED
        BY ONLY <3>1, RowStored, SMTT(30)
    <2>6. state' = IF k < Arch.kv_shared_first_layer THEN [state EXCEPT ![c] = t] ELSE state
      BY <2>1
    <2> HIDE DEF t
    <2>7. /\ state' \in [Chats -> States]
          /\ \A e \in Chats \ {c} : state'[e] = state[e]
          /\ state'[c] = IF k < Arch.kv_shared_first_layer THEN t ELSE state[c]
      BY <1>0, <2>5, <2>6 DEF GemTypes
    <2>8. state'[c].pos = f
      BY <1>2, <2>5, <2>7
    <2>9. ASSUME NEW l \in Layers, l < Arch.kv_shared_first_layer
          PROVE  /\ \A p \in 0 .. f - 1 : state'[c].kv[l][p] = Row(c, p)
                 /\ l < k \/ l = k => state'[c].kv[l][f] = Row(c, f)
      <3>0. \A p \in 0 .. f - 1 : p \in 0 .. MaxSeqLen - 1 /\ p # f
        BY <1>0, <2>4, EarlierRows
      <3>1. CASE k < Arch.kv_shared_first_layer
        <4>1. state'[c] = t
          BY <2>7, <3>1
        <4>2. \A p \in 0 .. f - 1 : t.kv[l][p] = Row(c, p)
          BY <1>2, <2>5, <2>9, <3>0
        <4>3. l < k \/ l = k => t.kv[l][f] = Row(c, f)
          BY <1>2, <2>4, <2>5, <2>9
        <4> QED
          BY <4>1, <4>2, <4>3
      <3>2. CASE ~(k < Arch.kv_shared_first_layer)
        BY <1>2, <2>7, <2>9, <3>2
      <3> QED
        BY <3>1, <3>2
    <2>10. f <= MaxSeqLen /\ f < MaxSeqLen
      BY <1>0, <1>4
    <2>11. Past(c)'
      <3>1. chat'[c].at = "attend" /\ chat'[c].wants = k /\ chat'[c].fed = f
        BY <2>2 DEF Now
      <3> QED
        BY <1>2, <2>8, <2>9, <2>10, <3>1 DEF Past
    <2> QED
      BY <1>1, <2>2, <2>3, <2>7, <2>11, StepOf
  <1> QED
    BY <1>3, <1>4

\* A token is done: its row is in every layer that stores one.
LEMMA TokenDone ==
  ASSUME GemInv, Grows, NEW c \in Chats, NEW a \in {"check", "yield"}, NEW d, NEW k, NEW f \in Nat,
         NEW m, NEW w, f = chat[c].fed, chat[c].at = "attend", chat[c].wants + 1 \notin Layers,
         Now(c, a, d, k, f + 1, m, w), a = "check" => k = Globals,
         state' = [state EXCEPT ![c].pos = @ + 1], WeightTypes'
  PROVE  GemInv'
  <1>1. /\ GemTypes /\ state[c] \in States /\ MaxSeqLen \in Nat /\ chat[c].wants \in Tensors
    BY CallIs, GemmaOK
  <1>2. /\ chat[c].wants \in Layers /\ state[c].pos = f /\ f < MaxSeqLen
        /\ \A l \in Layers : l < Arch.kv_shared_first_layer =>
             /\ \A p \in 0 .. f - 1 : state[c].kv[l][p] = Row(c, p)
             /\ l < chat[c].wants \/ l = chat[c].wants => state[c].kv[l][f] = Row(c, f)
    BY CallIs DEF Past
  <1>3. \A l \in Layers : l < chat[c].wants \/ l = chat[c].wants
    BY <1>2, GemmaOK DEF Layers
  <1> DEFINE t == [state[c] EXCEPT !.pos = @ + 1]
  <1>4. t \in States /\ t.pos = f + 1 /\ t.kv = state[c].kv
    BY <1>1, <1>2 DEF States
  <1>5. state' = [state EXCEPT ![c] = t]
    OBVIOUS
  <1> HIDE DEF t
  <1>6. /\ state' \in [Chats -> States] /\ state'[c] = t
        /\ \A e \in Chats \ {c} : state'[e] = state[e]
    BY <1>1, <1>4, <1>5 DEF GemTypes
  <1>7. Served(a, k, f + 1, w)
    BY DEF Served
  <1>8. /\ chat'[c].at = a /\ chat'[c].wants = k /\ chat'[c].fed = f + 1
    BY DEF Now
  <1>9. /\ state'[c].pos = f + 1 /\ f + 1 <= MaxSeqLen /\ state'[c].kv = state[c].kv
    BY <1>1, <1>2, <1>4, <1>6
  <1>10. \A p \in 0 .. (f + 1) - 1 : p \in 0 .. f - 1 \/ p = f
    OBVIOUS
  <1>11. ASSUME NEW l \in Layers, l < Arch.kv_shared_first_layer
         PROVE  \A p \in 0 .. (f + 1) - 1 : state[c].kv[l][p] = Row(c, p)
    BY <1>2, <1>3, <1>10, <1>11
  <1>12. ~(a \notin {"yield", "failed"} /\ k \in Layers)
    BY LayersAre
  <1>13. Past(c)'
    BY <1>8, <1>9, <1>11, <1>12 DEF Past
  <1> QED
    BY <1>6, <1>7, <1>13, StepOf

LEMMA AttendStep == ASSUME GemInv, NEW c \in Chats, Attend(c) PROVE GemInv'
  <1> PICK k \in Tensors : k = chat[c].wants
    BY CallIs
  <1> PICK f \in Nat : f = chat[c].fed
    BY CallIs
  <1>0. /\ GemTypes /\ chat[c].at = "attend" /\ "yield" \in Spots /\ closing' = closing
        /\ chat[c] \in GenCalls /\ Globals \in Tensors
    BY CallIs, LayersAre DEF Spots, Attend, GemTypes
  <1>1. Grows /\ WeightTypes'
    BY Shared DEF Attend
  <1>2. /\ k \in Layers /\ state[c].pos = f /\ f <= MaxSeqLen
        /\ \A l \in Layers : l < Arch.kv_shared_first_layer =>
             /\ \A p \in 0 .. f - 1 : state[c].kv[l][p] = Row(c, p)
             /\ l < k \/ l = k => state[c].kv[l][f] = Row(c, f)
    BY <1>0, CallIs DEF Past
  <1>3. CASE k + 1 \in Layers
    <2>1. chat' = [chat EXCEPT ![c] = Wants(c, "forward", k + 1)] /\ state' = state
      BY <1>3 DEF Attend
    <2>2. Now(c, "check", "forward", k + 1, f, chat[c].prompt, "none")
      BY <1>0, <1>3, <2>1, LayersAre, WantsIs
    <2>3. Served("check", k + 1, f, "none")
      BY DEF Served
    <2>4. \A l \in Layers : l < k + 1 => l < k \/ l = k
      BY <1>2 DEF Layers
    <2>5. chat'[c].at = "check" /\ chat'[c].wants = k + 1 /\ chat'[c].fed = f
      BY <2>2 DEF Now
    <2>6. Past(c)'
      BY <1>2, <2>1, <2>4, <2>5 DEF Past
    <2>7. state' \in [Chats -> States] /\ \A e \in Chats \ {c} : state'[e] = state[e]
      BY <1>0, <2>1 DEF GemTypes
    <2> QED
      BY <1>1, <2>2, <2>3, <2>6, <2>7, StepOf
  <1>4. CASE k + 1 \notin Layers
    <2> DEFINE r == IF f + 1 < chat[c].prompt THEN Wants(c, "forward", Globals)
                    ELSE IF f + 1 = chat[c].prompt THEN Wants(c, "logits", Globals)
                    ELSE GoneTo(chat[c], "yield")
               x == [r EXCEPT !.fed = f + 1]
    <2>1. chat' = [chat EXCEPT ![c] = x] /\ state' = [state EXCEPT ![c].pos = @ + 1]
      BY <1>4 DEF Attend, StateOf, GoneTo
    <2>2. r \in GenCalls /\ (r.at = "yield" \/ (r.at = "check" /\ r.wants = Globals))
      <3>1. CASE f + 1 < chat[c].prompt
        BY <1>0, <3>1, WantsAre
      <3>2. CASE ~(f + 1 < chat[c].prompt) /\ f + 1 = chat[c].prompt
        BY <1>0, <3>2, WantsAre
      <3>3. CASE ~(f + 1 < chat[c].prompt) /\ f + 1 # chat[c].prompt
        <4>1. r = GoneTo(chat[c], "yield")
          BY <3>3
        <4>2. GoneTo(chat[c], "yield") \in GenCalls /\ GoneTo(chat[c], "yield").at = "yield"
          BY <1>0, GotoRecord
        <4> QED
          BY <4>1, <4>2
      <3> QED
        BY <3>1, <3>2, <3>3
    <2> HIDE DEF r
    <2>3. x \in GenCalls /\ x.at = r.at /\ x.wants = r.wants /\ x.fed = f + 1
      BY <2>2, FedRecord
    <2> HIDE DEF x
    <2>4. Now(c, x.at, x.doing, x.wants, f + 1, x.prompt, x.weight)
      BY <1>0, <2>1, <2>3, Becomes
    <2>5. x.at \in {"check", "yield"} /\ (x.at = "check" => x.wants = Globals)
      BY <2>2, <2>3
    <2> QED
      BY <1>0, <1>1, <1>4, <2>1, <2>4, <2>5, TokenDone
  <1> QED
    BY <1>3, <1>4

LEMMA GenerateStep ==
  ASSUME GemInv, NEW c \in Chats, NEW name \in SessionNames, NEW prompt \in PromptLens,
         Generate(c, name, prompt)
  PROVE  GemInv'
  <1>1. Grows /\ WeightTypes'
    BY Shared DEF Generate
  <1> DEFINE r == [at |-> "check", doing |-> "forward", wants |-> Globals, fed |-> 0,
                   prompt |-> prompt, weight |-> "none", name |-> name]
  <1>2. /\ r.at = "check" /\ r.doing = "forward" /\ r.wants = Globals /\ r.fed = 0
        /\ r.prompt = prompt /\ r.weight = "none"
    OBVIOUS
  <1>3. r \in GenCalls
    BY LayersAre, GemmaOK DEF GenCalls, Named, Spots, Kept
  <1>4. chat' = [chat EXCEPT ![c] = r] /\ state' = [state EXCEPT ![c] = NewState]
    BY DEF Generate
  <1> HIDE DEF r
  <1>5. Now(c, "check", "forward", Globals, 0, prompt, "none")
    BY <1>2, <1>3, <1>4, Becomes, CallIs
  <1>6. Served("check", Globals, 0, "none")
    BY DEF Served
  <1>7. /\ state' \in [Chats -> States] /\ state'[c].pos = 0
        /\ \A e \in Chats \ {c} : state'[e] = state[e]
    BY <1>4, NewStateIs, CallIs DEF GemTypes
  <1>8. chat'[c].at = "check" /\ chat'[c].wants = Globals /\ chat'[c].fed = 0
    BY <1>5 DEF Now
  <1>9. 0 <= MaxSeqLen /\ \A p : p \notin 0 .. 0 - 1
    BY GemmaOK
  <1>10. Past(c)'
    BY <1>7, <1>8, <1>9, LayersAre DEF Past
  <1> QED
    BY <1>1, <1>5, <1>6, <1>7, <1>10, StepOf

LEMMA CloseStep == ASSUME GemInv, Close, UNCHANGED <<chat, state>> PROVE GemInv'
  <1>1. closing' # "open"
    BY DEF Close
  <1>2. WeightTypes' /\ scaleFor' = scaleFor
    BY DEF Close, weights, GemInv, GemTypes, WeightTypes, Kept
  <1>3. Grows
    BY <1>1, <1>2 DEF Grows
  <1>4. \A e \in Chats : Fetching(e)' /\ Past(e)'
    BY <1>3, Untouched
  <1> QED
    BY <1>2, <1>4 DEF GemInv, GemTypes

LEMMA GemInvStep == GemInv /\ [GemmaNext]_gemmaVars => GemInv'
  <1> SUFFICES ASSUME GemInv, [GemmaNext]_gemmaVars PROVE GemInv'
    OBVIOUS
  <1>1. CASE UNCHANGED gemmaVars
    <2>1. Grows /\ WeightTypes' /\ UNCHANGED <<chat, state>>
      BY <1>1, Shared DEF gemmaVars
    <2>2. \A e \in Chats : Fetching(e)' /\ Past(e)'
      BY <2>1, Untouched
    <2> QED
      BY <2>1, <2>2 DEF GemInv, GemTypes
  <1>2. CASE Close /\ UNCHANGED <<chat, state, calls>>
    BY <1>2, CloseStep
  <1>3. ASSUME NEW c \in Chats, NEW name \in SessionNames, NEW prompt \in PromptLens,
               Generate(c, name, prompt)
        PROVE  GemInv'
    BY <1>3, GenerateStep
  <1>4. ASSUME NEW c \in Chats,
               \/ Check(c) \/ Return(c) \/ Probe(c) \/ Take(c) \/ Scan(c) \/ ScanEnds(c)
               \/ MapFile(c) \/ Keep(c) \/ Store(c) \/ Attend(c) \/ Sample(c) \/ GoOn(c)
               \/ Fail(c)
        PROVE  GemInv'
    BY <1>4, CheckStep, ReturnStep, ProbeStep, TakeStep, ScanStep, ScanEndsStep, MapFileStep,
       KeepStep, StoreStep, AttendStep, SampleStep, GoOnStep, FailStep
  <1> QED
    BY <1>1, <1>2, <1>3, <1>4 DEF GemmaNext

-----------------------------------------------------------------------------
(* What it gives.                                                          *)

LEMMA SourceIs ==
  ASSUME NEW l \in Layers
  PROVE  /\ KvSourceLayer(Arch, l) \in Layers /\ KvSourceLayer(Arch, l) < Arch.kv_shared_first_layer
         /\ KvSourceLayer(Arch, l) < l \/ KvSourceLayer(Arch, l) = l
  <1>1. KvSourceLayer(Arch, l) \in Nat
    BY GemmaOK DEF KvSourceLayer, Layers
  <1>2. KvSourceLayer(Arch, l) <= l /\ KvSourceLayer(Arch, l) < Arch.kv_shared_first_layer
    BY GemmaOK DEF SharesSoundly, Layers
  <1> QED
    BY <1>1, <1>2, GemmaOK DEF Layers

LEMMA GemInvSafe == GemInv => ReadsOwnPast /\ WeightsWhole /\ FailsForCause
  <1> SUFFICES ASSUME GemInv PROVE ReadsOwnPast /\ WeightsWhole /\ FailsForCause
    OBVIOUS
  <1>1. WeightsWhole /\ FailsForCause
    BY DEF GemInv, Fetching, WeightsWhole, FailsForCause
  <1>2. ASSUME NEW c \in Chats, chat[c].at = "attend"
        PROVE  ReadForLayer(c, chat[c].wants) = [p \in 0 .. chat[c].fed |-> Row(c, p)]
    <2> DEFINE k == chat[c].wants
               f == chat[c].fed
               s == KvSourceLayer(Arch, k)
    <2>1. /\ k \in Layers /\ f \in Nat /\ state[c].pos = f
          /\ \A l \in Layers : l < Arch.kv_shared_first_layer =>
               /\ \A p \in 0 .. f - 1 : state[c].kv[l][p] = Row(c, p)
               /\ l < k \/ l = k => state[c].kv[l][f] = Row(c, f)
      BY <1>2, CallIs DEF Past
    <2>2. s \in Layers /\ s < Arch.kv_shared_first_layer /\ (s < k \/ s = k)
      BY <2>1, SourceIs
    <2> HIDE DEF k, f, s
    <2>3. \A p \in 0 .. f : p \in 0 .. f - 1 \/ p = f
      BY <2>1
    <2>4. \A p \in 0 .. f : state[c].kv[s][p] = Row(c, p)
      BY <2>1, <2>2, <2>3
    <2>5. ReadForLayer(c, k) = [p \in 0 .. f |-> state[c].kv[s][p]]
      BY <2>1 DEF ReadForLayer, StateOf, s
    <2>6. ReadForLayer(c, k) = [p \in 0 .. f |-> Row(c, p)]
      BY <2>4, <2>5
    <2> QED
      BY <2>6 DEF k, f
  <1> QED
    BY <1>1, <1>2 DEF ReadsOwnPast

-----------------------------------------------------------------------------
(* The two backends of a session.                                          *)

BackendsInv == NpuInv /\ GemInv

LEMMA BackendsInvStep == BackendsInv /\ [BackendsNext]_<<vars, gemmaVars, backend>> => BackendsInv'
  <1> SUFFICES ASSUME BackendsInv, [BackendsNext]_<<vars, gemmaVars, backend>> PROVE BackendsInv'
    OBVIOUS
  <1>1. [Next]_vars /\ [GemmaNext]_gemmaVars
    BY DEF BackendsNext
  <1> QED
    BY <1>1, NpuInvStep, GemInvStep DEF BackendsInv

\* Both invariants hold in every reachable state, whichever backend was
\* resolved.
THEOREM BackendsInvariant == BackendsSpec => []BackendsInv
  <1>1. BackendsInit => BackendsInv
    BY NpuInvInit, GemInvInit DEF BackendsInit, BackendsInv
  <1> QED
    BY <1>1, BackendsInvStep, PTL DEF BackendsSpec

\* A chat that had the device to itself since its reset reads a token that
\* comes of its own prompt and its own earlier tokens, and of nothing else.
THEOREM TokensOfOwnContext == BackendsSpec => []OwnContext
  <1>1. BackendsInv => OwnContext
    BY NpuInvSafe DEF BackendsInv
  <1> QED
    BY <1>1, BackendsInvariant, PTL

\* No token of the device is yielded twice, nor after a later one.
THEOREM TokensComeOnce == BackendsSpec => []TokenOnce
  <1>1. BackendsInv => TokenOnce
    BY NpuInvSafe DEF BackendsInv
  <1> QED
    BY <1>1, BackendsInvariant, PTL

\* The device executes LOAD_WEIGHT before anything else, and no more often
\* than chats can start before the flag is set and loads can time out.
THEOREM WeightsComeFirst == BackendsSpec => []WeightsFirst
  <1>1. BackendsInv => WeightsFirst
    BY NpuInvSafe DEF BackendsInv
  <1> QED
    BY <1>1, BackendsInvariant, PTL

\* For every layout of shared layers that SharesSoundly allows, a layer
\* attends to the rows of this chat's tokens, from the first to this one.
THEOREM LayersReadOwnPast == BackendsSpec => []ReadsOwnPast
  <1>1. BackendsInv => ReadsOwnPast
    BY GemInvSafe DEF BackendsInv
  <1> QED
    BY <1>1, BackendsInvariant, PTL

\* No chat computes with a tensor without its scale, whoever scanned the
\* directory, or with one that close() took away.
THEOREM WeightsAreWhole == BackendsSpec => []WeightsWhole
  <1>1. BackendsInv => WeightsWhole
    BY GemInvSafe DEF BackendsInv
  <1> QED
    BY <1>1, BackendsInvariant, PTL

\* A KeyError or an IndexError leaves generate() only when the session is
\* being closed or its positions have run out.
THEOREM FailuresHaveCause == BackendsSpec => []FailsForCause
  <1>1. BackendsInv => FailsForCause
    BY GemInvSafe DEF BackendsInv
  <1> QED
    BY <1>1, BackendsInvariant, PTL
=============================================================================
