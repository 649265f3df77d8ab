--------------------------- MODULE NpuTokenRuntime ---------------------------
(***************************************************************************)
(* The NPU token path: GemmaInferenceSession._generate_with_npu            *)
(* (sw/runtime/gemma/inference.py), the NpuTokenRuntime it drives          *)
(* (npu/npu_core.py) and the simulated device of npu/sim_mmio.py.          *)
(*                                                                         *)
(* Every chat that generates runs its generator in a worker thread, and    *)
(* all of them share one session, one runtime and one device. Nothing      *)
(* locks: threads interleave at each access of the device and while a      *)
(* generator is paused at a yield. MaxActive says how many chats generate  *)
(* at once. The request id, sampling parameters and weight descriptors of  *)
(* a command have no effect on the simulated device and are left out.      *)
(***************************************************************************)
EXTENDS Naturals, Sequences, FiniteSets

CONSTANTS Threads,
          MaxActive,    \* workload: chats that generate at the same time
          PromptLen,    \* tokens of a prompt; generate() sends at least one
          MaxNewTokens,
          SimTokens,    \* tokens the simulated device hands out before it stops
          MaxTimeouts,  \* bound of the model: TimeoutErrors in a behaviour
          MaxContext    \* bound of the model: commands executed between two resets

ASSUME ConstantsOK ==
  /\ MaxActive \in Nat /\ SimTokens \in Nat
  /\ MaxTimeouts \in Nat /\ MaxContext \in Nat
  /\ PromptLen \in Nat \ {0} /\ MaxNewTokens \in Nat \ {0}

Stop == 0               \* a token of stop_tokens
NoToken == SimTokens + 1 \* a status without TOKEN_VALID
None == [op |-> "none"]

VARIABLES phase,        \* what a thread's generator is doing
          bus,          \* where its _submit_command is
          step,         \* prompt tokens loaded, then tokens yielded
          weightsLoaded, \* GemmaInferenceSession._npu_weights_loaded
          cmdIn,        \* TokenSimMmio.commands[-1]
          status,       \* token of TokenSimMmio.status_word; DONE is always set
          tokens,       \* length of TokenSimMmio.tokens
          context,      \* history: commands executed since the last reset
          weightsInL2,  \* history: the device executed a LOAD_WEIGHT
          loads,        \* history: weight loads the chats set out to do
          alone,        \* history: threads whose chat has had the device to itself
          yielded,      \* history: tokens yielded by such chats, in order
          timeouts      \* history: TimeoutErrors so far

vars == <<phase, bus, step, weightsLoaded, cmdIn, status, tokens, context,
          weightsInL2, loads, alone, yielded, timeouts>>

device == <<cmdIn, status, tokens, context, weightsInL2>>

Init ==
  /\ phase = [t \in Threads |-> "idle"]
  /\ bus = [t \in Threads |-> "write"]
  /\ step = [t \in Threads |-> 0]
  /\ weightsLoaded = FALSE
  /\ cmdIn = None
  /\ status = NoToken
  /\ tokens = SimTokens
  /\ context = <<>>
  /\ weightsInL2 = FALSE
  /\ loads = 0
  /\ alone = {}
  /\ yielded = <<>>
  /\ timeouts = 0

-----------------------------------------------------------------------------
Active == {t \in Threads : phase[t] # "idle"}

\* The generator moves on; a command it goes on to submit is yet to be written.
Goes(t, next, n) ==
  /\ phase' = [phase EXCEPT ![t] = next]
  /\ step' = [step EXCEPT ![t] = n]
  /\ bus' = [bus EXCEPT ![t] = "write"]

Command(t) ==
  [op |-> CASE phase[t] = "weights" -> "LOAD_WEIGHT"
            [] phase[t] = "reset" -> "RESET_KV_CACHE"
            [] phase[t] = "prompt" -> "LOAD_PROMPT"
            [] phase[t] = "next" -> "NEXT_TOKEN",
   by |-> t, n |-> step[t]]

\* t joins the chats that generate, and none of them is alone any more.
Enters(t) ==
  /\ alone' = IF Active = {} THEN {t} ELSE {}
  /\ loads' = IF phase'[t] = "weights" THEN loads + 1 ELSE loads

\* The first next(): _ensure_npu_prompt_loaded reads the flag.
Start_SkipReset(t) ==
  /\ phase[t] = "idle"
  /\ Cardinality(Active) < MaxActive
  /\ Goes(t, IF weightsLoaded THEN "prompt" ELSE "weights", 0)
  /\ Enters(t)
  /\ UNCHANGED <<weightsLoaded, device, yielded, timeouts>>

Start_MarksLoaded(t) ==
  /\ phase[t] = "idle"
  /\ Cardinality(Active) < MaxActive
  /\ Goes(t, IF weightsLoaded THEN "reset" ELSE "weights", 0)
  /\ Enters(t)
  /\ weightsLoaded' = TRUE
  /\ UNCHANGED <<device, yielded, timeouts>>

Start_AlwaysLoads(t) ==
  /\ phase[t] = "idle"
  /\ Cardinality(Active) < MaxActive
  /\ Goes(t, "weights", 0)
  /\ Enters(t)
  /\ UNCHANGED <<weightsLoaded, device, yielded, timeouts>>

Start(t) ==
  /\ phase[t] = "idle"
  /\ Cardinality(Active) < MaxActive
  /\ Goes(t, IF weightsLoaded THEN "reset" ELSE "weights", 0)
  /\ Enters(t)
  /\ UNCHANGED <<weightsLoaded, device, yielded, timeouts>>

\* write64(AXIL_CMD_IN, word): the command is appended to the list.
Write(t) ==
  /\ phase[t] \notin {"idle", "paused"}
  /\ bus[t] = "write"
  /\ cmdIn' = Command(t)
  /\ bus' = [bus EXCEPT ![t] = "kick"]
  /\ UNCHANGED <<phase, step, weightsLoaded, status, tokens, context,
                 weightsInL2, loads, alone, yielded, timeouts>>

Executed_Peeks(command) ==
  /\ tokens' = tokens
  /\ status' = IF command.op # "NEXT_TOKEN" THEN NoToken
               ELSE IF tokens = 0 THEN Stop ELSE SimTokens - tokens + 1
  /\ context' = IF command.op = "RESET_KV_CACHE" THEN <<command>>
                ELSE IF command.op = "LOAD_WEIGHT" THEN context
                ELSE Append(context, command)
  /\ weightsInL2' = (weightsInL2 \/ command.op = "LOAD_WEIGHT")

\* _execute: tokens are numbered in the order the device hands them out.
Executed(command) ==
  /\ tokens' = IF command.op = "NEXT_TOKEN" /\ tokens > 0 THEN tokens - 1 ELSE tokens
  /\ status' = IF command.op # "NEXT_TOKEN" THEN NoToken
               ELSE IF tokens = 0 THEN Stop ELSE SimTokens - tokens + 1
  /\ context' = IF command.op = "RESET_KV_CACHE" THEN <<command>>
                ELSE IF command.op = "LOAD_WEIGHT" THEN context
                ELSE Append(context, command)
  /\ weightsInL2' = (weightsInL2 \/ command.op = "LOAD_WEIGHT")

\* write64(AXIL_CMD_KICK, 1): the device executes the newest command, whoever
\* wrote it.
Kick(t) ==
  /\ bus[t] = "kick"
  /\ Len(context) < MaxContext
  /\ Executed(cmdIn)
  /\ bus' = [bus EXCEPT ![t] = "read"]
  /\ UNCHANGED <<phase, step, weightsLoaded, cmdIn, loads, alone, yielded, timeouts>>

\* The poll finds DONE, which only says that some command was executed.
WeightsDone(t) ==
  /\ phase[t] = "weights" /\ bus[t] = "read"
  /\ weightsLoaded' = TRUE
  /\ Goes(t, "reset", 0)
  /\ UNCHANGED <<device, loads, alone, yielded, timeouts>>

ResetDone(t) ==
  /\ phase[t] = "reset" /\ bus[t] = "read"
  /\ Goes(t, "prompt", 0)
  /\ UNCHANGED <<weightsLoaded, device, loads, alone, yielded, timeouts>>

PromptDone(t) ==
  /\ phase[t] = "prompt" /\ bus[t] = "read"
  /\ IF step[t] + 1 < PromptLen THEN Goes(t, "prompt", step[t] + 1) ELSE Goes(t, "next", 0)
  /\ UNCHANGED <<weightsLoaded, device, loads, alone, yielded, timeouts>>

\* run_one_token_step returned: the generator yields the token.
TokenYielded(t) ==
  /\ phase[t] = "next" /\ bus[t] = "read"
  /\ status \notin {NoToken, Stop}
  /\ yielded' = IF t \in alone THEN Append(yielded, status) ELSE yielded
  /\ Goes(t, "paused", step[t] + 1)
  /\ UNCHANGED <<weightsLoaded, device, loads, alone, timeouts>>

\* A stop token ends the generator; a status without a token raises.
TokenEnds(t) ==
  /\ phase[t] = "next" /\ bus[t] = "read"
  /\ status \in {NoToken, Stop}
  /\ Goes(t, "idle", 0)
  /\ UNCHANGED <<weightsLoaded, device, loads, alone, yielded, timeouts>>

\* The thread is not scheduled before the deadline of its poll.
TimesOut(t) ==
  /\ bus[t] = "read"
  /\ timeouts < MaxTimeouts
  /\ timeouts' = timeouts + 1
  /\ Goes(t, "idle", 0)
  /\ UNCHANGED <<weightsLoaded, device, loads, alone, yielded>>

\* encode_next_token refuses the client's temperature or top_p.
BadSampling(t) ==
  /\ phase[t] = "next" /\ bus[t] = "write"
  /\ Goes(t, "idle", 0)
  /\ UNCHANGED <<weightsLoaded, device, loads, alone, yielded, timeouts>>

\* next() after a yield.
Resume(t) ==
  /\ phase[t] = "paused"
  /\ IF step[t] < MaxNewTokens THEN Goes(t, "next", step[t]) ELSE Goes(t, "idle", 0)
  /\ UNCHANGED <<weightsLoaded, device, loads, alone, yielded, timeouts>>

\* The chat handler gave up and drops the generator.
Abandon(t) ==
  /\ phase[t] = "paused"
  /\ Goes(t, "idle", 0)
  /\ UNCHANGED <<weightsLoaded, device, loads, alone, yielded, timeouts>>

Next ==
  \E t \in Threads :
    \/ Start(t) \/ Resume(t) \/ Abandon(t)
    \/ Write(t) \/ Kick(t)
    \/ WeightsDone(t) \/ ResetDone(t) \/ PromptDone(t)
    \/ TokenYielded(t) \/ TokenEnds(t)
    \/ TimesOut(t) \/ BadSampling(t)

Spec == Init /\ [][Next]_vars

-----------------------------------------------------------------------------
\* What the NPU holds when t's n-th NEXT_TOKEN was executed on a clean state.
OwnCommands(t, n) ==
  [i \in 1 .. PromptLen + n + 1 |->
     IF i = 1 THEN [op |-> "RESET_KV_CACHE", by |-> t, n |-> 0]
     ELSE IF i <= PromptLen + 1 THEN [op |-> "LOAD_PROMPT", by |-> t, n |-> i - 2]
     ELSE [op |-> "NEXT_TOKEN", by |-> t, n |-> i - PromptLen - 2]]

(* npu/README.md: init_activation resets the NPU-resident KV state and     *)
(* loads the prompt, and NEXT_TOKEN returns the generated token. A chat    *)
(* that has the device to itself relies on it: when a step reads its       *)
(* token, the NPU has executed, since the last reset, this chat's prompt   *)
(* in order and its NEXT_TOKENs, and nothing else, whatever other chats    *)
(* left behind when they timed out or were abandoned.                      *)
OwnContext ==
  \A t \in alone :
    phase[t] = "next" /\ bus[t] = "read" => context = OwnCommands(t, step[t] + 1)

(* The device hands out every token once: no two steps of chats that had   *)
(* the device to themselves yield the same one.                            *)
TokenOnce == \A i, j \in DOMAIN yielded : i < j => yielded[i] < yielded[j]

(* No thread acts on the flag before the weights are there: the device     *)
(* executes LOAD_WEIGHT before anything else, however threads interleave.  *)
(* And weights are loaded into NPU L2 once (npu/README.md), nearly: the    *)
(* flag is tested without a lock and set when the load returned, so chats  *)
(* that start together may all load, and a load that timed out is          *)
(* repeated; it is never loaded again once a load has returned.            *)
WeightsFirst ==
  /\ context # <<>> => weightsInL2
  /\ loads <= MaxActive + timeouts
=============================================================================
