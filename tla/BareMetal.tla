----------------------------- MODULE BareMetal -----------------------------
(***************************************************************************)
(* The program sw/baremetal/gemma_inference.c on the register driver       *)
(* npu_driver.c: reset the KV cache, load the weights, load the prompt,    *)
(* ask for one token, and return at the first command that fails.          *)
(*                                                                         *)
(* The NPU is external: KICK makes it busy with the word in its            *)
(* instruction register, which it reads as isa.py does, and it completes   *)
(* the command, with or without an error, at any later time or never.      *)
(* Caches are not coherent: the NPU reads memory, and the program writes   *)
(* to its data cache.                                                      *)
(***************************************************************************)
EXTENDS HostCommands, Integers, Sequences

CONSTANTS
  SessionIds,    \* values GEMMA_SESSION_ID may be built with
  ManifestIds,   \* values GEMMA_MANIFEST_ID may be built with
  Characters,    \* the byte a prompt may repeat
  PromptLength,  \* characters of the prompt, at most GEMMA_MAX_PROMPT_TOKENS
  PollLimit,     \* GEMMA_POLL_LIMIT
  Tokens         \* tokens the NPU may answer with

ASSUME BareMetalAssumption ==
  /\ \A v \in SessionIds \union ManifestIds \union Tokens : v \subseteq Bits(32)
  /\ \A c \in Characters : c \subseteq Bits(8)
  /\ PromptLength \in 0..16 /\ PollLimit \in Nat \ {0}

Buffers == {"weight stage", "weight descriptors"}

VARIABLES
  build,        \* the constants the image was built with
  next,         \* index in Program of the command main is about
  at,           \* "issue", "kick", "wait", "readback" or "returned"
  polls,        \* polls wait_idle has left
  rc,           \* what main returned
  token,        \* g_generated_tokens[0], as a set of at most one token
  dirty,        \* buffers of which the data cache holds unwritten lines
  instruction,  \* the NPU's instruction register
  status,       \* its status register
  executed,     \* the commands it completed
  weightsRead   \* it read the weights and descriptors the program wrote

cpuVars == <<build, next, at, polls, rc, token, dirty>>
npuVars == <<instruction, status, executed, weightsRead>>
vars == <<cpuVars, npuVars>>

(* The commands of main, in order, with their operands. *)
Command(op, args) == [op |-> op, args |-> args]

Program ==
  <<Command("RESET_KV_CACHE", [session_id |-> build.session]),
    Command("LOAD_WEIGHT", [weight_slot |-> {}, descriptor_count |-> {2},
                            manifest_id |-> build.manifest, flags |-> {}])>>
    \o [i \in 1..PromptLength |->
          Command("LOAD_PROMPT", [position |-> BitsOf(i - 1, 4), token_id |-> build.character])]
    \o <<Command("NEXT_TOKEN", [request_id |-> {}, sampling |-> {},
                                temperature_q8_8 |-> {}, top_p_q8_8 |-> {8}])>>

Builds == [session : SessionIds, manifest : ManifestIds, character : Characters]

(* The boot cookie and the memory layout are in order.                     *)
Init ==
  /\ build \in Builds
  /\ next = 1 /\ at = "issue" /\ polls = 0 /\ rc = 0 /\ token = {}
  /\ dirty = Buffers
  /\ instruction = {} /\ status = {} /\ executed = <<>> /\ weightsRead = FALSE

Current == Program[next]

(* gemma_prepare_weight_descriptors and the flushes of gemma_load_weights  *)
(* come before LOAD_WEIGHT.                                                *)
Flushed_DescriptorsOnly == IF Current.op = "LOAD_WEIGHT" THEN dirty \ {"weight descriptors"} ELSE dirty

Flushed == IF Current.op = "LOAD_WEIGHT" THEN {} ELSE dirty

(* pccx_npu_issue_word: the word, then the kick.                           *)
IssueWord ==
  /\ at = "issue"
  /\ dirty' = Flushed
  /\ instruction' = CWord(Current.op, Current.args)
  /\ at' = "kick"
  /\ UNCHANGED <<build, next, polls, rc, token, status, executed, weightsRead>>

Kick ==
  /\ at = "kick"
  /\ status' = EncodeStatus({BUSY}, {})
  /\ at' = "wait"
  /\ polls' = PollLimit
  /\ UNCHANGED <<build, next, rc, token, dirty, instruction, executed, weightsRead>>

Return(code) == at' = "returned" /\ rc' = code

(* gemma_load_prompt and gemma_forward_one_token hide the code of          *)
(* wait_idle.                                                              *)
ReturnCode(code) == IF Current.op \in {"LOAD_PROMPT", "NEXT_TOKEN"} THEN -1 ELSE code

(* One poll of pccx_npu_wait_idle that finds an error,                     *)
PollError ==
  /\ at = "wait" /\ polls > 0 /\ ERROR \in status
  /\ Return(ReturnCode(-2))
  /\ UNCHANGED <<build, next, polls, token, dirty, npuVars>>

(* ... that finds the NPU idle: main goes on, after NEXT_TOKEN with        *)
(* pccx_npu_read_token,                                                    *)
PollIdle ==
  /\ at = "wait" /\ polls > 0 /\ ERROR \notin status /\ BUSY \notin status
  /\ IF next < Len(Program)
     THEN next' = next + 1 /\ at' = "issue" /\ UNCHANGED <<rc, token>>
     ELSE IF CToken(status) = {}
          THEN Return(-1) /\ UNCHANGED <<next, token>>
          ELSE token' = CToken(status) /\ at' = "readback" /\ UNCHANGED <<next, rc>>
  /\ UNCHANGED <<build, polls, dirty, npuVars>>

(* ... and that finds it busy.                                             *)
PollBusy_Forever ==
  /\ at = "wait" /\ polls > 0 /\ ERROR \notin status /\ BUSY \in status
  /\ polls' = polls
  /\ UNCHANGED <<build, next, at, rc, token, dirty, npuVars>>

PollBusy ==
  /\ at = "wait" /\ polls > 0 /\ ERROR \notin status /\ BUSY \in status
  /\ polls' = polls - 1
  /\ UNCHANGED <<build, next, at, rc, token, dirty, npuVars>>

PollLimitReached_GoesOn ==
  /\ at = "wait" /\ polls = 0
  /\ IF next < Len(Program) THEN next' = next + 1 /\ at' = "issue" /\ UNCHANGED rc
                            ELSE Return(-1) /\ UNCHANGED next
  /\ UNCHANGED <<build, polls, token, dirty, npuVars>>

PollLimitReached ==
  /\ at = "wait" /\ polls = 0
  /\ Return(ReturnCode(-1))
  /\ UNCHANGED <<build, next, polls, token, dirty, npuVars>>

(* gemma_readback *)
Readback ==
  /\ at = "readback"
  /\ Return(0)
  /\ UNCHANGED <<build, next, polls, token, dirty, npuVars>>

(* The NPU completes its command; only NEXT_TOKEN may bring a token.       *)
NpuCompletes ==
  /\ BUSY \in status
  /\ LET command == Decoded(instruction) IN
     /\ executed' = Append(executed, command)
     /\ weightsRead' = IF command.op = "LOAD_WEIGHT" THEN dirty = {} ELSE weightsRead
     /\ \/ status' = EncodeStatus({DONE, ERROR}, {})
        \/ status' = EncodeStatus({DONE}, {})
        \/ command.op = "NEXT_TOKEN" /\ \E t \in Tokens : status' = EncodeStatus({DONE}, {t})
  /\ UNCHANGED <<cpuVars, instruction>>

CpuStep == IssueWord \/ Kick \/ PollError \/ PollIdle \/ PollBusy \/ PollLimitReached \/ Readback

Next == CpuStep \/ NpuCompletes

-----------------------------------------------------------------------------
(* Properties.                                                             *)

\* The two hosts agree about every word: what the bare-metal driver writes
\* is the word isa.py builds from the same fields, which isa.py accepts, and
\* both find the same token in a status word.
HostsAgree ==
  /\ at \in {"kick", "wait"} =>
       /\ Accepts(Current.op, Current.args)
       /\ instruction = PyWord(Current.op, Current.args)
  /\ PyToken(status) = CToken(status)

\* The NPU executes the commands of main in their order, with their
\* operands, none twice and none left out.
InOrder == executed = SubSeq(Program, 1, Len(executed)) /\ Len(executed) <= Len(Program)

\* When main returns 0, every command was executed, the weights the NPU
\* loaded are those the program wrote, and the token is the one it returned,
\* token 0 too.
SuccessIsComplete ==
  (at = "returned" /\ rc = 0) =>
    executed = Program /\ weightsRead /\ token = PyToken(status) /\ token # {}

=============================================================================
