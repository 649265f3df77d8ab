---------------------------- MODULE GemmaSession ----------------------------
(***************************************************************************)
(* The CPU path of GemmaInferenceSession (sw/runtime/gemma/inference.py):  *)
(* a generate() call feeds the prompt and then what it samples through the *)
(* layers (attention.py, decoder_layer.py), whose weights GemmaWeights     *)
(* (weights.py) maps when they are first used.                             *)
(*                                                                         *)
(* Each chat runs its generator in a worker thread. Nothing locks: chats   *)
(* share the weights, and interleave with one another and with close(),    *)
(* which the event loop calls, at every look into a shared dictionary.     *)
(* One tensor stands for a layer's 24 and one for the global ones; a       *)
(* tensor is "whole" if it came with its scale, "packed" if without. Row   *)
(* contents are who stored a row for which of its tokens; the arithmetic   *)
(* is left out.                                                            *)
(***************************************************************************)
EXTENDS Naturals, Sequences

CONSTANTS Chats,         \* generate() calls that may run at once
          SessionNames,  \* session_id, chosen by the client
          Arch,          \* the fields of GemmaArch that route the K/V cache
          MaxSeqLen,     \* positions of a K/V cache (1024)
          PromptLens,    \* workload: tokens of a prompt
          MaxTokens,     \* workload: max_new_tokens
          MaxCalls       \* bound of the model: generate() calls

Layers == 0 .. Arch.num_layers - 1
Globals == Arch.num_layers  \* the key of the global tensors
Tensors == Layers \cup {Globals}

RopeKind(arch, l) == arch.rope_pattern[(l % Len(arch.rope_pattern)) + 1]

KvSourceLayer(arch, l) ==
  IF l < arch.kv_shared_first_layer THEN l
  ELSE IF RopeKind(arch, l) = "GLOBAL" THEN arch.global_kv_src_layer
                                       ELSE arch.sliding_kv_src_layer

GemmaE4B == [num_layers |-> 35, kv_shared_first_layer |-> 20,
             global_kv_src_layer |-> 19, sliding_kv_src_layer |-> 18,
             rope_pattern |-> <<"LOCAL", "LOCAL", "LOCAL", "LOCAL", "GLOBAL">>]

\* A layer that stores no K/V reads those of an earlier layer that does and
\* that turned them by the same angles. GemmaArch.validate does not ask it.
SharesSoundly(arch) ==
  \A l \in 0 .. arch.num_layers - 1 :
    LET src == KvSourceLayer(arch, l) IN
    /\ src <= l /\ src < arch.kv_shared_first_layer
    /\ RopeKind(arch, src) = RopeKind(arch, l)

ASSUME GemmaOK ==
  /\ {Arch.num_layers, Arch.kv_shared_first_layer,
      Arch.global_kv_src_layer, Arch.sliding_kv_src_layer} \subseteq Nat
  /\ SharesSoundly(Arch) /\ SharesSoundly(GemmaE4B)
  /\ MaxSeqLen \in Nat \ {0} /\ MaxTokens \in Nat \ {0} /\ MaxCalls \in Nat
  /\ PromptLens \subseteq Nat \ {0}

VARIABLES indexed,    \* GemmaWeights._index is set
          scaleFor,   \* tensors with an entry in _scale_for
          cache,      \* GemmaWeights._cache
          layerCache, \* GemmaWeights._layer_cache
          globals,    \* GemmaInferenceSession._globals
          sessions,   \* GemmaInferenceSession._sessions
          closing,    \* how far close() is
          chat,       \* locals of a generate() call
          state,      \* the state it made: the next position and the K/V cache
          calls       \* generate() calls so far

weights == <<indexed, scaleFor, cache, layerCache, globals>>
gemmaVars == <<weights, sessions, closing, chat, state, calls>>

Quiet == [at |-> "idle", doing |-> "forward", wants |-> Globals,
          fed |-> 0, prompt |-> 0, weight |-> "none"]
Row(c, n) == [by |-> c, token |-> n]

\* _new_state: a K/V cache of zeros.
NewState ==
  [pos |-> 0, kv |-> [l \in Layers |-> [p \in 0 .. MaxSeqLen - 1 |-> Row("nobody", 0)]]]

GemmaInit ==
  /\ indexed = FALSE /\ scaleFor = {}
  /\ cache = [k \in Tensors |-> "none"]
  /\ layerCache = [l \in Layers |-> "none"]
  /\ globals = "none"
  /\ sessions = [s \in SessionNames |-> {}]
  /\ closing = "open"
  /\ chat = [c \in Chats |-> Quiet]
  /\ state = [c \in Chats |-> NewState]
  /\ calls = 0

-----------------------------------------------------------------------------
Goto(c, at) == chat' = [chat EXCEPT ![c].at = at]
GotoWith(c, at, w) == chat' = [chat EXCEPT ![c].at = at, ![c].weight = w]

\* The next tensor c needs: _global_weights or get_layer is called for it.
Wants(c, doing, k) ==
  [chat[c] EXCEPT !.at = "check", !.doing = doing, !.wants = k, !.weight = "none"]

\* The state generate() goes on with is the one it made.
StateOf_Session(c) ==
  IF sessions[chat[c].name] = {} THEN c ELSE CHOOSE d \in sessions[chat[c].name] : TRUE

StateOf(c) == c

\* generate() up to its first token. A chat's thread is free again once the
\* generator ended or was dropped.
Generate(c, name, prompt) ==
  /\ chat[c].at = "idle"
  /\ closing = "open" /\ calls < MaxCalls
  /\ calls' = calls + 1
  /\ state' = [state EXCEPT ![c] = NewState]
  /\ sessions' = [sessions EXCEPT ![name] = {c}]
  /\ chat' = [chat EXCEPT ![c] =
                [at |-> "check", doing |-> "forward", wants |-> Globals, fed |-> 0,
                 prompt |-> prompt, weight |-> "none", name |-> name]]
  /\ UNCHANGED <<weights, closing>>

Held(k) == IF k = Globals THEN globals ELSE layerCache[k]

\* `is None`, `in self._layer_cache`.
Check(c) ==
  /\ chat[c].at = "check"
  /\ Goto(c, IF Held(chat[c].wants) = "none" THEN "probe" ELSE "return")
  /\ UNCHANGED <<weights, sessions, closing, state, calls>>

\* The tensor is in the hands of _forward_one_token or _decode_logits.
Handed(c, w) ==
  IF chat[c].wants \in Layers THEN GotoWith(c, "store", w)
  ELSE IF chat[c].doing = "logits" THEN GotoWith(c, "sample", w)
  ELSE chat' = [chat EXCEPT ![c] = Wants(c, "forward", 0)]

\* What was there is returned, unless close() took it away in between.
Return(c) ==
  /\ chat[c].at = "return"
  /\ IF Held(chat[c].wants) = "none" THEN Goto(c, "failed")
                                     ELSE Handed(c, Held(chat[c].wants))
  /\ UNCHANGED <<weights, sessions, closing, state, calls>>

\* load_key: `if key in self._cache`,
Probe(c) ==
  /\ chat[c].at = "probe"
  /\ Goto(c, IF cache[chat[c].wants] = "none" THEN "scan" ELSE "take")
  /\ UNCHANGED <<weights, sessions, closing, state, calls>>

\* ... `return self._cache[key]`, the same,
Take(c) ==
  /\ chat[c].at = "take"
  /\ IF cache[chat[c].wants] = "none" THEN Goto(c, "failed")
                                      ELSE GotoWith(c, "keep", cache[chat[c].wants])
  /\ UNCHANGED <<weights, sessions, closing, state, calls>>

Scan_IndexFirst(c) ==
  /\ chat[c].at = "scan"
  /\ indexed' = TRUE
  /\ Goto(c, IF indexed THEN "file" ELSE "index")
  /\ UNCHANGED <<scaleFor, cache, layerCache, globals, sessions, closing, state, calls>>

\* ... _scan: the files and which of them are scales,
Scan(c) ==
  /\ chat[c].at = "scan"
  /\ IF indexed THEN Goto(c, "file") /\ UNCHANGED scaleFor
                ELSE Goto(c, "index") /\ scaleFor' = Tensors
  /\ UNCHANGED <<indexed, cache, layerCache, globals, sessions, closing, state, calls>>

ScanEnds(c) ==
  /\ chat[c].at = "index"
  /\ indexed' = TRUE
  /\ Goto(c, "file")
  /\ UNCHANGED <<scaleFor, cache, layerCache, globals, sessions, closing, state, calls>>

\* ... and the mapped file, with its scale if _scale_for names one.
MapFile(c) ==
  /\ chat[c].at = "file"
  /\ LET k == chat[c].wants
         w == IF k \in scaleFor THEN "whole" ELSE "packed"
     IN  /\ cache' = [cache EXCEPT ![k] = w]
         /\ GotoWith(c, "keep", w)
  /\ UNCHANGED <<indexed, scaleFor, layerCache, globals, sessions, closing, state, calls>>

Keep_OneLayer(c) ==
  /\ chat[c].at = "keep"
  /\ LET k == chat[c].wants IN
     IF k = Globals
     THEN globals' = chat[c].weight /\ Goto(c, "return") /\ UNCHANGED layerCache
     ELSE layerCache' = [l \in Layers |-> IF l = k THEN chat[c].weight ELSE "none"]
          /\ Handed(c, chat[c].weight) /\ UNCHANGED globals
  /\ UNCHANGED <<indexed, scaleFor, cache, sessions, closing, state, calls>>

\* load_globals and get_layer keep what they built; _global_weights then
\* returns the attribute, get_layer the dictionary in its hands.
Keep(c) ==
  /\ chat[c].at = "keep"
  /\ LET k == chat[c].wants IN
     IF k = Globals
     THEN globals' = chat[c].weight /\ Goto(c, "return") /\ UNCHANGED layerCache
     ELSE layerCache' = [layerCache EXCEPT ![k] = chat[c].weight]
          /\ Handed(c, chat[c].weight) /\ UNCHANGED globals
  /\ UNCHANGED <<indexed, scaleFor, cache, sessions, closing, state, calls>>

\* project_qkv: the layers before the shared ones store a row.
Store(c) ==
  /\ chat[c].at = "store"
  /\ LET l == chat[c].wants
         pos == state[StateOf(c)].pos
     IN  IF pos >= MaxSeqLen THEN Goto(c, "failed") /\ UNCHANGED state
         ELSE /\ Goto(c, "attend")
              /\ state' = IF l < Arch.kv_shared_first_layer
                          THEN [state EXCEPT ![StateOf(c)].kv[l][pos] = Row(c, chat[c].fed)]
                          ELSE state
  /\ UNCHANGED <<weights, sessions, closing, calls>>

\* The K/V rows that layer l attends to.
ReadForLayer(c, l) ==
  LET s == state[StateOf(c)] IN [p \in 0 .. s.pos |-> s.kv[KvSourceLayer(Arch, l)][p]]

\* The rest of the layer; after the last one the token is done.
Attend(c) ==
  /\ chat[c].at = "attend"
  /\ LET l == chat[c].wants
         fed == chat[c].fed + 1
     IN  IF l + 1 \in Layers
         THEN chat' = [chat EXCEPT ![c] = Wants(c, "forward", l + 1)] /\ UNCHANGED state
         ELSE /\ state' = [state EXCEPT ![StateOf(c)].pos = @ + 1]
              /\ chat' = [chat EXCEPT ![c] =
                   [IF fed < chat[c].prompt THEN Wants(c, "forward", Globals)
                    ELSE IF fed = chat[c].prompt THEN Wants(c, "logits", Globals)
                    ELSE [chat[c] EXCEPT !.at = "yield"] EXCEPT !.fed = fed]]
  /\ UNCHANGED <<weights, sessions, closing, calls>>

\* A token is sampled and fed, or it is a stop token.
Sample(c) ==
  /\ chat[c].at = "sample"
  /\ \/ chat' = [chat EXCEPT ![c] = Wants(c, "forward", Globals)]
     \/ chat' = [chat EXCEPT ![c] = Quiet]
  /\ UNCHANGED <<weights, sessions, closing, state, calls>>

\* The generator is resumed, or dropped with its chat.
GoOn(c) ==
  /\ chat[c].at = "yield"
  /\ \/ /\ chat[c].fed - chat[c].prompt < MaxTokens
        /\ chat' = [chat EXCEPT ![c] = Wants(c, "logits", Globals)]
     \/ chat' = [chat EXCEPT ![c] = Quiet]
  /\ UNCHANGED <<weights, sessions, closing, state, calls>>

\* The exception leaves the generator.
Fail(c) ==
  /\ chat[c].at = "failed"
  /\ chat' = [chat EXCEPT ![c] = Quiet]
  /\ UNCHANGED <<weights, sessions, closing, state, calls>>

\* GemmaInferenceSession.close and GemmaWeights.close.
Close ==
  \/ /\ closing = "open" /\ closing' = "sessions"
     /\ sessions' = [s \in SessionNames |-> {}]
     /\ UNCHANGED weights
  \/ /\ closing = "sessions" /\ closing' = "globals"
     /\ globals' = "none"
     /\ UNCHANGED <<indexed, scaleFor, cache, layerCache, sessions>>
  \/ /\ closing = "globals" /\ closing' = "cache"
     /\ cache' = [k \in Tensors |-> "none"]
     /\ UNCHANGED <<indexed, scaleFor, layerCache, globals, sessions>>
  \/ /\ closing = "cache" /\ closing' = "closed"
     /\ layerCache' = [l \in Layers |-> "none"]
     /\ UNCHANGED <<indexed, scaleFor, cache, globals, sessions>>

GemmaNext ==
  \/ \E c \in Chats :
       \/ \E name \in SessionNames, prompt \in PromptLens : Generate(c, name, prompt)
       \/ Check(c) \/ Return(c) \/ Probe(c) \/ Take(c) \/ Scan(c) \/ ScanEnds(c)
       \/ MapFile(c) \/ Keep(c) \/ Store(c) \/ Attend(c) \/ Sample(c) \/ GoOn(c)
       \/ Fail(c)
  \/ Close /\ UNCHANGED <<chat, state, calls>>

GemmaSpec == GemmaInit /\ [][GemmaNext]_gemmaVars

-----------------------------------------------------------------------------
\* What a layer attends to is what this chat stored for its own tokens, the
\* first to the current one, each in its place: no row of another chat in
\* the same session, of an earlier answer, or that nobody wrote.
ReadsOwnPast ==
  \A c \in Chats : chat[c].at = "attend" =>
    ReadForLayer(c, chat[c].wants) = [p \in 0 .. chat[c].fed |-> Row(c, p)]

\* No chat computes with integers whose scale another thread had yet to
\* find, or with weights that close() took away.
WeightsWhole ==
  \A c \in Chats : chat[c].at \in {"store", "attend", "sample", "keep"} =>
    chat[c].weight = "whole"

\* A chat fails because it runs out of positions or because the session is
\* being closed, and never because it shares the weights with another.
FailsForCause ==
  \A c \in Chats : chat[c].at = "failed" =>
    chat[c].fed = MaxSeqLen \/ closing # "open"
=============================================================================
