--------------------------- MODULE MCGemmaBackends ---------------------------
(* Small instances of GemmaBackends for TLC: two local and two global      *)
(* layers, one of each kind without K/V rows of its own.                   *)
EXTENDS GemmaBackends, TLC

MCArch == [num_layers |-> 4, kv_shared_first_layer |-> 2,
           global_kv_src_layer |-> 1, sliding_kv_src_layer |-> 0,
           rope_pattern |-> <<"LOCAL", "GLOBAL">>]

\* Threads are interchangeable.
Symmetry == Permutations(Threads)
=============================================================================
