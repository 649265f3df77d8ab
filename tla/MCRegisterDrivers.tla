-------------------------- MODULE MCRegisterDrivers --------------------------
(* Small instances of RegisterDrivers for TLC. Operands of the program: no *)
(* bit, the lowest, the highest and every bit set. uCA calls: each field alone *)
(* with its highest bit, or all but one; every route of a memcpy.          *)
(* DataMover commands: the edges of every field, two tags, and what Fits   *)
(* refuses.                                                                *)
EXTENDS RegisterDrivers

Edges(width) == {{}, {0}, {width - 1}, Bits(width)}

MCSessionIds == Edges(32)
MCManifestIds == Edges(32)
MCCharacters == {{0}, {6}, Bits(7)}
MCTokens == {{}, {31}}

Top(call, f) == {Layout[call][f].width - 1}

MCArgsOf(call) ==
  IF call = "memcpy"
  THEN {[f \in UcaFields(call) |-> IF f \in DOMAIN r THEN r[f]
                                ELSE IF f \in high THEN Top(call, f) ELSE {}] :
          r \in Routes, high \in SUBSET {"dest_addr", "src_addr", "async"}}
  ELSE {[f \in UcaFields(call) |-> IF f \in high THEN Top(call, f) ELSE {}] :
          high \in UNION {{{f}, UcaFields(call) \ {f}} : f \in UcaFields(call)}}

MCCommandArgs ==
  [addr : {{0, 31}}, tag : {{}, {0, 3}, {4}}, length : {{}, {0, 22}}, eof : {{}, {0}}]
=============================================================================
