---------------------------- MODULE HostCommands ----------------------------
(***************************************************************************)
(* The 64-bit command words of the NPU and its status word, as the two     *)
(* hosts build and read them: sw/runtime/isa.py on Linux and               *)
(* sw/baremetal/npu_driver/npu_driver.c without an operating system.       *)
(*                                                                         *)
(* A value is the set of the positions of its one bits, so a mask is an    *)
(* intersection, a shift adds to every position and `|` is union.  Python  *)
(* rejects a field that is too wide; C cuts it down at the type of the     *)
(* parameter and at the mask of the encoder.  BareMetal sends the C words  *)
(* and reads them as Python does.                                          *)
(***************************************************************************)
EXTENDS BitFields

CommandNames == {"RESET_KV_CACHE", "LOAD_WEIGHT", "LOAD_PROMPT", "NEXT_TOKEN"}

Opcode == [RESET_KV_CACHE |-> {0}, LOAD_WEIGHT |-> {1}, LOAD_PROMPT |-> {0, 1}, NEXT_TOKEN |-> {2}]

(* Position and width of every field of the operand. *)
PyLayout ==
  [RESET_KV_CACHE |-> [session_id |-> F(0, 32)],
   LOAD_WEIGHT    |-> [weight_slot |-> F(48, 8), flags |-> F(40, 8),
                       descriptor_count |-> F(32, 8), manifest_id |-> F(0, 32)],
   LOAD_PROMPT    |-> [position |-> F(32, 24), token_id |-> F(0, 32)],
   NEXT_TOKEN     |-> [request_id |-> F(40, 16), sampling |-> F(32, 8),
                       temperature_q8_8 |-> F(16, 16), top_p_q8_8 |-> F(0, 16)]]

CLayout_FlagsSwapped ==
  [PyLayout EXCEPT !.LOAD_WEIGHT.flags.at = 32, !.LOAD_WEIGHT.descriptor_count.at = 40]

(* Where the C encoders shift the fields to; width is the narrower of the  *)
(* parameter's type and the encoder's mask.                                *)
CLayout ==
  [RESET_KV_CACHE |-> [session_id |-> F(0, 32)],
   LOAD_WEIGHT    |-> [weight_slot |-> F(48, 8), flags |-> F(40, 8),
                       descriptor_count |-> F(32, 8), manifest_id |-> F(0, 32)],
   LOAD_PROMPT    |-> [position |-> F(32, 24), token_id |-> F(0, 32)],
   NEXT_TOKEN     |-> [request_id |-> F(40, 16), sampling |-> F(32, 8),
                       temperature_q8_8 |-> F(16, 16), top_p_q8_8 |-> F(0, 16)]]

Fields(c) == DOMAIN PyLayout[c]

(* _check of every field. *)
Accepts(c, args) == \A f \in Fields(c) : args[f] \subseteq Bits(PyLayout[c][f].width)

(* _pack_command *)
PyWord(c, args) ==
  Shift(Opcode[c], 56) \union UNION {Shift(args[f], PyLayout[c][f].at) : f \in Fields(c)}

(* pack_host_command after the masks of the encoder. *)
CWord(c, args) ==
  LET operand == UNION {Shift(args[f] \cap Bits(CLayout[c][f].width), CLayout[c][f].at)
                          : f \in Fields(c)}
  IN  Shift(Opcode[c] \cap Bits(8), 56) \union (operand \cap Bits(56))

(* decode_command and the decode_* functions. *)
DecodedOpcode(word) == Field(word, 56, 8)

Decoded(word) ==
  LET c == CHOOSE c \in CommandNames : Opcode[c] = DecodedOpcode(word) IN
  [op |-> c, args |-> [f \in Fields(c) |-> Field(word, PyLayout[c][f].at, PyLayout[c][f].width)]]

-----------------------------------------------------------------------------
(* The status word: three flags, and a token that may be absent.           *)

BUSY == 0
DONE == 1
ERROR == 2
TOKEN_VALID == 3
TokenShift == 32

(* encode_status; "tokens" is empty or holds the one token. *)
EncodeStatus(flags, tokens) ==
  flags \union UNION {Shift(t, TokenShift) \union {TOKEN_VALID} : t \in tokens}

(* status_token in Python, pccx_npu_read_token in C: the tokens found. *)
PyToken(status) == IF TOKEN_VALID \in status THEN {Field(status, TokenShift, 32)} ELSE {}
CToken(status)  == IF TOKEN_VALID \notin status THEN {} ELSE {Field(status, TokenShift, 32)}
=============================================================================
