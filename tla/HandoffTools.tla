---------------------------- MODULE HandoffTools ----------------------------
(***************************************************************************)
(* tools/v002: generate_smoke_program.py writes a small program as memory  *)
(* words and as JSON, generate_driver_handoff.py turns the two files into  *)
(* the register writes of a hand-off and validates one.                    *)
(*                                                                         *)
(* A file is Absent, Torn (its writer stopped in the middle and what is    *)
(* left is no JSON), or its content. The tools' fields have the names the  *)
(* driver gives them, so that the two encoders can be compared.            *)
(***************************************************************************)
EXTENDS UcaEncoding, SequencesExt

ToolOpcode == [gemv |-> 0, gemm |-> 1, memcpy |-> 2, memset |-> 3, cvo |-> 4]

\* encode_gemm_like, encode_memcpy, encode_memset, encode_cvo
GemmLike ==
  [dest_reg |-> F(43, 17), src_addr |-> F(26, 17), flags |-> F(20, 6), size_ptr |-> F(14, 6),
   shape_ptr |-> F(8, 6), lanes |-> F(3, 5)]

ToolLayout ==
  [gemv |-> GemmLike, gemm |-> GemmLike,
   memcpy |-> [from_dev |-> F(59, 1), to_dev |-> F(58, 1), dest_addr |-> F(41, 17),
               src_addr |-> F(24, 17), aux_addr |-> F(7, 17), shape_ptr |-> F(1, 6),
               async |-> F(0, 1)],
   memset |-> [dest_cache |-> F(58, 2), dest_addr |-> F(52, 6), a |-> F(36, 16),
               b |-> F(20, 16), c |-> F(4, 16)],
   cvo |-> [cvo_func |-> F(56, 4), src_addr |-> F(39, 17), dst_addr |-> F(22, 17),
            length |-> F(6, 16), flags |-> F(1, 5), async |-> F(0, 1)]]

\* encode_flags
W_SCALE == 2 ^ 3
ACCM    == 2 ^ 4

Memset(ptr, x, y, z) ==
  [call |-> "memset", args |-> [dest_cache |-> 0, dest_addr |-> ptr, a |-> x, b |-> y, c |-> z]]
Memcpy(from, to, src, dest) ==
  [call |-> "memcpy", args |-> [from_dev |-> from, to_dev |-> to, dest_addr |-> dest,
                                src_addr |-> src, aux_addr |-> 0, shape_ptr |-> 3, async |-> 0]]
Matrix(op, dest, src, how, size, shape) ==
  [call |-> op, args |-> [dest_reg |-> dest, src_addr |-> src, flags |-> how, size_ptr |-> size,
                          shape_ptr |-> shape, lanes |-> 4]]

\* tiny_shape_lookup_program
TinyShapeLookup ==
  <<Memset(3, 1, 1, 9), Memset(9, 4, 4, 4),
    Memcpy(1, 0, 0, 100),
    Matrix("gemm", 512, 300, W_SCALE, 1, 3), Matrix("gemv", 768, 400, ACCM, 2, 9),
    [call |-> "cvo", args |-> [cvo_func |-> 5, src_addr |-> 768, dst_addr |-> 896,
                               length |-> 64, flags |-> 0, async |-> 0]],
    Memcpy(0, 1, 896, 0)>>

\* check_range of every field
InRange(i) == \A f \in DOMAIN i.args : i.args[f] < 2 ^ ToolLayout[i.call][f].width

\* instruction
ToolWord(i) ==
  Shift(BitsOf(ToolOpcode[i.call], 4), 60)
    \cup UNION {Shift(BitsOf(i.args[f], ToolLayout[i.call][f].width), ToolLayout[i.call][f].at)
                  : f \in DOMAIN i.args}

SmokeWords == [n \in DOMAIN TinyShapeLookup |-> ToolWord(TinyShapeLookup[n])]

\* The words the uCA driver issues when it is called with the same fields.
DriverWords ==
  [n \in DOMAIN TinyShapeLookup |->
     LET i == TinyShapeLookup[n]
     IN Word(i.call, [f \in UcaFields(i.call) |-> BitsOf(i.args[f], 17)])]

-----------------------------------------------------------------------------
(* The files. A .memh is what its lines say, a torn one a few of them, the *)
(* last perhaps short of half its digits.                                  *)

Absent == [kind |-> "absent"]
Torn   == [kind |-> "torn"]
Memh(words)             == [kind |-> "memh", words |-> words]
ProgramJson(words, claims) == [kind |-> "json", words |-> words, claims |-> claims]
Readable(file)          == file.kind = "json"

TornMemh ==
  {Memh(SubSeq(SmokeWords, 1, n)) : n \in {0, 5, 6}}
    \cup {Memh(Append(SubSeq(SmokeWords, 1, 6), Field(SmokeWords[7], 32, 32)))}

\* generate_smoke_program.py: how it may end, [ok, files]. The .memh comes
\* first, and a program of its own making claims nothing.
GenerateSmokeProgram(files) ==
  LET written == [files EXCEPT !.memh = Memh(SmokeWords)]
      stopped == {files} \cup {[files EXCEPT !.memh = torn] : torn \in TornMemh}
                   \cup {written, [written EXCEPT !.program = Torn]}
      done == [written EXCEPT !.program = ProgramJson(SmokeWords, FALSE)]
  IN {[ok |-> FALSE, files |-> f] : f \in stopped}
       \cup IF \A n \in DOMAIN TinyShapeLookup : InRange(TinyShapeLookup[n])
            THEN {[ok |-> TRUE, files |-> done]} ELSE {}

\* validate_program_payload: as many words, and the same.
Agrees_ZipOnly(program, memh) ==
  \A n \in DOMAIN program \cap DOMAIN memh : program[n] = memh[n]

Agrees(program, memh) ==
  /\ Len(program) = Len(memh)
  /\ \A n \in DOMAIN program : program[n] = memh[n]

\* expected_register_writes: the kick has bit 63.
RegisterWrites(words) ==
  Append([n \in DOMAIN words |-> [address |-> "instruction", value |-> words[n]]],
         [address |-> "kick", value |-> {63}])

Handoff(words, claims) ==
  [kind |-> "json", writes |-> RegisterWrites(words), claims |-> claims]

\* generate_driver_handoff.py: the ways it may end.
GenerateDriverHandoff(files) ==
  LET accepts == /\ Readable(files.program) /\ files.memh # Absent
                 /\ files.memh.words # <<>>
                 /\ Agrees(files.program.words, files.memh.words)
  IN {[ok |-> FALSE, files |-> files]}
       \cup IF ~accepts THEN {}
            ELSE {[ok |-> FALSE, files |-> [files EXCEPT !.handoff = Torn]],
                  [ok |-> TRUE, files |-> [files EXCEPT !.handoff =
                                             Handoff(files.program.words, files.program.claims)]]}
=============================================================================
