---------------------------- MODULE UcaEncoding ----------------------------
(* How sw/driver/uCA_v1_api.c packs the arguments of a call into a 64-bit  *)
(* instruction. Words are sets of bit positions.                           *)
EXTENDS BitFields

Calls == {"gemv", "gemm", "memcpy", "memset", "cvo"}

UcaOpcode == [gemv |-> {}, gemm |-> {0}, memcpy |-> {1}, memset |-> {0, 1}, cvo |-> {2}]

(* build_compute_instr, build_cvo_instr, uca_memcpy, uca_memset: position  *)
(* and mask of every field.                                                *)
ComputeLayout ==
  [dest_reg |-> F(43, 17), src_addr |-> F(26, 17), flags |-> F(20, 6),
   size_ptr |-> F(14, 6), shape_ptr |-> F(8, 6), lanes |-> F(3, 5)]

Layout ==
  [gemv   |-> ComputeLayout,
   gemm   |-> ComputeLayout,
   memcpy |-> [from_dev |-> F(59, 1), to_dev |-> F(58, 1), dest_addr |-> F(41, 17),
               src_addr |-> F(24, 17), shape_ptr |-> F(1, 6), async |-> F(0, 1)],
   memset |-> [dest_cache |-> F(58, 2), dest_addr |-> F(52, 6), a |-> F(36, 16),
               b |-> F(20, 16), c |-> F(4, 16)],
   cvo    |-> [cvo_func |-> F(56, 4), src_addr |-> F(39, 17), dst_addr |-> F(22, 17),
               length |-> F(6, 16), flags |-> F(1, 5), async |-> F(0, 1)]]

UcaFields(call) == DOMAIN Layout[call]

Word(call, args) ==
  Shift(UcaOpcode[call], 60)
    \union UNION {Shift(args[f] \cap Bits(Layout[call][f].width), Layout[call][f].at)
                    : f \in UcaFields(call)}

(* The UCA_ROUTE_* codes: upper nibble from_dev, lower nibble to_dev.      *)
Routes ==
  {[from_dev |-> {},     to_dev |-> {0}],     \* HOST_TO_L2
   [from_dev |-> {0},    to_dev |-> {}],      \* L2_TO_HOST
   [from_dev |-> {0},    to_dev |-> {1}],     \* L2_TO_L1_GEMM
   [from_dev |-> {0},    to_dev |-> {0, 1}],  \* L2_TO_L1_GEMV
   [from_dev |-> {0, 1}, to_dev |-> {0}],     \* GEMV_RES_TO_L2
   [from_dev |-> {1},    to_dev |-> {0}],     \* GEMM_RES_TO_L2
   [from_dev |-> {2},    to_dev |-> {0}]}     \* CVO_RES_TO_L2
=============================================================================
