------------------------- MODULE MCEvidenceScripts -------------------------
(* Small instances of EvidenceScripts for TLC: two runs on the board; the  *)
(* candidate script has no parameters.                                     *)
EXTENDS EvidenceScripts
=============================================================================
