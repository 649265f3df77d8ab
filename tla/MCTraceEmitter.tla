--------------------------- MODULE MCTraceEmitter ---------------------------
(* Small instances of TraceEmitter for TLC.                                *)
EXTENDS TraceEmitter, TLC

\* Slots are interchangeable, and so are sessions (sound: no liveness run).
Symmetry == Permutations(Subscribers) \cup Permutations(Sessions)
=============================================================================
