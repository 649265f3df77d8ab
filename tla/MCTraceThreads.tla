--------------------------- MODULE MCTraceThreads ---------------------------
(* Small instances of TraceThreads for TLC.                                *)
EXTENDS TraceThreads, TLC

\* Slots are interchangeable, and so are worker threads.
Symmetry == Permutations(Subscribers) \cup Permutations(Workers)
=============================================================================
