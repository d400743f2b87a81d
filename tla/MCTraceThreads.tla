---------------------------- MODULE MCTraceThreads ----------------------------
(* Instances of TraceThreads for TLC: receivers are alike, and so are tids.  *)
EXTENDS TraceThreads, TLC

Symmetry == Permutations(Receivers) \cup Permutations(Tids)
===============================================================================
