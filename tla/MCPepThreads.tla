---------------------------- MODULE MCPepThreads ----------------------------
(* PepThreads with finite constants: threads are interchangeable.          *)
EXTENDS PepThreads, TLC

ThreadSymmetry == Permutations(Threads)
=============================================================================
