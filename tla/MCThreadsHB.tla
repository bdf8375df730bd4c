----------------------------- MODULE MCThreadsHB ------------------------------
(* Instances of ThreadsHB for TLC. *)
EXTENDS ThreadsHB

ThreeThreads == 0 .. 2
FourThreads  == 0 .. 3
=============================================================================
