------------------------------- MODULE MCCas --------------------------------
(* Instances of Cas for TLC: a compiler, an export and a native build. *)
EXTENDS Cas

CONSTANTS P, Q, R, Z, A, N

Kinds == [k \in Key |-> CASE k = Z -> "zig" [] k = A -> "air" [] k = N -> "native"]
=============================================================================
