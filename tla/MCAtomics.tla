---------------------------- MODULE MCAtomics -------------------------------
(* Instances of AtomicsHB for TLC. *)
EXTENDS AtomicsHB

ThreeThreads == 0 .. 2

X == {1}
Y == {2}
XY == {1, 2}

MixedLocs == {X, Y, XY}

Op(op, loc, ord) == [op |-> op, loc |-> loc, ord |-> ord, fail |-> "relaxed"]

(* Thread 1 passes x, written by a plain and an atomic write, through y to *)
(* main; thread 2's RMW of y continues the release sequence, but does not  *)
(* pass thread 2's own write of x; main may also read both at once.        *)
PassOps ==
  [t \in ThreeThreads |->
     CASE t = 1 -> {Op("write", X, "relaxed"), Op("store", X, "relaxed"), Op("store", Y, "release")}
       [] t = 2 -> {Op("rmw", Y, "relaxed"), Op("write", X, "relaxed")}
       [] t = 0 -> {Op("load", Y, "acquire"), Op("load", X, "relaxed"), Op("load", XY, "acquire")}]

(* Every operation on one location. *)
OneLocOps ==
  [t \in ThreeThreads |-> IF t = 2 THEN {} ELSE
     {[Op("cas", X, "acqRel") EXCEPT !.fail = "acquire"], Op("store", X, "release")}
       \cup IF t = 0 THEN {Op("casWeak", X, "relaxed"), Op("write", X, "relaxed")}
                     ELSE {Op("rmw", X, "relaxed"), Op("load", X, "acquire"), Op("read", X, "relaxed")}]

MixedOps ==
  [t \in ThreeThreads |->
     CASE t = 1 -> {Op("store", XY, "release"), Op("load", Y, "acquire")}
       [] t = 2 -> {Op("store", X, "relaxed"), Op("rmw", Y, "acqRel")}
       [] t = 0 -> {Op("load", XY, "acquire"), Op("store", X, "release"), Op("write", X, "relaxed")}]

Passing == {[ops |-> PassOps, vals |-> {0}, max |-> 5], [ops |-> OneLocOps, vals |-> {0, 1}, max |-> 4]}
Mixed   == {[ops |-> MixedOps, vals |-> {0}, max |-> 4]}
=============================================================================
