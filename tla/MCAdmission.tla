---------------------------- MODULE MCAdmission -----------------------------
(* Guards that meet in small groups, for TLC: a budget of 4 slots, of which the *)
(* largest part of an elastic workload takes 2.                                 *)
EXTENDS Admission, TLC

Plain(w, declared, charge) ==
  [lane |-> "normal", declared |-> declared, charge |-> charge, ws |-> w, shared |-> FALSE,
   elastic |-> FALSE, base |-> NoGuard, again |-> FALSE]
InLane(k, l) == [k EXCEPT !.lane = l]
Again(k) == [k EXCEPT !.again = TRUE]

TheNobody == Plain("none", 1, 1)
Big == Plain("w1", 4, 4)
Measured == Plain("w2", 3, 1)
Twin == [Measured EXCEPT !.shared = TRUE]
Merge == InLane(Plain("w3", 2, 2), "merge")
MergeAll == InLane(Plain("w3", 4, 4), "merge")
Alone == InLane(Plain("w4", 4, 4), "exclusive")
Idle == InLane(Plain("w5", 2, 1), "background")
Fixed(w, n) == Plain(w, n, n)
Base(w) == [Plain(w, 1, 1) EXCEPT !.elastic = TRUE]
Part(w, b) == [Plain(w, 2, 1) EXCEPT !.base = b]
Meet(s) == [g \in Guard |-> IF g <= Len(s) THEN s[g] ELSE TheNobody]

\* Two measured workloads of one workspace and a head; drain tickets beside them;
\* elastic workloads with parts beside every lane.
Safe ==
  {Meet(s) : s \in
    { <<Big, Measured, Measured>>, <<Twin, Twin, Idle>>, <<Measured, Merge, Alone>>, <<Big, Alone, Idle>>,
      <<Base("e"), Part("e", 1), Merge>>, <<Base("e"), Part("e", 1), Big>>,
      <<Base("e"), Part("e", 1), Base("f"), Part("f", 3)>>,
      <<Base("e"), [Fixed("f", 2) EXCEPT !.elastic = TRUE]>>,
      <<Big, InLane(Fixed("w5", 2), "background"), InLane(Fixed("w6", 1), "background"), Fixed("w7", 1)>> }}

\* Commands that come again beside one that waits; parts beside every lane.
Progress ==
  {Meet(s) : s \in
    { <<Big, Again(Measured)>>, <<Measured, Again(Alone)>>, <<Base("e"), Part("e", 1), Again(Alone)>>,
      <<Base("e"), Part("e", 1), Big>>, <<Base("e"), Part("e", 1), Merge>> }}

\* A merge guard that does not fit beside the base of an elastic workload.
Stall == {Meet(<<Base("e"), Part("e", 1), MergeAll>>)}
=============================================================================
