------------------------------- MODULE VClock -------------------------------
(***************************************************************************)
(* Vector clocks and the race relation of the thread model                 *)
(* (src/ZigLean/Mem/Basic.lean, namespace VClock, and racePair).           *)
(*                                                                         *)
(* The code keeps a clock as an array that reads as 0 past its end; here   *)
(* it is a total function on the thread ids.                               *)
(***************************************************************************)
EXTENDS Naturals

CONSTANT Thread     \* the thread ids; 0 is the main thread

Clock == [Thread -> Nat]

ZeroClock == [t \in Thread |-> 0]

(* One more recorded access (or fork, or join) of thread t. *)
Bump(c, t) == [c EXCEPT ![t] = @ + 1]

(* What a thread adopts when it observes another: the pointwise maximum. *)
MergeForgets(a, b) == a   \* mutant: the joiner keeps its own clock
Merge(a, b) == [t \in Thread |-> IF a[t] >= b[t] THEN a[t] ELSE b[t]]

(* a happened before b, or equals it. *)
ClockLe(a, b) == \A t \in Thread : a[t] <= b[t]

Concurrent(a, b) == ~ClockLe(a, b) /\ ~ClockLe(b, a)

-----------------------------------------------------------------------------

AccessKind == {"read", "write", "atomicRead", "atomicWrite"}

IsWrite(k)  == k \in {"write", "atomicWrite"}
IsAtomic(k) == k \in {"atomicRead", "atomicWrite"}

(* Two accesses to the same bytes with concurrent clocks are a data race:  *)
(* one of them writes and one of them is not atomic.                       *)
RacePairWrites(a, b) == IsWrite(a) /\ IsWrite(b)   \* mutant: reads never race
RacePair(a, b) == (IsWrite(a) \/ IsWrite(b)) /\ ~(IsAtomic(a) /\ IsAtomic(b))

=============================================================================
