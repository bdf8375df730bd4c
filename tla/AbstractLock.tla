---------------------------- MODULE AbstractLock ----------------------------
(***************************************************************************)
(* What a mutex promises: at most one holder, and whoever takes the lock   *)
(* has every finished critical section in its past.  The sections are      *)
(* named by the order in which they end.                                   *)
(***************************************************************************)
EXTENDS Integers

CONSTANTS Thread

VARIABLES
  holders,   \* the threads inside their critical section
  finished,  \* how many critical sections ended
  knows      \* the critical sections in each thread's past

Init ==
  /\ holders = {}
  /\ finished = 0
  /\ knows = [t \in Thread |-> {}]

Acquire(t) ==
  /\ holders = {}
  /\ holders' = {t}
  /\ knows' = [knows EXCEPT ![t] = 0 .. finished - 1]
  /\ UNCHANGED finished

Release(t) ==
  /\ holders = {t}
  /\ holders' = {}
  /\ finished' = finished + 1
  /\ knows' = [knows EXCEPT ![t] = 0 .. finished]

Next == \E t \in Thread : Acquire(t) \/ Release(t)

Spec == Init /\ [][Next]_<<holders, finished, knows>>
=============================================================================
