------------------------------ MODULE MCTasks ------------------------------
(* Instances of Tasks: the groups are interchangeable. *)
EXTENDS Tasks, TLC

CONSTANTS G, H, W

ThreeThreads == 0 .. 2
TwoThreads   == 0 .. 1

Groups == Permutations(Group)

(* Every call with spawns that may fail, and groups in tasks of groups.    *)
Passing ==
  { [calls |-> AllCalls, wakes |-> {1, 2}, policy |-> "fallible", cpus |-> 0, max |-> 6],
    [calls |-> {"waitCancelable", "concurrent", "async", "await", "cancel"}, wakes |-> {1},
     policy |-> "available", cpus |-> 2, max |-> 9] }

(* A task in a cancelable wait, and its cancel.                            *)
CancelWait ==
  { [calls |-> {"waitCancelable", "async", "cancel", "checkCancel"}, wakes |-> {1},
     policy |-> "available", cpus |-> 0, max |-> 5] }
=============================================================================
