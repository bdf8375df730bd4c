----------------------------- MODULE ThreadsHB ------------------------------
(***************************************************************************)
(* Threads with a history of the happens-before order that does not use    *)
(* clocks: program order, the edge from a spawn to the child's first step, *)
(* and the edge from a thread's end to the join of it.  It is the          *)
(* reference that the vector clocks of the code are checked against.       *)
(***************************************************************************)
EXTENDS Threads

VARIABLES
  past,    \* past[t]: the accesses that happened before t's next step
  order    \* <<e, f>>: access e happened before access f

hvars == <<vars, past, order>>

(* An access is named by its thread and its number in that thread's clock. *)
Id(e) == <<e.tid, e.clock[e.tid]>>

HInit == Init /\ past = [t \in Thread |-> {}] /\ order = {}

HAccess(t, l, k) ==
  LET new == {Id(e) : e \in footprint' \ footprint}
  IN  /\ Access(t, l, k)
      /\ order' = order \cup (past[t] \X new)
      /\ past' = [past EXCEPT ![t] = @ \cup new]

HSpawn(t) ==
  /\ Spawn(t)
  /\ past' = [past EXCEPT ![size] = past[t]]
  /\ UNCHANGED order

HJoin(t) ==
  /\ Join(t)
  /\ past' = [past EXCEPT ![t] = @ \cup past[target[t]]]
  /\ UNCHANGED order

(* Every other step adds no edge and no access. *)
HQuiet(t) ==
  /\ \/ \E l \in Loc : Free(t, l)
     \/ \E u \in Thread : Detach(t, u)
     \/ \E u, v \in Thread : TransferHandle(t, u, v)
     \/ Yield(t)
     \/ StopAtSpawn(t)
     \/ \E u \in Thread : StopAtJoin(t, u)
     \/ End(t)
     \/ Resume(t)
     \/ SpawnFails(t)
     \/ JoinFails(t)
  /\ UNCHANGED <<past, order>>

HNext ==
  \E t \in Thread :
    \/ \E l \in Loc, k \in {"read", "write"} : HAccess(t, l, k)
    \/ HSpawn(t)
    \/ HJoin(t)
    \/ HQuiet(t)

HSpec == HInit /\ [][HNext]_hvars

-----------------------------------------------------------------------------
(* A recorded access is below a thread's clock exactly when it happened    *)
(* before the thread's next step, also for threads that were detached and  *)
(* handles that moved: no race is missed by a clock that is too large, and *)
(* no ordered pair is reported by one that is too small.                   *)
ClockIsHappensBefore ==
  \A e \in footprint, t \in Born : ClockLe(e.clock, clocks[t]) <=> Id(e) \in past[t]

(* While the run goes on no two conflicting accesses are unordered: a run  *)
(* that ends without an error and gave up no handle had no data race.      *)
NoRecordedRace ==
  NoneReleased =>
    \A e, f \in footprint :
      e.loc = f.loc /\ "write" \in {e.kind, f.kind} /\ e # f =>
        <<Id(e), Id(f)>> \in order \/ <<Id(f), Id(e)>> \in order

(* The end of a block is an error exactly when some access by another      *)
(* thread did not happen before it; the exemption of joined children in    *)
(* the code never hides such an access, also for handles that moved.       *)
FreeRacesExact ==
  \A t \in Thread, l \in Loc :
    Running(t) =>
      (FreeRaces(t, l) <=>
         \E e \in footprint : e.loc = l /\ e.tid # t /\ Id(e) \notin past[t])

(* The race checks are exact at an access and at the end of a block. *)
RacesExact == NoRecordedRace /\ FreeRacesExact

=============================================================================
