------------------------------ MODULE Threads -------------------------------
(***************************************************************************)
(* The scheduler of a concurrent run (src/ZigLean/Conc/Sched.lean) over    *)
(* the thread table, the vector clocks and the race check of the memory    *)
(* (src/ZigLean/Mem/Thread.lean, src/ZigLean/Mem/Basic.lean).              *)
(*                                                                         *)
(* The program is the most general client of the thread operations: the    *)
(* running thread makes plain accesses, frees blocks, detaches and         *)
(* transfers handles, and stops at a spawn, a join or a yield; the         *)
(* scheduler picks any thread that can go on, does its operation and lets  *)
(* it run to its next stop.  Plain code between two stops is never         *)
(* interleaved with another thread.  An error in any thread is the outcome *)
(* of the run.                                                             *)
(*                                                                         *)
(* A location stands for one block of one byte.  Tasks of an Io.Group      *)
(* (gated threads) are not in this module.                                 *)
(***************************************************************************)
EXTENDS VClock, FiniteSets

CONSTANTS
  Loc,          \* memory blocks that the program accesses
  Policy,       \* Env.spawn: "available" or "fallible"
  SpawnLimit,   \* Mem.spawnLimit: children per caller under "fallible"
  CanDetach,    \* the program calls Thread.detach
  CanTransfer,  \* the program transfers join handles
  MaxAccess     \* bound on the recorded accesses of one run

ASSUME ThreadAssumption ==
  /\ 0 \in Thread
  /\ Thread \subseteq Nat
  /\ \A t \in Thread : 0 .. t \subseteq Thread
ASSUME EnvAssumption ==
  /\ Policy \in {"available", "fallible"}
  /\ SpawnLimit \in Nat
  /\ CanDetach \in BOOLEAN
  /\ CanTransfer \in BOOLEAN
  /\ MaxAccess \in Nat

VARIABLES
  size,       \* m.threads.size: the id of the next thread
  current,    \* m.current: the thread that runs, or ran last
  pc,         \* where each thread is: its stop, running, or done
  target,     \* the handle that a thread stopped at a join waits for
  owner,      \* ThreadRec.spawner: who may join or detach the handle
  joined,     \* ThreadRec.joined: the handle was consumed
  released,   \* ThreadRec.released: consumed without a join edge
  clocks,     \* m.clocks
  footprint,  \* m.footprint: every recorded access
  live,       \* the live blocks
  outcome     \* "running", or the result of the run

table  == <<size, owner, joined, released>>
memory == <<clocks, footprint, live>>
vars   == <<size, current, pc, target, owner, joined, released, clocks,
            footprint, live, outcome>>

Born == {t \in Thread : t < size}

Stops == {"yield", "spawn", "join"}

Entry == [tid : Thread, clock : Clock, loc : Loc, kind : AccessKind]

TypeOK ==
  /\ size \in Nat \ {0}
  /\ current \in Thread
  /\ pc \in [Thread -> Stops \cup {"unborn", "run", "done"}]
  /\ target \in [Thread -> Thread]
  /\ owner \in [Thread -> Thread]
  /\ joined \in [Thread -> BOOLEAN]
  /\ released \in [Thread -> BOOLEAN]
  /\ clocks \in [Thread -> Clock]
  /\ footprint \subseteq Entry
  /\ live \subseteq Loc
  /\ outcome \in {"running", "ok", "illegal"}
  /\ \A t \in Thread : pc[t] = "unborn" <=> t \notin Born
  /\ \A t \in Thread : owner[t] \in Born

(* The memory has one thread record, consumed, and main runs first. *)
Init ==
  /\ size = 1
  /\ current = 0
  /\ pc = [t \in Thread |-> IF t = 0 THEN "run" ELSE "unborn"]
  /\ target = [t \in Thread |-> 0]
  /\ owner = [t \in Thread |-> 0]
  /\ joined = [t \in Thread |-> t = 0]
  /\ released = [t \in Thread |-> FALSE]
  /\ clocks = [t \in Thread |-> ZeroClock]
  /\ footprint = {}
  /\ live = Loc
  /\ outcome = "running"

Running(t) == outcome = "running" /\ pc[t] = "run"

(* An error ends the run. *)
Fail == outcome' = "illegal" /\ UNCHANGED <<table, memory, current, pc, target>>

-----------------------------------------------------------------------------
(* Plain accesses and the race check.                                      *)

(* An earlier access to the block races with one of this kind and clock. *)
RaceAt(c, l, k) ==
  \E e \in footprint : e.loc = l /\ Concurrent(e.clock, c) /\ RacePair(e.kind, k)

(* Main runs and every spawned thread's handle is consumed. *)
Solo == current = 0 /\ \A t \in Born : joined[t]

RaceCheck(c, l, k) == ~Solo /\ RaceAt(c, l, k)

(* Mutant: the thread's own clock misses the access it just recorded. *)
RecordAccessStale(t, l, k) ==
  LET c == Bump(clocks[t], t)
  IN  /\ ~RaceCheck(c, l, k)
      /\ footprint' = footprint \cup {[tid |-> t, clock |-> c, loc |-> l, kind |-> k]}
      /\ UNCHANGED clocks

RecordAccess(t, l, k) ==
  LET c == Bump(clocks[t], t)
  IN  /\ ~RaceCheck(c, l, k)
      /\ clocks' = [clocks EXCEPT ![t] = c]
      /\ footprint' = footprint \cup {[tid |-> t, clock |-> c, loc |-> l, kind |-> k]}

Access(t, l, k) ==
  /\ Running(t)
  /\ Cardinality(footprint) < MaxAccess
  /\ \/ /\ l \in live
        /\ RecordAccess(t, l, k)
        /\ UNCHANGED <<table, live, current, pc, target, outcome>>
     \/ /\ l \notin live \/ RaceCheck(Bump(clocks[t], t), l, k)
        /\ Fail

(* Mutant: every consumed child counts as joined, detached ones too. *)
FreeRacesConsumed(t, l) ==
  LET c == Bump(clocks[t], t)
  IN  \E e \in footprint :
        /\ e.loc = l
        /\ e.tid # t
        /\ ~ClockLe(e.clock, c)
        /\ ~ClockLe(clocks[e.tid], c)
        /\ ~(owner[e.tid] = t /\ joined[e.tid])

(* The end of a block races with an access by another thread that did not  *)
(* happen before it, unless the current thread joined that thread.         *)
FreeRaces(t, l) ==
  LET c == Bump(clocks[t], t)
  IN  \E e \in footprint :
        /\ e.loc = l
        /\ e.tid # t
        /\ ~ClockLe(e.clock, c)
        /\ ~ClockLe(clocks[e.tid], c)
        /\ ~(owner[e.tid] = t /\ joined[e.tid] /\ ~released[e.tid])

Free(t, l) ==
  /\ Running(t)
  /\ \/ /\ l \in live
        /\ ~FreeRaces(t, l)
        /\ live' = live \ {l}
        /\ UNCHANGED <<table, clocks, footprint, current, pc, target, outcome>>
     \/ /\ l \notin live \/ FreeRaces(t, l)
        /\ Fail

-----------------------------------------------------------------------------
(* Join handles.  None of these operations stops the thread.               *)

(* Mutants: the check forgets the owner, or that the handle was consumed. *)
JoinValidAnyone(t, u) == u \in Born /\ ~joined[u]
JoinValidTwice(t, u)  == u \in Born \ {0} /\ owner[u] = t

(* The caller owns the handle and it is not consumed. *)
JoinValid(t, u) == u \in Born /\ owner[u] = t /\ ~joined[u]

Detach(t, u) ==
  /\ CanDetach
  /\ Running(t)
  /\ \/ /\ JoinValid(t, u)
        /\ joined' = [joined EXCEPT ![u] = TRUE]
        /\ released' = [released EXCEPT ![u] = TRUE]
        /\ UNCHANGED <<size, owner, memory, current, pc, target, outcome>>
     \/ ~JoinValid(t, u) /\ Fail

(* Mutant: the receiver of a handle need not exist. *)
TransferHandleUnchecked(t, u, v) ==
  /\ CanTransfer
  /\ Running(t)
  /\ \/ /\ JoinValid(t, u)
        /\ owner' = [owner EXCEPT ![u] = v]
        /\ UNCHANGED <<size, joined, released, memory, current, pc, target, outcome>>
     \/ ~JoinValid(t, u) /\ Fail

TransferHandle(t, u, v) ==
  /\ CanTransfer
  /\ Running(t)
  /\ \/ /\ JoinValid(t, u)
        /\ v \in Born \ {u}
        /\ owner' = [owner EXCEPT ![u] = v]
        /\ UNCHANGED <<size, joined, released, memory, current, pc, target, outcome>>
     \/ ~(JoinValid(t, u) /\ v \in Born \ {u}) /\ Fail

-----------------------------------------------------------------------------
(* The running thread stops at a sync op, or ends.                         *)

StopAt(t, op, u) ==
  /\ Running(t)
  /\ pc' = [pc EXCEPT ![t] = op]
  /\ target' = [target EXCEPT ![t] = u]
  /\ UNCHANGED <<table, memory, current, outcome>>

Yield(t) == StopAt(t, "yield", 0)

(* The thread ids bound the spawns of a run, the pending ones included. *)
StopAtSpawn(t) ==
  /\ size + Cardinality({u \in Thread : pc[u] = "spawn"}) \in Thread
  /\ StopAt(t, "spawn", 0)

StopAtJoin(t, u) == StopAt(t, "join", u)

(* A thread that ends must have consumed every handle it owns; the end of  *)
(* main ends the run.                                                      *)
OwesJoin(t) == \E u \in Born : owner[u] = t /\ ~joined[u]

End(t) ==
  /\ Running(t)
  /\ \/ /\ ~OwesJoin(t)
        /\ pc' = [pc EXCEPT ![t] = "done"]
        /\ outcome' = IF t = 0 THEN "ok" ELSE outcome
        /\ UNCHANGED <<table, memory, current, target>>
     \/ OwesJoin(t) /\ Fail

-----------------------------------------------------------------------------
(* The scheduler: one turn of a thread that can go on.                     *)

(* Mutant: a join waits also for a handle that is not the caller's.        *)
CanGoInvalidWaits(t) ==
  \/ pc[t] \in {"yield", "spawn"}
  \/ pc[t] = "join" /\ pc[target[t]] = "done"

CanGo(t) ==
  \/ pc[t] \in {"yield", "spawn"}
  \/ pc[t] = "join" /\ (JoinValid(t, target[t]) => pc[target[t]] = "done")

NoneRuns == outcome = "running" /\ \A t \in Thread : pc[t] # "run"

Turn(t, op) ==
  /\ NoneRuns
  /\ pc[t] = op
  /\ CanGo(t)
  /\ current' = t

Resume(t) ==
  /\ Turn(t, "yield")
  /\ pc' = [pc EXCEPT ![t] = "run"]
  /\ UNCHANGED <<table, memory, target, outcome>>

(* The assigned children of t that no join has reclaimed. *)
LiveChildren(t) == Cardinality({u \in Born : owner[u] = t /\ ~joined[u]})

SpawnAdmits(t) == Policy = "available" \/ LiveChildren(t) < SpawnLimit

(* Mutant: the child starts with an empty clock. *)
SpawnFresh(t) ==
  /\ Turn(t, "spawn")
  /\ size \in Thread
  /\ SpawnAdmits(t)
  /\ size' = size + 1
  /\ clocks' = [clocks EXCEPT ![t] = Bump(clocks[t], t), ![size] = ZeroClock]
  /\ owner' = [owner EXCEPT ![size] = t]
  /\ joined' = [joined EXCEPT ![size] = FALSE]
  /\ released' = [released EXCEPT ![size] = FALSE]
  /\ pc' = [pc EXCEPT ![t] = "run", ![size] = "yield"]
  /\ UNCHANGED <<footprint, live, target, outcome>>

(* Thread.fork: the child starts with the clock of the spawner after a     *)
(* bump, and waits for its first turn.                                     *)
Spawn(t) ==
  LET c == Bump(clocks[t], t)
  IN  /\ Turn(t, "spawn")
      /\ size \in Thread
      /\ SpawnAdmits(t)
      /\ size' = size + 1
      /\ clocks' = [clocks EXCEPT ![t] = c, ![size] = c]
      /\ owner' = [owner EXCEPT ![size] = t]
      /\ joined' = [joined EXCEPT ![size] = FALSE]
      /\ released' = [released EXCEPT ![size] = FALSE]
      /\ pc' = [pc EXCEPT ![t] = "run", ![size] = "yield"]
      /\ UNCHANGED <<footprint, live, target, outcome>>

(* A declared spawn error: the caller goes on and nothing else changes. *)
SpawnFails(t) ==
  /\ Policy = "fallible"
  /\ Turn(t, "spawn")
  /\ pc' = [pc EXCEPT ![t] = "run"]
  /\ UNCHANGED <<table, memory, target, outcome>>

(* The joiner adopts the clock of the thread that ended. *)
Join(t) ==
  LET u == target[t]
  IN  /\ Turn(t, "join")
      /\ JoinValid(t, u)
      /\ clocks' = [clocks EXCEPT ![t] = Merge(Bump(clocks[t], t), clocks[u])]
      /\ joined' = [joined EXCEPT ![u] = TRUE]
      /\ pc' = [pc EXCEPT ![t] = "run"]
      /\ target' = [target EXCEPT ![t] = 0]
      /\ UNCHANGED <<size, owner, released, footprint, live, outcome>>

(* An invalid handle does not wait: its error is the outcome. *)
JoinFails(t) ==
  /\ Turn(t, "join")
  /\ ~JoinValid(t, target[t])
  /\ outcome' = "illegal"
  /\ UNCHANGED <<table, memory, pc, target>>

-----------------------------------------------------------------------------
Op(t) ==
  \/ \E l \in Loc, k \in {"read", "write"} : Access(t, l, k)
  \/ \E l \in Loc : Free(t, l)
  \/ \E u \in Thread : Detach(t, u)
  \/ \E u, v \in Thread : TransferHandle(t, u, v)
  \/ Yield(t)
  \/ StopAtSpawn(t)
  \/ \E u \in Thread : StopAtJoin(t, u)
  \/ End(t)

SchedulerTurn(t) == Resume(t) \/ Spawn(t) \/ SpawnFails(t) \/ Join(t) \/ JoinFails(t)

Next == \E t \in Thread : Op(t) \/ SchedulerTurn(t)

Spec == Init /\ [][Next]_vars

-----------------------------------------------------------------------------
(* Properties.                                                             *)

NoneReleased == \A t \in Thread : ~released[t]

(* The skip of the race scan while main runs alone changes no outcome as   *)
(* long as no handle was given up without a join: a scan would find no     *)
(* race at any location, for any kind of access.                           *)
SoloSkipSound ==
  Solo /\ NoneReleased =>
    \A l \in Loc, k \in AccessKind : ~RaceAt(Bump(clocks[0], 0), l, k)

(* What src/ZigLean/Mem/Basic.lean says of every memory a run reaches:     *)
(* with Solo, the skipped scan finds nothing, detached threads or not.     *)
SoloSkipChangesNothing ==
  Solo => \A l \in Loc, k \in AccessKind : ~RaceAt(Bump(clocks[0], 0), l, k)

(* Handles are consumed once: a consumed record never changes again, and   *)
(* only the owner of an unconsumed handle consumes it or gives it away.    *)
HandlesConsumedOnce ==
  [][\A u \in Born :
       <<owner[u], joined[u], released[u]>>' # <<owner[u], joined[u], released[u]>>
         => ~joined[u] /\ owner[u] = current']_vars

(* The scheduler always finds a thread to give the turn to: joins never    *)
(* wait for each other, also when handles moved between the threads while  *)
(* they waited (the scheduler's deadlock error needs a futex).             *)
NoDeadlock == NoneRuns => \E t \in Born : CanGo(t)

(* A handle that a join consumed belongs to a thread that has ended, and   *)
(* whose last clock some thread that can still be joined, or main, covers. *)
JoinedIsCovered ==
  \A t \in Born : joined[t] /\ ~released[t] =>
    /\ t = 0 \/ pc[t] = "done"
    /\ \E u \in Born : (u = 0 \/ ~joined[u] \/ released[u]) /\ ClockLe(clocks[t], clocks[u])

(* With neither detach nor transfer, main ends with "ok" only after every  *)
(* thread of the run, also its children's children, has ended.             *)
OkMeansAllEnded == outcome = "ok" => \A t \in Born : pc[t] = "done"

(* Under the fallible policy no thread ever has more unreclaimed children  *)
(* than its budget.                                                        *)
SpawnBudget == Policy = "fallible" => \A t \in Born : LiveChildren(t) <= SpawnLimit

=============================================================================
