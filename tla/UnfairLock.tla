----------------------------- MODULE UnfairLock -----------------------------
(***************************************************************************)
(* os_unfair_lock (src/ZigLean/Conc/Call.lean): lock, tryLock and unlock   *)
(* as programs of the machine's atomics and futex.  A critical section is  *)
(* what a thread does between its lock and its unlock; knows and rel are   *)
(* the clocks, cut down to the critical sections they contain.             *)
(*                                                                         *)
(* Every write of the lock word is an RMW, so an RMW reads the newest      *)
(* message (the older ones have one after them); a failing cmpxchg may     *)
(* read an older one.                                                      *)
(***************************************************************************)
EXTENDS Integers, Sequences

CONSTANTS
  Thread,   \* the threads that use the lock
  NoWriter,   \* the writer of the initial value
  MaxCalls  \* bound on the lock and tryLock calls of one run

ASSUME LockAssumption == NoWriter \notin Thread /\ MaxCalls \in Nat

VARIABLES
  at,        \* where a thread is: "out", in its critical section "in", or its stop
  msgs,      \* the messages of the lock word
  seen,      \* the newest message each thread has seen
  knows,     \* the critical sections in each thread's clock
  sleeping,  \* the threads in the futex queue
  woken,     \* the woken threads whose wait has not returned
  finished,  \* how many critical sections ended
  calls,     \* the calls made so far
  outcome    \* "running", or "illegal"

lockVars == <<at, msgs, seen, knows, sleeping, woken, finished, calls, outcome>>

LockStops == {"lock", "wait", "try", "xchg", "wake"}

Msg == [val : {0, 1}, writer : Thread \cup {NoWriter}, rel : SUBSET Nat]

Newest == msgs[Len(msgs)]

LockOK ==
  /\ at \in [Thread -> LockStops \cup {"out", "in"}]
  /\ msgs \in Seq(Msg) /\ Len(msgs) > 0
  /\ seen \in [Thread -> Nat]
  /\ \A t \in Thread : seen[t] \in 1 .. Len(msgs)
  /\ knows \in [Thread -> SUBSET Nat]
  /\ sleeping \subseteq {t \in Thread : at[t] = "wait"}
  /\ woken \subseteq {t \in Thread : at[t] = "wait"} \ sleeping
  /\ finished \in Nat
  /\ calls \in 0 .. MaxCalls
  /\ outcome \in {"running", "illegal"}

LockInit ==
  /\ at = [t \in Thread |-> "out"]
  /\ msgs = << [val |-> 0, writer |-> NoWriter, rel |-> {}] >>
  /\ seen = [t \in Thread |-> 1]
  /\ knows = [t \in Thread |-> {}]
  /\ sleeping = {}
  /\ woken = {}
  /\ finished = 0
  /\ calls = 0
  /\ outcome = "running"

Goes(t, l) == at' = [at EXCEPT ![t] = l]

(* A thread outside calls lock or tryLock and stops at its cmpxchg. *)
Call(t, l) ==
  /\ outcome = "running"
  /\ at[t] = "out"
  /\ calls < MaxCalls
  /\ calls' = calls + 1
  /\ Goes(t, l)
  /\ UNCHANGED <<msgs, seen, knows, sleeping, woken, finished, outcome>>

(* An RMW puts its message right after the newest and reads that one; its  *)
(* release sequence goes on through it.                                    *)
Rmw(t, v, rel) ==
  /\ msgs' = Append(msgs, [val |-> v, writer |-> t, rel |-> rel \cup Newest.rel])
  /\ seen' = [seen EXCEPT ![t] = Len(msgs) + 1]

(* Mutant: the successful cmpxchg is relaxed. *)
CasSucceedsRelaxed(t) ==
  /\ outcome = "running"
  /\ at[t] \in {"lock", "try"}
  /\ Newest.val = 0
  /\ Rmw(t, 1, {})
  /\ Goes(t, "in")
  /\ UNCHANGED <<knows, sleeping, woken, finished, calls, outcome>>

(* The cmpxchg from 0 to 1, an acquire. *)
CasSucceeds(t) ==
  /\ outcome = "running"
  /\ at[t] \in {"lock", "try"}
  /\ Newest.val = 0
  /\ Rmw(t, 1, {})
  /\ knows' = [knows EXCEPT ![t] = @ \cup Newest.rel]
  /\ Goes(t, "in")
  /\ UNCHANGED <<sleeping, woken, finished, calls, outcome>>

(* It reads a 1, perhaps not the newest value: lock goes to wait, tryLock  *)
(* gives up.                                                               *)
CasFails(t) ==
  /\ outcome = "running"
  /\ at[t] \in {"lock", "try"}
  /\ \E i \in seen[t] .. Len(msgs) :
       /\ msgs[i].val # 0
       /\ seen' = [seen EXCEPT ![t] = i]
  /\ Goes(t, IF at[t] = "lock" THEN "wait" ELSE "out")
  /\ UNCHANGED <<msgs, knows, sleeping, woken, finished, calls, outcome>>

(* Mutant: the thread sleeps without the kernel's compare. *)
SleepUnchecked(t) ==
  /\ outcome = "running"
  /\ at[t] = "wait" /\ t \notin sleeping \cup woken
  /\ sleeping' = sleeping \cup {t}
  /\ UNCHANGED <<at, msgs, seen, knows, woken, finished, calls, outcome>>

(* The kernel compares the newest value with the 1 that was read. *)
Sleep(t) ==
  /\ outcome = "running"
  /\ at[t] = "wait" /\ t \notin sleeping \cup woken
  /\ Newest.val = 1
  /\ sleeping' = sleeping \cup {t}
  /\ UNCHANGED <<at, msgs, seen, knows, woken, finished, calls, outcome>>

(* The wait returns: woken, another value, or spuriously; lock tries again. *)
WaitReturns(t) ==
  /\ outcome = "running"
  /\ at[t] = "wait" /\ t \notin sleeping
  /\ woken' = woken \ {t}
  /\ Goes(t, "lock")
  /\ UNCHANGED <<msgs, seen, knows, sleeping, finished, calls, outcome>>

(* Mutant: the holder is the last thread that wrote a value other than 0. *)
HolderForgetsUnlock ==
  LET locks == {i \in 1 .. Len(msgs) : msgs[i].val # 0}
  IN  IF locks = {} THEN NoWriter
      ELSE msgs[CHOOSE i \in locks : \A j \in locks : j <= i].writer

(* The writer of the oldest message of the newest run of messages that are *)
(* not 0.                                                                  *)
Holder ==
  LET run == {i \in 1 .. Len(msgs) : \A j \in i .. Len(msgs) : msgs[j].val # 0}
  IN  IF run = {} THEN NoWriter ELSE msgs[CHOOSE i \in run : \A j \in run : i <= j].writer

MutexHeld(t) == Holder = t

(* unlock: the owner check, without a stop before it; then it stops at its *)
(* exchange.                                                               *)
Unlock(t) ==
  /\ outcome = "running"
  /\ at[t] \in {"in", "out"}
  /\ \/ MutexHeld(t) /\ Goes(t, "xchg") /\ UNCHANGED outcome
     \/ ~MutexHeld(t) /\ outcome' = "illegal" /\ UNCHANGED at
  /\ UNCHANGED <<msgs, seen, knows, sleeping, woken, finished, calls>>

(* The exchange to 0, a release of everything the thread knows. *)
Xchg(t) ==
  /\ outcome = "running"
  /\ at[t] = "xchg"
  /\ Rmw(t, 0, knows[t] \cup {finished})
  /\ knows' = [knows EXCEPT ![t] = @ \cup {finished}]
  /\ finished' = finished + 1
  /\ Goes(t, "wake")
  /\ UNCHANGED <<sleeping, woken, calls, outcome>>

(* Mutant: the wake is skipped while a woken thread is still on its way. *)
WakeOneSkips(t) ==
  /\ outcome = "running"
  /\ at[t] = "wake"
  /\ \/ \E u \in sleeping : sleeping' = sleeping \ {u} /\ woken' = {u}
     \/ UNCHANGED <<sleeping, woken>>
  /\ Goes(t, "out")
  /\ UNCHANGED <<msgs, seen, knows, finished, calls, outcome>>

(* Mutant: a woken waiter stays in the queue. *)
WakeOneKeeps(t) ==
  /\ outcome = "running"
  /\ at[t] = "wake"
  /\ \/ \E u \in sleeping : woken' = woken \cup {u}
     \/ sleeping = {} /\ UNCHANGED woken
  /\ Goes(t, "out")
  /\ UNCHANGED <<msgs, seen, knows, sleeping, finished, calls, outcome>>

(* The wake of one waiter. *)
WakeOne(t) ==
  /\ outcome = "running"
  /\ at[t] = "wake"
  /\ \/ \E u \in sleeping : sleeping' = sleeping \ {u} /\ woken' = woken \cup {u}
     \/ sleeping = {} /\ UNCHANGED <<sleeping, woken>>
  /\ Goes(t, "out")
  /\ UNCHANGED <<msgs, seen, knows, finished, calls, outcome>>

LockStep(t) ==
  \/ Call(t, "lock")
  \/ Call(t, "try")
  \/ CasSucceeds(t)
  \/ CasFails(t)
  \/ Sleep(t)
  \/ WaitReturns(t)
  \/ Unlock(t)
  \/ Xchg(t)
  \/ WakeOne(t)

LockNext == \E t \in Thread : LockStep(t)

LockSpec == LockInit /\ [][LockNext]_lockVars

-----------------------------------------------------------------------------
(* Properties.                                                             *)

Inside == {t \in Thread : at[t] \in {"in", "xchg"}}

(* The lock is a mutex: it implements AbstractLock, so critical sections   *)
(* never overlap and each one happens before the next.                     *)
Mutex == INSTANCE AbstractLock WITH holders <- Inside
IsALock == Mutex!Spec

(* The owner check passes exactly for the thread inside its section: an    *)
(* unlock by another thread and a double unlock are caught, and no unlock  *)
(* of the holder is.                                                       *)
OwnerCheckExact ==
  \A t \in Thread : at[t] \in {"in", "out"} => (MutexHeld(t) <=> at[t] = "in")

(* No wakeup is lost: a thread sleeps only while the lock is held, or an   *)
(* unlock has its wake still to do, or some thread is about to try again.  *)
NoLostWakeup ==
  sleeping # {} =>
    \/ Inside # {}
    \/ \E t \in Thread : at[t] \in {"wake", "lock"} \/ (at[t] = "wait" /\ t \notin sleeping)

(* os_unfair_lock: who holds it is known, and who waits for it is woken.   *)
LockKept == OwnerCheckExact /\ NoLostWakeup

=============================================================================
