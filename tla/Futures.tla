------------------------------- MODULE Futures --------------------------------
(***************************************************************************)
(* std.Io.Future (src/ZigLean/Conc/Future.lean) on the scheduler           *)
(* (src/ZigLean/Conc/Sched.lean): async, await, cancel and checkCancel.    *)
(*                                                                         *)
(* The program is the most general client that the translator accepts: in  *)
(* a program that cancels, only main awaits, outside the tasks it runs     *)
(* itself (checkFutureCancelation).  The task of a future is named after   *)
(* it; a future is made once.  Its value and its record are accessed       *)
(* plainly; that the accesses of two threads race is in Threads, here the  *)
(* use of another thread's future is an error outright.  An await or a     *)
(* cancel of a consumed future reads its result again: no step.            *)
(***************************************************************************)
EXTENDS Integers, Sequences

CONSTANT MaxFutures   \* bound on the futures of a run

ASSUME FutureAssumption == MaxFutures \in Nat

(* The futures and their tasks, in the order they are made; main is 0. *)
Future == 1 .. MaxFutures
Main   == 0

VARIABLES
  fat,        \* the stop of each thread
  frames,     \* the tasks that a thread runs itself, innermost last
  creator,    \* the thread that made the future: ThreadRec.spawner of its task
  future,     \* where the future is
  result,     \* Future.result
  record,     \* the runtime record: its result cells
  requests,   \* m.cancels
  given,       \* the tasks that were given error.Canceled
  returned,   \* what each task returned (history)
  asked,      \* the tasks that were canceled (history)
  canceling,  \* the program cancels futures
  fend        \* "running", or the outcome of the run

values  == <<future, result, record>>
futures == <<fat, frames, creator, values, requests, given, returned, asked, canceling, fend>>

Task == Future \cup {Main}

FutureStops ==
  [op : {"unborn", "start", "run", "check", "done"}]
    \cup [op : {"choice", "spawn", "request", "await", "cancel"}, of : Future]

Results == {"none", "result", "canceled"}

FuturesOK ==
  /\ fat \in [Task -> FutureStops]
  /\ frames \in [Task -> Seq(Future)]
  /\ creator \in [Future -> Task]
  /\ future \in [Future -> {"none", "called", "pending", "consumed"}]
  /\ result \in [Future -> Results]
  /\ record \in [Future -> {"none", "empty", "result", "canceled", "freed"}]
  /\ requests \subseteq Future /\ asked \subseteq Future
  /\ given \subseteq Task
  /\ returned \in [Future -> Results]
  /\ canceling \in BOOLEAN
  /\ fend \in {"off", "running", "ok", "illegal"}

FuturesAt(l) ==
  /\ fat = [t \in Task |-> [op |-> IF t = Main THEN "run" ELSE "unborn"]]
  /\ frames = [t \in Task |-> <<>>]
  /\ creator = [f \in Future |-> Main]
  /\ future = [f \in Future |-> "none"]
  /\ result = [f \in Future |-> "none"]
  /\ record = [f \in Future |-> "none"]
  /\ requests = {} /\ given = {} /\ asked = {}
  /\ returned = [f \in Future |-> "none"]
  /\ canceling \in BOOLEAN
  /\ fend = l

-----------------------------------------------------------------------------
(* The running thread, up to its next stop.                                *)

Runs(t) == fend = "running" /\ fat[t].op = "run"

StopsAt(t, op, f) == fat' = [fat EXCEPT ![t] = [op |-> op, of |-> f]]
GoesOn(t) == fat' = [fat EXCEPT ![t] = [op |-> "run"]]

(* What the thread runs: a task of its own making, or its function. *)
Body(t) == IF frames[t] = <<>> THEN t ELSE frames[t][Len(frames[t])]

RunsItself(t, f) == frames' = [frames EXCEPT ![t] = Append(@, f)]

AsyncFuture(t, f) ==
  /\ Runs(t)
  /\ \A g \in Future : future[g] = "none" <=> g >= f
  /\ future' = [future EXCEPT ![f] = "called"]
  /\ creator' = [creator EXCEPT ![f] = t]
  /\ StopsAt(t, "choice", f)
  /\ UNCHANGED <<frames, result, record, requests, given, returned, asked, canceling, fend>>

AwaitFuture(t, f) ==
  /\ Runs(t)
  /\ canceling => t = Main /\ frames[t] = <<>>
  /\ future[f] = "pending" /\ creator[f] = t
  /\ StopsAt(t, "await", f)
  /\ UNCHANGED <<frames, creator, values, requests, given, returned, asked, canceling, fend>>

(* The request is a step of its own, after a scheduling point. *)
CancelFuture(t, f) ==
  /\ Runs(t)
  /\ canceling
  /\ future[f] = "pending" /\ creator[f] = t
  /\ StopsAt(t, "request", f)
  /\ UNCHANGED <<frames, creator, values, requests, given, returned, asked, canceling, fend>>

CheckFuture(t) ==
  /\ Runs(t)
  /\ fat' = [fat EXCEPT ![t] = [op |-> "check"]]
  /\ UNCHANGED <<frames, creator, values, requests, given, returned, asked, canceling, fend>>

(* Only the creator may consume a future: the join of another is an error. *)
ForeignUse(t, f) ==
  /\ Runs(t)
  /\ future[f] = "pending" /\ creator[f] # t
  /\ fend' = "illegal"
  /\ UNCHANGED <<fat, frames, creator, values, requests, given, returned, asked, canceling>>

(* A task returns what it computed, or the error it was given. *)
Returned(b, r) == r = "result" \/ (r = "canceled" /\ b \in given)

(* A task that the caller ran itself: the future is born consumed. *)
EagerReturns(t) ==
  /\ Runs(t)
  /\ frames[t] # <<>>
  /\ \E r \in {"result", "canceled"} :
       /\ Returned(Body(t), r)
       /\ result' = [result EXCEPT ![Body(t)] = r]
       /\ returned' = [returned EXCEPT ![Body(t)] = r]
  /\ future' = [future EXCEPT ![Body(t)] = "consumed"]
  /\ frames' = [frames EXCEPT ![t] = SubSeq(@, 1, Len(@) - 1)]
  /\ UNCHANGED <<fat, creator, record, requests, given, asked, canceling, fend>>

(* The children of a thread that it has not joined. *)
Unjoined(t) == {f \in Future : creator[f] = t /\ future[f] = "pending"}

(* The last step of a task's thread writes the result into its record; a   *)
(* thread that ends must have consumed its futures.                        *)
ThreadReturns(t) ==
  /\ Runs(t)
  /\ frames[t] = <<>>
  /\ IF t = Main THEN UNCHANGED <<record, returned>>
     ELSE \E r \in {"result", "canceled"} :
            /\ Returned(t, r)
            /\ record' = [record EXCEPT ![t] = r]
            /\ returned' = [returned EXCEPT ![t] = r]
  /\ IF Unjoined(t) # {} THEN fend' = "illegal" /\ UNCHANGED fat
     ELSE /\ fat' = [fat EXCEPT ![t] = [op |-> "done"]]
          /\ fend' = IF t = Main THEN "ok" ELSE fend
  /\ UNCHANGED <<frames, creator, future, result, requests, given, asked, canceling>>

-----------------------------------------------------------------------------
(* The turns of the scheduler.                                             *)

(* Mutant: await and cancel do not wait for the task. *)
CanTurnUnjoined(t) == fat[t].op \notin {"unborn", "run", "done"}

CanTurn(t) ==
  /\ fat[t].op \notin {"unborn", "run", "done"}
  /\ fat[t].op \in {"await", "cancel"} => fat[fat[t].of].op = "done"

TurnAt(t, op) ==
  /\ fend = "running"
  /\ \A u \in Task : fat[u].op # "run"
  /\ fat[t].op = op
  /\ CanTurn(t)

FutureStarts(t) ==
  /\ TurnAt(t, "start")
  /\ GoesOn(t)
  /\ UNCHANGED <<frames, creator, values, requests, given, returned, asked, canceling, fend>>

(* The environment runs the task in the caller or gives it a thread, for   *)
(* which the record is made first.                                         *)
AsyncOutcome(t) ==
  /\ TurnAt(t, "choice")
  /\ \/ RunsItself(t, fat[t].of) /\ GoesOn(t) /\ UNCHANGED record
     \/ /\ record' = [record EXCEPT ![fat[t].of] = "empty"]
        /\ StopsAt(t, "spawn", fat[t].of)
        /\ UNCHANGED frames
  /\ UNCHANGED <<creator, future, result, requests, given, returned, asked, canceling, fend>>

FutureSpawns(t) ==
  /\ TurnAt(t, "spawn")
  /\ LET f == fat[t].of IN
       /\ future' = [future EXCEPT ![f] = "pending"]
       /\ fat' = [fat EXCEPT ![t] = [op |-> "run"], ![f] = [op |-> "start"]]
  /\ UNCHANGED <<frames, creator, result, record, requests, given, returned, asked,
                 canceling, fend>>

(* Mutant: the record of a task that got no thread is not freed. *)
SpawnLeaks(t) ==
  /\ TurnAt(t, "spawn")
  /\ RunsItself(t, fat[t].of)
  /\ GoesOn(t)
  /\ UNCHANGED <<creator, values, requests, given, returned, asked, canceling, fend>>

(* No thread: the record is freed, and the caller runs the task. *)
FutureSpawnFails(t) ==
  /\ TurnAt(t, "spawn")
  /\ record' = [record EXCEPT ![fat[t].of] = "freed"]
  /\ RunsItself(t, fat[t].of)
  /\ GoesOn(t)
  /\ UNCHANGED <<creator, future, result, requests, given, returned, asked, canceling, fend>>

(* Mutant: the point looks for a request, of whatever task. *)
PointDeliversAny(t) ==
  /\ TurnAt(t, "check")
  /\ given' = IF requests # {} THEN given \cup {Body(t)} ELSE given
  /\ requests' = requests \ {t}
  /\ GoesOn(t)
  /\ UNCHANGED <<frames, creator, values, returned, asked, canceling, fend>>

(* A cancelation point delivers the request of its thread, once. *)
PointDelivers(t) ==
  /\ TurnAt(t, "check")
  /\ given' = IF t \in requests THEN given \cup {Body(t)} ELSE given
  /\ requests' = requests \ {t}
  /\ GoesOn(t)
  /\ UNCHANGED <<frames, creator, values, returned, asked, canceling, fend>>

RequestsCancel(t) ==
  /\ TurnAt(t, "request")
  /\ LET f == fat[t].of IN
       /\ requests' = requests \cup {f}
       /\ asked' = asked \cup {f}
       /\ StopsAt(t, "cancel", f)
  /\ UNCHANGED <<frames, creator, values, given, returned, canceling, fend>>

(* The join, the result out of the record, which is freed. *)
Takes(t, f) ==
  /\ result' = [result EXCEPT ![f] = record[f]]
  /\ record' = [record EXCEPT ![f] = "freed"]
  /\ future' = [future EXCEPT ![f] = "consumed"]
  /\ GoesOn(t)

(* Mutant: the request of a task that did not see it stays. *)
ConsumesOnly(t) ==
  /\ \E op \in {"await", "cancel"} : TurnAt(t, op)
  /\ Takes(t, fat[t].of)
  /\ UNCHANGED <<frames, creator, requests, given, returned, asked, canceling, fend>>

(* A cancel drops the request that the task did not acknowledge. *)
Consumes(t) ==
  /\ \E op \in {"await", "cancel"} : TurnAt(t, op)
  /\ Takes(t, fat[t].of)
  /\ requests' = IF fat[t].op = "cancel" THEN requests \ {fat[t].of} ELSE requests
  /\ UNCHANGED <<frames, creator, given, returned, asked, canceling, fend>>

FuturesNext ==
  \E t \in Task :
    \/ \E f \in Future :
         AsyncFuture(t, f) \/ AwaitFuture(t, f) \/ CancelFuture(t, f) \/ ForeignUse(t, f)
    \/ CheckFuture(t) \/ EagerReturns(t) \/ ThreadReturns(t)
    \/ FutureStarts(t) \/ AsyncOutcome(t) \/ FutureSpawns(t) \/ FutureSpawnFails(t)
    \/ PointDelivers(t) \/ RequestsCancel(t) \/ Consumes(t)

-----------------------------------------------------------------------------
(* Properties.                                                             *)

(* A request is pending only while its canceler waits for the task: it     *)
(* outlives no cancel.                                                     *)
RequestIsWaitedFor ==
  \A f \in requests : fat[creator[f]] = [op |-> "cancel", of |-> f]

(* The thread that ran the task of a consumed future. *)
RunBy(f) == IF fat[f].op = "unborn" THEN creator[f] ELSE f

(* What an await or a cancel returns, now and again later, is what the     *)
(* task returned; a task is given an error only if it, or the thread that  *)
(* ran it, was canceled.                                                   *)
ResultIsItsOwn ==
  /\ \A f \in Future : future[f] = "consumed" => result[f] = returned[f] /\ returned[f] # "none"
  /\ \A f \in Future : returned[f] = "canceled" => RunBy(f) \in asked

(* The record lives as long as its task may write it, and nothing of a     *)
(* future is left when a run ends without an error.                        *)
RecordsFreed ==
  /\ fend = "running" =>
       \A f \in Future : fat[f].op \notin {"unborn", "done"} => record[f] = "empty"
  /\ fend = "ok" =>
       \A f \in Future : /\ future[f] \in {"none", "consumed"}
                         /\ record[f] \in {"none", "freed"}
                         /\ fat[f].op \in {"unborn", "done"}

(* A run never gets stuck: a thread only waits for a task of its own. *)
FuturesGoOn ==
  fend = "running" => \E t \in Task : fat[t].op = "run" \/ CanTurn(t)

FuturesKept == RequestIsWaitedFor /\ ResultIsItsOwn /\ RecordsFreed /\ FuturesGoOn
=============================================================================
