-------------------------------- MODULE Tasks --------------------------------
(***************************************************************************)
(* Futexes, Io.Group tasks and their cancelation (src/ZigLean/Conc/        *)
(* Call.lean, src/ZigLean/Conc/Spawn.lean) on the scheduler                *)
(* (src/ZigLean/Conc/Sched.lean) and the futex queue, the groups and the   *)
(* cancel requests of the memory (src/ZigLean/Mem/Thread.lean).            *)
(*                                                                         *)
(* The program is the most general client: the running thread makes any    *)
(* call of its program and runs on to its next stop; the scheduler gives the     *)
(* turn to any thread that can go on.  A call that stops several times     *)
(* (await, cancel, a cancelable wait) keeps what it still has to do in     *)
(* plan and in its stop.                                                   *)
(*                                                                         *)
(* Clocks and the race check are in Threads; here a word is its newest     *)
(* value, which is what the kernel compares, and words are only accessed   *)
(* atomically.                                                             *)
(***************************************************************************)
EXTENDS Integers, FiniteSets

CONSTANTS
  Thread,      \* thread ids, 0 is main
  Word,        \* the futex words
  Group,       \* the Io.Group values
  NoGroup, NoWord,
  Programs     \* what runs, and where

AllCalls == {"store", "wait", "waitCancelable", "wake", "spawn", "async", "concurrent",
             "join", "await", "cancel", "checkCancel"}

(* The calls that a program makes, at most max of them; the counts of its  *)
(* wakes; Env.spawn; and Env.io: 0 is AsyncEnv.any, n > 0 AsyncEnv.threaded *)
(* n.                                                                      *)
Program ==
  [calls : SUBSET AllCalls, wakes : SUBSET Nat, policy : {"available", "fallible"}, cpus : Nat, max : Nat]

ASSUME ThreadAssumption ==
  /\ 0 \in Thread
  /\ Thread \subseteq Nat
  /\ IsFiniteSet(Thread)
  /\ \A t \in Thread : 0 .. t \subseteq Thread
ASSUME ProgramAssumption ==
  /\ NoGroup \notin Group
  /\ NoWord \notin Word
  /\ Programs \subseteq Program

VARIABLES
  size,      \* m.threads.size: the id of the next thread
  current,   \* m.current: the thread that runs, or ran last
  at,        \* where each thread is: its stop, running, or done
  spawner,   \* ThreadRec.spawner
  joined,    \* ThreadRec.joined
  gated,     \* ThreadRec.gated: a deferred task
  group,     \* m.groups: the group that records the task
  word,      \* the newest value of each futex word
  sleeping,  \* m.waiters: the word a thread sleeps at
  woken,     \* m.woken: how often a thread is in the list of woken threads
  cancels,   \* m.cancels: how often a thread is in the list of requests
  plan,      \* what an await or a cancel still has to join
  program,   \* the program that runs
  calls,     \* the calls made so far
  outcome    \* "running", or the result of the run

table == <<size, spawner, joined, gated, group>>
queue == <<word, sleeping, woken>>
vars  == <<current, at, table, queue, cancels, plan, program, calls, outcome>>

Value == {0, 1}

Run  == [op |-> "run"]
Done == [op |-> "done"]

Stop ==
  [op : {"unborn", "run", "done", "start", "gate", "late", "deliver", "check"}]
    \cup [op : {"async", "spawn", "spawnGated"}, group : Group \cup {NoGroup}]
    \cup [op : {"join"}, target : Thread]
    \cup [op : {"wait"}, word : Word, expected : Value, cancelable : BOOLEAN]
    \cup [op : {"wake"}, word : Word, count : program.wakes]
    \cup [op : {"store"}, word : Word, value : Value]

NoPlan == [mode |-> "none", left |-> {}, all |-> {}]
Plan   == [mode : {"none", "join", "await", "cancel"}, left : SUBSET Thread, all : SUBSET Thread]

Born == {t \in Thread : t < size}

TypeOK ==
  /\ size \in Nat \ {0}
  /\ current \in Thread
  /\ at \in [Thread -> Stop]
  /\ spawner \in [Thread -> Thread]
  /\ joined \in [Thread -> BOOLEAN]
  /\ gated \in [Thread -> BOOLEAN]
  /\ group \in [Thread -> Group \cup {NoGroup}]
  /\ word \in [Word -> Value]
  /\ sleeping \in [Thread -> Word \cup {NoWord}]
  /\ woken \in [Thread -> Nat]
  /\ cancels \in [Thread -> Nat]
  /\ plan \in [Thread -> Plan]
  /\ program \in Programs
  /\ calls \in 0 .. program.max
  /\ outcome \in {"running", "ok", "illegal", "deadlock"}
  /\ \A t \in Thread : at[t].op = "unborn" <=> t \notin Born

Init ==
  /\ size = 1
  /\ current = 0
  /\ at = [t \in Thread |-> IF t = 0 THEN Run ELSE [op |-> "unborn"]]
  /\ spawner = [t \in Thread |-> 0]
  /\ joined = [t \in Thread |-> t = 0]
  /\ gated = [t \in Thread |-> FALSE]
  /\ group = [t \in Thread |-> NoGroup]
  /\ word = [w \in Word |-> 0]
  /\ sleeping = [t \in Thread |-> NoWord]
  /\ woken = [t \in Thread |-> 0]
  /\ cancels = [t \in Thread |-> 0]
  /\ plan = [t \in Thread |-> NoPlan]
  /\ program \in Programs
  /\ calls = 0
  /\ outcome = "running"

Running(t) == outcome = "running" /\ at[t] = Run

(* The running thread makes a call. *)
Call(t, c) ==
  /\ Running(t)
  /\ c \in program.calls
  /\ calls < program.max
  /\ calls' = calls + 1
  /\ UNCHANGED program

StopAt(t, s) == at' = [at EXCEPT ![t] = s]

(* An error of any thread is the outcome of the run. *)
Fail ==
  /\ outcome' = "illegal"
  /\ UNCHANGED <<at, table, queue, cancels, plan>>

-----------------------------------------------------------------------------
(* Groups and requests.                                                    *)

Members(g) == {u \in Born : group[u] = g}

IsGated(u) == gated[u] /\ group[u] # NoGroup

GroupTake(g) ==
  /\ group' = [u \in Thread |-> IF group[u] = g THEN NoGroup ELSE group[u]]
  /\ UNCHANGED <<size, spawner, joined, gated>>

TaskIn(S) == S \ {0}

Requested(S) == [u \in Thread |-> IF u \in TaskIn(S) THEN cancels[u] + 1 ELSE cancels[u]]

WakeThreads(S) ==
  /\ sleeping' = [u \in Thread |-> IF u \in S THEN NoWord ELSE sleeping[u]]
  /\ woken' = [u \in Thread |-> IF u \in S THEN woken[u] + 1 ELSE woken[u]]
  /\ UNCHANGED word

Asleep(S) == {u \in S : sleeping[u] # NoWord}

(* Mutant: every canceled task gets a wake, also one that is not asleep. *)
CancelWakesAll(S) == WakeThreads(S)

(* A request wakes the tasks of S that sleep at a futex. *)
CancelWakes(S) == WakeThreads(Asleep(S))

(* A pending request of the caller; main is never canceled. *)
CancelPending(t) == t # 0 /\ cancels[t] > 0

TakeCancel(t) == cancels' = [cancels EXCEPT ![t] = @ - 1]

Least(S) == CHOOSE u \in S : \A v \in S : u <= v

(* Mutants: the requests of the joined tasks stay, or one of each is taken *)
(* away, as for a delivery.                                                *)
DropCancelsKept(canc, S) == canc
DropCancelsOne(canc, S) == [u \in Thread |-> IF u \in S THEN canc[u] - 1 ELSE canc[u]]
DropCancels(canc, S) == [u \in Thread |-> IF u \in S THEN 0 ELSE canc[u]]

(* The caller goes on with its joins: it stops at the next one, or, with   *)
(* no join left, ends the await or the cancel.  canc are the requests.     *)
GoOnJoining(t, p, canc) ==
  \/ /\ p.left # {}
     /\ plan' = [plan EXCEPT ![t] = p]
     /\ cancels' = canc
     /\ StopAt(t, IF p.mode = "await" /\ canc[t] > 0
                    THEN [op |-> "deliver"]
                    ELSE [op |-> "join", target |-> Least(p.left)])
  \/ /\ p.left = {}
     /\ plan' = [plan EXCEPT ![t] = NoPlan]
     /\ cancels' = IF p.mode = "cancel" THEN DropCancels(canc, p.all) ELSE canc
     /\ StopAt(t, IF p.mode = "await" /\ canc[t] > 0 THEN [op |-> "late"] ELSE Run)

-----------------------------------------------------------------------------
(* The calls of the running thread, up to their first stop.                *)

Store(t, w, v) ==
  /\ Call(t, "store")
  /\ StopAt(t, [op |-> "store", word |-> w, value |-> v])
  /\ UNCHANGED <<current, table, queue, cancels, plan, outcome>>

Wake(t, w, n) ==
  /\ Call(t, "wake")
  /\ StopAt(t, [op |-> "wake", word |-> w, count |-> n])
  /\ UNCHANGED <<current, table, queue, cancels, plan, outcome>>

Wait(t, w, v) ==
  /\ Call(t, "wait")
  /\ StopAt(t, [op |-> "wait", word |-> w, expected |-> v, cancelable |-> FALSE])
  /\ UNCHANGED <<current, table, queue, cancels, plan, outcome>>

(* A request that is pending at the call is delivered at once. *)
WaitCancelable(t, w, v) ==
  /\ Call(t, "waitCancelable")
  /\ \/ CancelPending(t) /\ TakeCancel(t) /\ UNCHANGED at
     \/ /\ ~CancelPending(t)
        /\ StopAt(t, [op |-> "wait", word |-> w, expected |-> v, cancelable |-> TRUE])
        /\ UNCHANGED cancels
  /\ UNCHANGED <<current, table, queue, plan, outcome>>

(* Io.checkCancel: a scheduling point, then a cancelation point. *)
CheckCancel(t) ==
  /\ Call(t, "checkCancel")
  /\ StopAt(t, [op |-> "check"])
  /\ UNCHANGED <<current, table, queue, cancels, plan, outcome>>

(* The thread ids bound the spawns of a run, the pending ones included. *)
RoomForSpawn ==
  size + Cardinality({u \in Thread : at[u].op \in {"async", "spawn", "spawnGated"}}) \in Thread

(* std.Thread.spawn has no group; Group.concurrent is a spawn in a group. *)
SpawnCall(t, g) ==
  /\ RoomForSpawn
  /\ Call(t, IF g = NoGroup THEN "spawn" ELSE "concurrent")
  /\ StopAt(t, [op |-> "spawn", group |-> g])
  /\ UNCHANGED <<current, table, queue, cancels, plan, outcome>>

Async(t, g) ==
  /\ RoomForSpawn
  /\ Call(t, "async")
  /\ StopAt(t, [op |-> "async", group |-> g])
  /\ UNCHANGED <<current, table, queue, cancels, plan, outcome>>

JoinCall(t, u) ==
  /\ Call(t, "join")
  /\ StopAt(t, [op |-> "join", target |-> u])
  /\ UNCHANGED <<current, table, queue, cancels, plan, outcome>>

(* Group.await takes the tasks of the group and joins them. *)
Await(t, g) ==
  /\ Call(t, "await")
  /\ GroupTake(g)
  /\ GoOnJoining(t, [mode |-> IF t = 0 THEN "join" ELSE "await",
                     left |-> Members(g), all |-> Members(g)], cancels)
  /\ UNCHANGED <<current, queue, outcome>>

(* Group.cancel takes the tasks, requests their cancelation, joins them.   *)
Cancel(t, g) ==
  /\ Call(t, "cancel")
  /\ GroupTake(g)
  /\ CancelWakes(Members(g))
  /\ GoOnJoining(t, [mode |-> "cancel", left |-> Members(g), all |-> Members(g)],
                 Requested(Members(g)))
  /\ UNCHANGED <<current, outcome>>

(* Mutant: a deferred task has no thread of its own and is not counted. *)
OwesJoinStarted(t) == \E u \in Born : spawner[u] = t /\ ~joined[u] /\ ~gated[u]
OwesJoin(t) == \E u \in Born : spawner[u] = t /\ ~joined[u]

End(t) ==
  /\ Running(t)
  /\ \/ /\ ~OwesJoin(t)
        /\ StopAt(t, Done)
        /\ outcome' = IF t = 0 THEN "ok" ELSE outcome
        /\ UNCHANGED <<table, queue, cancels, plan>>
     \/ OwesJoin(t) /\ Fail
  /\ UNCHANGED <<current, program, calls>>

-----------------------------------------------------------------------------
(* The scheduler: a turn of a thread that can go on.                       *)

(* Mutant: a deferred task may be joined while its group holds it. *)
JoinValidGated(t, u) == u \in Born /\ spawner[u] = t /\ ~joined[u]
JoinValid(t, u) == u \in Born /\ spawner[u] = t /\ ~joined[u] /\ ~IsGated(u)

CanGo(t) ==
  CASE at[t].op = "join" -> JoinValid(t, at[t].target) => at[at[t].target] = Done
    [] at[t].op = "wait" -> sleeping[t] = NoWord
    [] at[t].op = "gate" -> ~IsGated(t)
    [] OTHER -> at[t].op \notin {"unborn", "run", "done"}

NoneRuns == outcome = "running" /\ \A t \in Thread : at[t] # Run

Turn(t, op) ==
  /\ NoneRuns
  /\ at[t].op = op
  /\ CanGo(t)
  /\ current' = t
  /\ UNCHANGED <<program, calls>>

(* A new thread and a released task run for the first time. *)
Begin(t) ==
  /\ Turn(t, "start") \/ Turn(t, "gate")
  /\ StopAt(t, Run)
  /\ UNCHANGED <<table, queue, cancels, plan, outcome>>

DoStore(t) ==
  /\ Turn(t, "store")
  /\ word' = [word EXCEPT ![at[t].word] = at[t].value]
  /\ StopAt(t, Run)
  /\ UNCHANGED <<table, sleeping, woken, cancels, plan, outcome>>

Waiters(w) == {u \in Thread : sleeping[u] = w}

(* The oracle picks which of the waiters a wake reaches. *)
DoWake(t) ==
  /\ Turn(t, "wake")
  /\ \E S \in SUBSET Waiters(at[t].word) :
       /\ \/ Cardinality(S) = at[t].count
          \/ Cardinality(S) <= at[t].count /\ S = Waiters(at[t].word)
       /\ WakeThreads(S)
  /\ StopAt(t, Run)
  /\ UNCHANGED <<table, cancels, plan, outcome>>

(* A wait returns; a cancelable one with a request that arrived while it   *)
(* waited asks the oracle whether it is delivered here.                    *)
WaitReturns(t) ==
  StopAt(t, IF at[t].cancelable /\ CancelPending(t) THEN [op |-> "late"] ELSE Run)

(* Mutant: a woken thread leaves its wake behind. *)
WokenReturnsKept(t) ==
  /\ Turn(t, "wait")
  /\ woken[t] > 0
  /\ WaitReturns(t)
  /\ UNCHANGED <<table, queue, cancels, plan, outcome>>

WokenReturns(t) ==
  /\ Turn(t, "wait")
  /\ woken[t] > 0
  /\ woken' = [woken EXCEPT ![t] = @ - 1]
  /\ WaitReturns(t)
  /\ UNCHANGED <<table, word, sleeping, cancels, plan, outcome>>

(* The value differs, or the wait returns spuriously in place of a sleep. *)
WaitGoesOn(t) ==
  /\ Turn(t, "wait")
  /\ woken[t] = 0
  /\ WaitReturns(t)
  /\ UNCHANGED <<table, queue, cancels, plan, outcome>>

Sleep(t) ==
  /\ Turn(t, "wait")
  /\ woken[t] = 0
  /\ word[at[t].word] = at[t].expected
  /\ sleeping' = [sleeping EXCEPT ![t] = at[t].word]
  /\ UNCHANGED <<at, table, word, woken, cancels, plan, outcome>>

(* The end of a blocking cancelation point: the request is delivered, or   *)
(* stays pending.                                                          *)
LateCancel(t) ==
  /\ Turn(t, "late")
  /\ TakeCancel(t) \/ UNCHANGED cancels
  /\ StopAt(t, Run)
  /\ UNCHANGED <<table, queue, plan, outcome>>

DoCheckCancel(t) ==
  /\ Turn(t, "check")
  /\ \/ cancels[t] > 0 /\ TakeCancel(t)
     \/ cancels[t] = 0 /\ UNCHANGED cancels
  /\ StopAt(t, Run)
  /\ UNCHANGED <<table, queue, plan, outcome>>

(* The execution of an async task that the environment picks: a thread,    *)
(* the caller at once, or deferred.                                        *)
BusyBound == size - 1

AsyncChoice(t) ==
  /\ Turn(t, "async")
  /\ \/ StopAt(t, [op |-> "spawn", group |-> at[t].group])
     \/ (program.cpus = 0 \/ program.cpus - 1 <= BusyBound) /\ StopAt(t, Run)
     \/ program.cpus = 0 /\ StopAt(t, [op |-> "spawnGated", group |-> at[t].group])
  /\ UNCHANGED <<table, queue, cancels, plan, outcome>>

Fork(t, isGated, g, first) ==
  /\ size' = size + 1
  /\ spawner' = [spawner EXCEPT ![size] = t]
  /\ joined' = [joined EXCEPT ![size] = FALSE]
  /\ gated' = [gated EXCEPT ![size] = isGated]
  /\ group' = [group EXCEPT ![size] = g]
  /\ at' = [at EXCEPT ![t] = Run, ![size] = first]

Spawn(t) ==
  /\ Turn(t, "spawn")
  /\ Fork(t, FALSE, at[t].group, [op |-> "start"])
  /\ UNCHANGED <<queue, cancels, plan, outcome>>

(* The assignment fails: async runs the task in the caller, concurrent and *)
(* spawn return an error.                                                  *)
SpawnFails(t) ==
  /\ program.policy = "fallible"
  /\ Turn(t, "spawn")
  /\ StopAt(t, Run)
  /\ UNCHANGED <<table, queue, cancels, plan, outcome>>

SpawnGated(t) ==
  /\ Turn(t, "spawnGated")
  /\ Fork(t, TRUE, at[t].group, [op |-> "gate"])
  /\ UNCHANGED <<queue, cancels, plan, outcome>>

(* A join of a plain call, or one of the joins of an await or a cancel. *)
Join(t) ==
  LET u == at[t].target
      p == plan[t]
  IN  /\ Turn(t, "join")
      /\ JoinValid(t, u)
      /\ joined' = [joined EXCEPT ![u] = TRUE]
      /\ \/ p = NoPlan /\ StopAt(t, Run) /\ UNCHANGED <<plan, cancels>>
         \/ p # NoPlan /\ GoOnJoining(t, [p EXCEPT !.left = @ \ {u}], cancels)
      /\ UNCHANGED <<size, spawner, gated, group, queue, outcome>>

JoinFails(t) ==
  /\ Turn(t, "join")
  /\ ~JoinValid(t, at[t].target)
  /\ Fail

(* Mutant: the canceled awaiter leaves without the joins. *)
DeliverInAwaitLeaves(t) ==
  /\ Turn(t, "deliver")
  /\ TakeCancel(t)
  /\ StopAt(t, Run)
  /\ plan' = [plan EXCEPT ![t] = NoPlan]
  /\ UNCHANGED <<table, queue, outcome>>

(* Before a join, the pending request of an awaiting task is delivered:    *)
(* it cancels the rest of its group, joins it, and is canceled.            *)
DeliverInAwait(t) ==
  LET left == plan[t].left
  IN  /\ Turn(t, "deliver")
      /\ CancelWakes(left)
      /\ GoOnJoining(t, [mode |-> "cancel", left |-> left, all |-> left],
                     [Requested(left) EXCEPT ![t] = @ - 1])
      /\ UNCHANGED <<table, outcome>>

(* Or it stays pending and the await goes on with the join. *)
DeferInAwait(t) ==
  /\ Turn(t, "deliver")
  /\ StopAt(t, [op |-> "join", target |-> Least(plan[t].left)])
  /\ UNCHANGED <<table, queue, cancels, plan, outcome>>

(* No thread can go on and one has not ended. *)
Deadlock ==
  /\ NoneRuns
  /\ \A t \in Thread : ~CanGo(t)
  /\ outcome' = "deadlock"
  /\ UNCHANGED <<current, at, table, queue, cancels, plan, program, calls>>

-----------------------------------------------------------------------------
CallOf(t) ==
  \/ \E w \in Word, v \in Value : Store(t, w, v) \/ Wait(t, w, v) \/ WaitCancelable(t, w, v)
  \/ \E w \in Word, n \in program.wakes : Wake(t, w, n)
  \/ CheckCancel(t)
  \/ \E g \in Group \cup {NoGroup} : SpawnCall(t, g)
  \/ \E g \in Group : Async(t, g) \/ Await(t, g) \/ Cancel(t, g)
  \/ \E u \in Thread : JoinCall(t, u)
  \/ End(t)

TurnOf(t) ==
  \/ Begin(t)
  \/ DoStore(t)
  \/ DoWake(t)
  \/ WokenReturns(t)
  \/ WaitGoesOn(t)
  \/ Sleep(t)
  \/ LateCancel(t)
  \/ DoCheckCancel(t)
  \/ AsyncChoice(t)
  \/ Spawn(t)
  \/ SpawnFails(t)
  \/ SpawnGated(t)
  \/ Join(t)
  \/ JoinFails(t)
  \/ DeliverInAwait(t)
  \/ DeferInAwait(t)

Next == (\E t \in Thread : CallOf(t) \/ TurnOf(t)) \/ Deadlock

Spec == Init /\ [][Next]_vars

-----------------------------------------------------------------------------
(* Properties.                                                             *)

(* A wake belongs to one wait: a thread in the list of woken threads is    *)
(* still at the wait that was woken, once, and asleep no more, so no later *)
(* wait of it returns on a stale wake.                                     *)
WakeIsForThisWait ==
  \A t \in Thread : woken[t] > 0 => woken[t] = 1 /\ at[t].op = "wait" /\ sleeping[t] = NoWord

(* Every pending cancel request belongs to a cancel that still joins: no   *)
(* task has two, and none is left to hit a task or a caller later.         *)
RequestHasCanceler ==
  \A t \in Thread :
    cancels[t] > 0 =>
      /\ cancels[t] = 1
      /\ \E u \in Thread : plan[u].mode = "cancel" /\ t \in plan[u].all

(* An await or a cancel returns only when every task of the group has      *)
(* ended and is joined, also an await that a request interrupted.          *)
GroupReturnsAfterTasks ==
  [][\A t \in Thread :
       plan[t].left # {} /\ plan'[t].left = {} =>
         \A u \in plan[t].all : at[u] = Done /\ joined'[u]]_vars

(* A deadlock needs a thread that sleeps at a futex: joins, groups and     *)
(* deferred tasks alone never block each other.                            *)
DeadlockNeedsSleeper == outcome = "deadlock" => \E t \in Thread : sleeping[t] # NoWord

(* Main returns a result only after every thread has ended, deferred tasks *)
(* of every group included.                                                *)
OkMeansAllEnded == outcome = "ok" => \A t \in Born : at[t] = Done

(* What docs/std-models.md says of Io.futexWait: a request pending at the  *)
(* call is delivered at once, and one that arrives during the wait wakes   *)
(* it; so no run ends with a canceled task asleep in a cancelable wait.    *)
CancelEndsCancelableWait ==
  outcome = "deadlock" =>
    ~ \E t \in Thread : sleeping[t] # NoWord /\ at[t].cancelable /\ cancels[t] > 0

=============================================================================
