------------------------------- MODULE IoProofs --------------------------------
(***************************************************************************)
(* Proofs about what std.Io adds to the scheduler: groups, futexes and     *)
(* cancel requests (Tasks), futures (Futures) and timed waits (TimedWait), *)
(* for any threads, programs, futures and budgets.                         *)
(***************************************************************************)
EXTENDS MCIo, TLAPS, FiniteSetTheorems, WellFoundedInduction

(***************************************************************************)
(* Tasks: wakes, plans and requests.                                       *)
(***************************************************************************)

(* Who sleeps is at a wait. *)
SleepersWait == \A t \in Thread : sleeping[t] # NoWord => at[t].op = "wait"

(* A plan is what its owner still has to join: it is stopped at the next   *)
(* join, or at the choice before it.                                       *)
PlanShape ==
  \A t \in Thread :
    /\ plan[t].left \subseteq plan[t].all /\ plan[t].all \subseteq Born
    /\ plan[t] # NoPlan => at[t].op \in {"join", "deliver"} /\ plan[t].left # {}
    /\ plan[t].mode = "none" => plan[t] = NoPlan
    /\ at[t].op = "deliver" => plan[t].mode = "await"

(* A choice whether to deliver has a request to deliver. *)
RequestToDeliver == \A t \in Thread : at[t].op \in {"late", "deliver"} => cancels[t] > 0

(* A task is in one group or in one plan. *)
PlansApart ==
  /\ \A t \in Thread, u \in Thread : t # u => plan[t].all \cap plan[u].all = {}
  /\ \A t \in Thread : \A u \in plan[t].all : group[u] = NoGroup

(* What a plan has joined has ended. *)
PlanJoined ==
  \A t \in Thread : \A u \in plan[t].all \ plan[t].left : at[u] = Done /\ joined[u]

TaskInv ==
  /\ TypeOK
  /\ WakeIsForThisWait
  /\ SleepersWait
  /\ PlanShape
  /\ RequestToDeliver
  /\ PlansApart
  /\ PlanJoined
  /\ RequestHasCanceler

(***************************************************************************)
(* Tasks: handles and the end of a run.                                    *)
(***************************************************************************)

(* A spawner is older than its task, who ends has joined its tasks, and    *)
(* main ends last.                                                         *)
Handled ==
  /\ joined[0] /\ ~gated[0]
  /\ \A u \in Born \ {0} : spawner[u] < u /\ spawner[u] \in Born
  /\ \A u \in Born \ {0} : joined[u] => at[u] = Done
  /\ \A t, u \in Born : at[t] = Done /\ spawner[u] = t => joined[u]
  /\ outcome = "running" => at[0] # Done
  /\ outcome = "ok" => at[0] = Done

(***************************************************************************)
(* Facts about the operators of Tasks.                                     *)
(***************************************************************************)

LEMMA LeastIn ==
  ASSUME NEW S \in SUBSET Thread, S # {}
  PROVE  Least(S) \in S /\ \A v \in S : Least(S) <= v
<1> DEFINE R == OpToRel(<, Nat)
<1>1. S \subseteq Nat
  BY ThreadAssumption
<1>2. PICK u \in S : \A v \in S : ~(<<v, u>> \in R)
  <2>1. IsWellFoundedOn(R, Nat)
    BY NatLessThanWellFounded DEF R
  <2> HIDE DEF R
  <2>. QED BY <2>1, <1>1, WFMin
<1>3. \A v \in S : ~(v < u)
  BY <1>1, <1>2 DEF OpToRel
<1> HIDE DEF R
<1>4. \A v \in S : u <= v
  BY <1>1, <1>3
<1>. QED BY <1>4 DEF Least

LEMMA CanGoMeans ==
  ASSUME NEW t \in Thread
  PROVE  /\ at[t].op = "join" => (CanGo(t) <=> (JoinValid(t, at[t].target) => at[at[t].target] = Done))
         /\ at[t].op = "wait" => (CanGo(t) <=> sleeping[t] = NoWord)
         /\ at[t].op = "gate" => (CanGo(t) <=> ~IsGated(t))
         /\ at[t].op \notin {"join", "wait", "gate"} =>
              (CanGo(t) <=> at[t].op \notin {"unborn", "run", "done"})
BY DEF CanGo

LEMMA StopMeans ==
  ASSUME TypeOK, NEW t \in Thread
  PROVE  /\ at[t].op = "run" <=> at[t] = Run
         /\ at[t].op = "done" <=> at[t] = Done
         /\ at[t].op = "join" => at[t].target \in Thread
         /\ at[t].op = "wait" => at[t].word \in Word /\ at[t].cancelable \in BOOLEAN
         /\ at[t].op = "store" => at[t].word \in Word /\ at[t].value \in Value
         /\ at[t].op \in {"async", "spawn", "spawnGated"} => at[t].group \in Group \cup {NoGroup}
<1>1. at[t] \in Stop
  BY DEF TypeOK
<1>. QED BY <1>1 DEF Stop, Run, Done

LEMMA BornIsKept == UNCHANGED size => Born' = Born
BY DEF Born

LEMMA StopsAreKept == UNCHANGED program => Stop' = Stop
BY DEF Stop

(* The types that a step at one thread must see to. *)
LEMMA StepTypes ==
  ASSUME TypeOK, UNCHANGED <<size, spawner, gated, program>>, NEW t \in Thread, NEW s \in Stop,
         at' = [at EXCEPT ![t] = s], at[t].op # "unborn", s.op # "unborn",
         current' \in Thread,
         joined' \in [Thread -> BOOLEAN],
         group' \in [Thread -> Group \cup {NoGroup}],
         word' \in [Word -> Value],
         sleeping' \in [Thread -> Word \cup {NoWord}],
         woken' \in [Thread -> Nat],
         cancels' \in [Thread -> Nat],
         plan' \in [Thread -> Plan],
         calls' \in 0 .. program.max,
         outcome' \in {"running", "ok", "illegal", "deadlock"}
  PROVE  TypeOK'
<1>1. Stop' = Stop /\ Born' = Born
  BY BornIsKept, StopsAreKept
<1>2. at' \in [Thread -> Stop'] /\ \A u \in Thread : at'[u].op = "unborn" <=> u \notin Born'
  BY <1>1 DEF TypeOK
<1>. QED BY <1>1, <1>2 DEF TypeOK

(***************************************************************************)
(* What the steps have in common.                                          *)
(***************************************************************************)

LEMMA WakesUntouched ==
  ASSUME TaskInv, UNCHANGED <<sleeping, woken>>,
         \A u \in Thread : at[u].op = "wait" => at'[u].op = "wait"
  PROVE  WakeIsForThisWait' /\ SleepersWait'
BY DEF TaskInv, WakeIsForThisWait, SleepersWait

(* A wake or a cancel marks threads that sleep, each for the first time. *)
LEMMA SleepersWoken ==
  ASSUME TaskInv, NEW S \in SUBSET Thread, \A u \in S : sleeping[u] # NoWord, WakeThreads(S),
         \A u \in Thread : at[u].op = "wait" => at'[u].op = "wait"
  PROVE  /\ WakeIsForThisWait' /\ SleepersWait'
         /\ word' = word
         /\ sleeping' \in [Thread -> Word \cup {NoWord}] /\ woken' \in [Thread -> Nat]
<1>1. /\ woken \in [Thread -> Nat] /\ sleeping \in [Thread -> Word \cup {NoWord}]
  BY DEF TaskInv, TypeOK
<1>2. ASSUME NEW u \in Thread
      PROVE  /\ u \in S => woken[u] = 0 /\ at[u].op = "wait" /\ woken'[u] = 1 /\ sleeping'[u] = NoWord
             /\ u \notin S => woken'[u] = woken[u] /\ sleeping'[u] = sleeping[u]
  <2>1. u \in S => woken[u] = 0 /\ at[u].op = "wait"
    BY <1>1 DEF TaskInv, WakeIsForThisWait, SleepersWait
  <2>. QED BY <2>1, <1>1 DEF WakeThreads
<1>3. /\ word' = word
      /\ sleeping' \in [Thread -> Word \cup {NoWord}] /\ woken' \in [Thread -> Nat]
  BY <1>1 DEF WakeThreads
<1>4. WakeIsForThisWait' /\ SleepersWait'
  BY <1>2 DEF TaskInv, WakeIsForThisWait, SleepersWait
<1>. QED BY <1>3, <1>4

PlanInv == PlanShape /\ RequestToDeliver /\ PlansApart /\ PlanJoined /\ RequestHasCanceler

(* A step of t, and perhaps the first of a new thread, that leaves the     *)
(* plans and at most takes a request of t.                                 *)
LEMMA PlansUntouched ==
  ASSUME TaskInv, UNCHANGED plan, NEW t \in Thread,
         Born \subseteq Born',
         at[t] # Done,
         \A u \in Thread : u # t => \/ at'[u] = at[u]
                                    \/ at[u].op = "unborn" /\ at'[u].op \in {"start", "gate"},
         plan[t] # NoPlan => at'[t].op \in {"join", "deliver"},
         at'[t].op = "deliver" => plan[t].mode = "await",
         at'[t].op \in {"late", "deliver"} => cancels'[t] > 0,
         \A u \in Born : joined[u] => joined'[u],
         \A u \in Born : group[u] = NoGroup => group'[u] = NoGroup,
         \A u \in Thread : u # t => cancels'[u] = cancels[u],
         cancels'[t] = cancels[t] \/ cancels'[t] = cancels[t] - 1
  PROVE  PlanInv'
<1>1. PlanShape'
  BY DEF TaskInv, PlanShape
<1>2. RequestToDeliver'
  BY DEF TaskInv, RequestToDeliver
<1>3. \A u \in Thread : plan[u].all \subseteq Born /\ Born \subseteq Thread
  BY DEF TaskInv, PlanShape, Born
<1>4. PlansApart'
  BY <1>3 DEF TaskInv, PlansApart
<1>5. PlanJoined'
  <2> SUFFICES ASSUME NEW u \in Thread, NEW v \in plan[u].all \ plan[u].left
               PROVE  at'[v] = Done /\ joined'[v]
    BY DEF PlanJoined
  <2>1. at[v] = Done /\ joined[v] /\ v \in Born /\ v \in Thread
    BY <1>3 DEF TaskInv, PlanJoined
  <2>. QED BY <2>1 DEF Done
<1>6. RequestHasCanceler'
  <2>1. cancels[t] \in Nat
    BY DEF TaskInv, TypeOK
  <2>2. \A u \in Thread : cancels'[u] > 0 => cancels[u] > 0 /\ cancels'[u] = cancels[u]
    BY <2>1 DEF TaskInv, RequestHasCanceler
  <2>. QED BY <2>2 DEF TaskInv, RequestHasCanceler
<1>. QED BY <1>1, <1>2, <1>4, <1>5, <1>6 DEF PlanInv

(* A step of t that goes on with the joins of p. *)
LEMMA JoiningKeepsPlans ==
  ASSUME TaskInv, NEW t \in Thread, NEW p \in Plan, NEW canc,
         canc \in [Thread -> Nat],
         GoOnJoining(t, p, canc), UNCHANGED <<size, program>>,
         p.mode # "none", p.left \subseteq p.all, p.all \subseteq Born,
         at[t].op \notin {"unborn", "done", "wait"},
         \A u \in Thread : u # t => plan[u].all \cap p.all = {},
         \A u \in p.all \ p.left : at[u] = Done /\ joined'[u],
         \A u \in Born : joined[u] => joined'[u],
         \A u \in Born : group[u] = NoGroup => group'[u] = NoGroup,
         \A u \in p.all : group'[u] = NoGroup,
         \A u \in Thread : canc[u] > 0 =>
            /\ canc[u] = 1
            /\ \/ p.mode = "cancel" /\ u \in p.all
               \/ \E v \in Thread : v # t /\ plan[v].mode = "cancel" /\ u \in plan[v].all,
         \A u \in Thread : u # t /\ at[u].op \in {"late", "deliver"} => canc[u] > 0
  PROVE  /\ PlanInv'
         /\ plan' \in [Thread -> Plan] /\ cancels' \in [Thread -> Nat]
         /\ \E s \in Stop : at' = [at EXCEPT ![t] = s] /\ s.op \in {"deliver", "join", "late", "run"}
<1>1. /\ plan \in [Thread -> Plan] /\ at \in [Thread -> Stop] /\ Born' = Born /\ Born \subseteq Thread
      /\ TypeOK
  BY DEF TaskInv, TypeOK, Born
<1>2. NoPlan \in Plan /\ NoPlan.left = {} /\ NoPlan.all = {} /\ NoPlan.mode = "none"
  BY DEF NoPlan, Plan
<1>3. \A u \in Thread : plan[u].mode = "none" => plan[u] = NoPlan
  BY DEF TaskInv, PlanShape
<1>4. CASE p.left # {}
  <2> DEFINE s == IF p.mode = "await" /\ canc[t] > 0
                    THEN [op |-> "deliver"] ELSE [op |-> "join", target |-> Least(p.left)]
  <2>1. Least(p.left) \in p.left /\ Least(p.left) \in Thread
    BY <1>1, <1>4, LeastIn
  <2>2. plan' = [plan EXCEPT ![t] = p] /\ cancels' = canc /\ at' = [at EXCEPT ![t] = s]
    BY <1>4 DEF GoOnJoining, StopAt
  <2>3. s \in Stop /\ s.op \in {"deliver", "join"}
        /\ (s.op = "deliver" => p.mode = "await" /\ canc[t] > 0)
    <3>1. [op |-> "join", target |-> Least(p.left)] \in Stop
      BY <2>1 DEF Stop
    <3>2. [op |-> "deliver"] \in Stop
      BY DEF Stop
    <3>. QED BY <3>1, <3>2
  <2> HIDE DEF s
  <2>4. /\ plan'[t] = p /\ at'[t] = s
        /\ \A u \in Thread : u # t => plan'[u] = plan[u] /\ at'[u] = at[u]
    BY <2>2, <1>1
  <2>5. PlanShape'
    BY <1>1, <1>4, <2>3, <2>4 DEF TaskInv, PlanShape
  <2>6. RequestToDeliver'
    BY <2>2, <2>3, <2>4 DEF RequestToDeliver
  <2>7. PlansApart'
    <3>1. \A u, v \in Thread : u # v => plan'[u].all \cap plan'[v].all = {}
      BY <2>4 DEF TaskInv, PlansApart
    <3>2. \A u \in Thread : \A v \in plan'[u].all : group'[v] = NoGroup
      BY <2>4 DEF TaskInv, PlansApart, PlanShape
    <3>. QED BY <3>1, <3>2 DEF PlansApart
  <2>8. PlanJoined'
    <3> SUFFICES ASSUME NEW u \in Thread, NEW v \in plan'[u].all \ plan'[u].left
                 PROVE  at'[v] = Done /\ joined'[v]
      BY DEF PlanJoined
    <3>1. v \in Born /\ at[v] = Done /\ joined'[v]
      BY <2>4 DEF TaskInv, PlanJoined, PlanShape
    <3>2. v # t /\ v \in Thread
      BY <3>1, <1>1 DEF Done
    <3>. QED BY <3>1, <3>2, <2>4
  <2>9. RequestHasCanceler'
    <3> SUFFICES ASSUME NEW u \in Thread, canc[u] > 0
                 PROVE  canc[u] = 1 /\ \E v \in Thread : plan'[v].mode = "cancel" /\ u \in plan'[v].all
      BY <2>2 DEF RequestHasCanceler
    <3>. QED BY <2>4
  <2>. QED BY <1>1, <2>2, <2>3, <2>5, <2>6, <2>7, <2>8, <2>9 DEF PlanInv
<1>5. CASE p.left = {}
  <2> DEFINE s == IF p.mode = "await" /\ canc[t] > 0 THEN [op |-> "late"] ELSE Run
  <2>1. /\ plan' = [plan EXCEPT ![t] = NoPlan] /\ at' = [at EXCEPT ![t] = s]
        /\ cancels' = IF p.mode = "cancel" THEN DropCancels(canc, p.all) ELSE canc
    BY <1>5 DEF GoOnJoining, StopAt
  <2>2. s \in Stop /\ s.op \in {"late", "run"} /\ (s.op = "late" => p.mode = "await" /\ canc[t] > 0)
    BY DEF Stop, Run
  <2> HIDE DEF s
  <2>3. cancels' \in [Thread -> Nat]
    BY <2>1 DEF DropCancels
  <2>4. /\ plan'[t] = NoPlan /\ at'[t] = s
        /\ \A u \in Thread : u # t => plan'[u] = plan[u] /\ at'[u] = at[u]
    BY <2>1, <1>1
  <2>5. PlanShape'
    BY <1>1, <1>2, <2>2, <2>4 DEF TaskInv, PlanShape
  <2>6. RequestToDeliver'
    <3> SUFFICES ASSUME NEW u \in Thread, at'[u].op \in {"late", "deliver"} PROVE cancels'[u] > 0
      BY DEF RequestToDeliver
    <3>1. CASE u = t
      BY <3>1, <2>1, <2>2, <2>4
    <3>2. CASE u # t
      <4>1. canc[u] > 0 /\ at[u] # Done
        BY <3>2, <2>4 DEF Done
      <4>2. u \notin p.all
        BY <4>1, <1>5
      <4>. QED BY <4>1, <4>2, <2>1 DEF DropCancels
    <3>. QED BY <3>1, <3>2
  <2>7. PlansApart'
    BY <1>1, <1>2, <2>4 DEF TaskInv, PlansApart, PlanShape
  <2>8. PlanJoined'
    <3> SUFFICES ASSUME NEW u \in Thread, NEW v \in plan'[u].all \ plan'[u].left
                 PROVE  at'[v] = Done /\ joined'[v]
      BY DEF PlanJoined
    <3>1. v \in Born /\ at[v] = Done /\ joined'[v]
      BY <1>2, <2>4 DEF TaskInv, PlanJoined, PlanShape
    <3>2. v # t /\ v \in Thread
      BY <3>1, <1>1 DEF Done
    <3>. QED BY <3>1, <3>2, <2>4
  <2>9. RequestHasCanceler'
    <3> SUFFICES ASSUME NEW u \in Thread, cancels'[u] > 0
                 PROVE  cancels'[u] = 1 /\ \E v \in Thread : plan'[v].mode = "cancel" /\ u \in plan'[v].all
      BY DEF RequestHasCanceler
    <3>1. cancels'[u] = canc[u] /\ ~(p.mode = "cancel" /\ u \in p.all)
      BY <2>1 DEF DropCancels
    <3>. QED BY <2>4, <3>1
  <2>. QED BY <1>1, <1>2, <2>1, <2>2, <2>3, <2>5, <2>6, <2>7, <2>8, <2>9 DEF PlanInv
<1>. QED BY <1>4, <1>5

(***************************************************************************)
(* The calls of the running thread.                                        *)
(***************************************************************************)

LEMMA FailKeepsTasks ==
  ASSUME TaskInv, Fail, UNCHANGED <<program, calls>>, current' \in Thread
  PROVE  TaskInv'
<1> USE DEF table, queue
<1>1. Stop' = Stop /\ Born' = Born
  BY BornIsKept, StopsAreKept DEF Fail
<1>2. TypeOK'
  BY <1>1 DEF TaskInv, TypeOK, Fail
<1>3. WakeIsForThisWait' /\ SleepersWait'
  BY DEF Fail, TaskInv, WakeIsForThisWait, SleepersWait
<1>4. PlanShape' /\ RequestToDeliver'
  BY <1>1 DEF Fail, TaskInv, PlanShape, RequestToDeliver
<1>5. PlansApart' /\ PlanJoined' /\ RequestHasCanceler'
  BY DEF Fail, TaskInv, PlansApart, PlanJoined, RequestHasCanceler
<1>. QED BY <1>2, <1>3, <1>4, <1>5 DEF TaskInv

(* A call that stops at s and does nothing before, but for a request of    *)
(* the caller that it may take.                                            *)
LEMMA StopKeepsTasks ==
  ASSUME TaskInv, NEW t \in Thread, NEW c, Call(t, c), NEW s \in Stop, StopAt(t, s),
         s.op \in {"run", "store", "wake", "wait", "check", "spawn", "async", "join"},
         UNCHANGED <<current, table, queue, plan, outcome>>,
         cancels' = cancels \/ (CancelPending(t) /\ TakeCancel(t))
  PROVE  TaskInv'
<1> USE DEF table, queue
<1>1. /\ at[t].op = "run" /\ TypeOK /\ at' = [at EXCEPT ![t] = s] /\ at \in [Thread -> Stop]
      /\ UNCHANGED program /\ calls' \in 0 .. program.max
  <2>1. TypeOK /\ at[t] = Run /\ at' = [at EXCEPT ![t] = s] /\ UNCHANGED program
    BY DEF Call, Running, StopAt, TaskInv
  <2>2. program.max \in Nat
    BY <2>1, ProgramAssumption DEF TypeOK, Program
  <2>3. calls' \in 0 .. program.max
    BY <2>1, <2>2 DEF Call, TypeOK
  <2>. QED BY <2>1, <2>3 DEF Run, TypeOK
<1>2. plan[t] = NoPlan
  BY <1>1 DEF TaskInv, PlanShape
<1>3. /\ cancels' \in [Thread -> Nat]
      /\ \A u \in Thread : u # t => cancels'[u] = cancels[u]
      /\ cancels'[t] = cancels[t] \/ cancels'[t] = cancels[t] - 1
  BY <1>1 DEF CancelPending, TakeCancel, TypeOK
<1>4. TypeOK'
  BY <1>1, <1>3, StepTypes DEF TypeOK
<1>5. WakeIsForThisWait' /\ SleepersWait'
  BY <1>1, WakesUntouched
<1>6. PlanInv'
  BY <1>1, <1>2, <1>3, PlansUntouched, BornIsKept DEF Done
<1>. QED BY <1>4, <1>5, <1>6 DEF TaskInv, PlanInv

LEMMA SimpleCallKeepsTasks ==
  ASSUME TaskInv, NEW t \in Thread,
         \/ \E w \in Word, v \in Value : Store(t, w, v) \/ Wait(t, w, v) \/ WaitCancelable(t, w, v)
         \/ \E w \in Word, n \in program.wakes : Wake(t, w, n)
         \/ CheckCancel(t)
         \/ \E g \in Group \cup {NoGroup} : SpawnCall(t, g)
         \/ \E g \in Group : Async(t, g)
         \/ \E u \in Thread : JoinCall(t, u)
  PROVE  TaskInv'
<1>1. CASE \E w \in Word, v \in Value : Store(t, w, v)
  <2> PICK w \in Word, v \in Value : Store(t, w, v)
    BY <1>1
  <2> DEFINE s == [op |-> "store", word |-> w, value |-> v]
  <2>1. s \in Stop /\ s.op = "store"
    BY DEF Stop
  <2>2. StopAt(t, s) /\ Call(t, "store") /\ UNCHANGED <<current, table, queue, cancels, plan, outcome>>
    BY DEF Store
  <2> HIDE DEF s
  <2>. QED BY <2>1, <2>2, StopKeepsTasks
<1>2. CASE \E w \in Word, v \in Value : Wait(t, w, v)
  <2> PICK w \in Word, v \in Value : Wait(t, w, v)
    BY <1>2
  <2> DEFINE s == [op |-> "wait", word |-> w, expected |-> v, cancelable |-> FALSE]
  <2>1. s \in Stop /\ s.op = "wait"
    BY DEF Stop
  <2>2. StopAt(t, s) /\ Call(t, "wait") /\ UNCHANGED <<current, table, queue, cancels, plan, outcome>>
    BY DEF Wait
  <2> HIDE DEF s
  <2>. QED BY <2>1, <2>2, StopKeepsTasks
<1>3. CASE \E w \in Word, v \in Value : WaitCancelable(t, w, v)
  <2> PICK w \in Word, v \in Value : WaitCancelable(t, w, v)
    BY <1>3
  <2> DEFINE s == [op |-> "wait", word |-> w, expected |-> v, cancelable |-> TRUE]
  <2>1. s \in Stop /\ s.op = "wait" /\ Run \in Stop /\ Run.op = "run"
    BY DEF Stop, Run
  <2>2. /\ Call(t, "waitCancelable") /\ UNCHANGED <<current, table, queue, plan, outcome>>
        /\ \/ CancelPending(t) /\ TakeCancel(t) /\ UNCHANGED at
           \/ StopAt(t, s) /\ UNCHANGED cancels
    BY DEF WaitCancelable
  <2>3. UNCHANGED at => StopAt(t, Run)
    <3>1. at \in [Thread -> Stop] /\ at[t] = Run
      BY <2>2 DEF Call, Running, TaskInv, TypeOK
    <3>. QED BY <3>1 DEF StopAt
  <2> HIDE DEF s
  <2>. QED BY <2>1, <2>2, <2>3, StopKeepsTasks
<1>4. CASE \E w \in Word, n \in program.wakes : Wake(t, w, n)
  <2> PICK w \in Word, n \in program.wakes : Wake(t, w, n)
    BY <1>4
  <2> DEFINE s == [op |-> "wake", word |-> w, count |-> n]
  <2>1. s \in Stop /\ s.op = "wake"
    BY DEF Stop
  <2>2. StopAt(t, s) /\ Call(t, "wake") /\ UNCHANGED <<current, table, queue, cancels, plan, outcome>>
    BY DEF Wake
  <2> HIDE DEF s
  <2>. QED BY <2>1, <2>2, StopKeepsTasks
<1>5. CASE CheckCancel(t)
  <2> DEFINE s == [op |-> "check"]
  <2>1. s \in Stop /\ s.op = "check"
    BY DEF Stop
  <2>2. StopAt(t, s) /\ Call(t, "checkCancel") /\ UNCHANGED <<current, table, queue, cancels, plan, outcome>>
    BY <1>5 DEF CheckCancel
  <2> HIDE DEF s
  <2>. QED BY <2>1, <2>2, StopKeepsTasks
<1>6. CASE \E g \in Group \cup {NoGroup} : SpawnCall(t, g)
  <2> PICK g \in Group \cup {NoGroup} : SpawnCall(t, g)
    BY <1>6
  <2> DEFINE s == [op |-> "spawn", group |-> g]
  <2>1. s \in Stop /\ s.op = "spawn"
    BY DEF Stop
  <2>2. /\ StopAt(t, s) /\ UNCHANGED <<current, table, queue, cancels, plan, outcome>>
        /\ Call(t, IF g = NoGroup THEN "spawn" ELSE "concurrent")
    BY DEF SpawnCall
  <2> HIDE DEF s
  <2>. QED BY <2>1, <2>2, StopKeepsTasks
<1>7. CASE \E g \in Group : Async(t, g)
  <2> PICK g \in Group : Async(t, g)
    BY <1>7
  <2> DEFINE s == [op |-> "async", group |-> g]
  <2>1. s \in Stop /\ s.op = "async"
    BY DEF Stop
  <2>2. StopAt(t, s) /\ Call(t, "async") /\ UNCHANGED <<current, table, queue, cancels, plan, outcome>>
    BY DEF Async
  <2> HIDE DEF s
  <2>. QED BY <2>1, <2>2, StopKeepsTasks
<1>8. CASE \E u \in Thread : JoinCall(t, u)
  <2> PICK u \in Thread : JoinCall(t, u)
    BY <1>8
  <2> DEFINE s == [op |-> "join", target |-> u]
  <2>1. s \in Stop /\ s.op = "join"
    BY DEF Stop
  <2>2. StopAt(t, s) /\ Call(t, "join") /\ UNCHANGED <<current, table, queue, cancels, plan, outcome>>
    BY DEF JoinCall
  <2> HIDE DEF s
  <2>. QED BY <2>1, <2>2, StopKeepsTasks
<1>. QED BY <1>1, <1>2, <1>3, <1>4, <1>5, <1>6, <1>7, <1>8

(* The tasks of a group are in no plan, so none has a request yet. *)
LEMMA MembersAreFree ==
  ASSUME TaskInv, NEW g \in Group
  PROVE  /\ Members(g) \subseteq Born
         /\ \A u \in Thread : plan[u].all \cap Members(g) = {}
         /\ \A u \in Members(g) : cancels[u] = 0
<1>1. Members(g) \subseteq Born /\ \A u \in Members(g) : u \in Thread /\ group[u] # NoGroup
  BY ProgramAssumption DEF Members, Born
<1>2. \A u \in Thread : plan[u].all \cap Members(g) = {}
  BY <1>1 DEF TaskInv, PlansApart
<1>3. \A u \in Members(g) : cancels[u] = 0
  BY <1>1, <1>2 DEF TaskInv, RequestHasCanceler, TypeOK
<1>. QED BY <1>1, <1>2, <1>3

LEMMA GroupTaken ==
  ASSUME TypeOK, NEW g \in Group, GroupTake(g)
  PROVE  /\ UNCHANGED <<size, spawner, joined, gated>>
         /\ group' \in [Thread -> Group \cup {NoGroup}]
         /\ \A u \in Thread : group[u] = NoGroup => group'[u] = NoGroup
         /\ \A u \in Members(g) : group'[u] = NoGroup
BY DEF TypeOK, GroupTake, Members, Born

LEMMA AwaitKeepsTasks ==
  ASSUME TaskInv, NEW t \in Thread, NEW g \in Group, Await(t, g)
  PROVE  TaskInv'
<1> DEFINE p == [mode |-> IF t = 0 THEN "join" ELSE "await", left |-> Members(g), all |-> Members(g)]
<1>1. /\ at[t].op = "run" /\ TypeOK /\ UNCHANGED <<program, current, word, sleeping, woken, outcome>>
      /\ calls' \in 0 .. program.max
  <2>1. TypeOK /\ at[t] = Run /\ UNCHANGED <<program, current, word, sleeping, woken, outcome>>
    BY DEF Await, Call, Running, TaskInv, queue
  <2>2. program.max \in Nat
    BY <2>1, ProgramAssumption DEF TypeOK, Program
  <2>3. calls' \in 0 .. program.max
    BY <2>1, <2>2 DEF Await, Call, TypeOK
  <2>. QED BY <2>1, <2>3 DEF Run
<1>2. plan[t] = NoPlan /\ NoPlan.mode = "none"
  BY <1>1 DEF TaskInv, PlanShape, NoPlan
<1>3. /\ UNCHANGED <<size, spawner, joined, gated>>
      /\ group' \in [Thread -> Group \cup {NoGroup}]
      /\ \A u \in Thread : group[u] = NoGroup => group'[u] = NoGroup
      /\ \A u \in Members(g) : group'[u] = NoGroup
  BY <1>1, GroupTaken DEF Await
<1>4. Members(g) \subseteq Born /\ Born \subseteq Thread
      /\ \A u \in Thread : plan[u].all \cap Members(g) = {}
  BY MembersAreFree DEF Born
<1>5. /\ p \in Plan /\ p.left = Members(g) /\ p.all = Members(g)
      /\ p.mode \in {"join", "await"}
  BY <1>4 DEF Plan
<1>6. GoOnJoining(t, p, cancels) /\ cancels \in [Thread -> Nat]
  BY <1>1 DEF Await, TypeOK
<1> HIDE DEF p
<1>7. \A u \in Thread : cancels[u] > 0 =>
            /\ cancels[u] = 1
            /\ \E v \in Thread : v # t /\ plan[v].mode = "cancel" /\ u \in plan[v].all
  BY <1>2 DEF TaskInv, RequestHasCanceler
<1>8. \A u \in Thread : at[u].op \in {"late", "deliver"} => cancels[u] > 0
  BY DEF TaskInv, RequestToDeliver
<1>9. /\ PlanInv'
      /\ plan' \in [Thread -> Plan] /\ cancels' \in [Thread -> Nat]
      /\ \E s \in Stop : at' = [at EXCEPT ![t] = s] /\ s.op \in {"deliver", "join", "late", "run"}
  BY <1>1, <1>3, <1>4, <1>5, <1>6, <1>7, <1>8, JoiningKeepsPlans
<1>10. TypeOK'
  BY <1>1, <1>3, <1>9, StepTypes DEF TypeOK
<1>11. WakeIsForThisWait' /\ SleepersWait'
  BY <1>1, <1>9, WakesUntouched DEF TypeOK
<1>. QED BY <1>9, <1>10, <1>11 DEF TaskInv, PlanInv

LEMMA CancelKeepsTasks ==
  ASSUME TaskInv, NEW t \in Thread, NEW g \in Group, Cancel(t, g)
  PROVE  TaskInv'
<1> DEFINE p == [mode |-> "cancel", left |-> Members(g), all |-> Members(g)]
<1> DEFINE canc == Requested(Members(g))
<1>1. /\ at[t].op = "run" /\ TypeOK /\ UNCHANGED <<program, current, outcome>>
      /\ calls' \in 0 .. program.max
  <2>1. TypeOK /\ at[t] = Run /\ UNCHANGED <<program, current, outcome>>
    BY DEF Cancel, Call, Running, TaskInv
  <2>2. program.max \in Nat
    BY <2>1, ProgramAssumption DEF TypeOK, Program
  <2>3. calls' \in 0 .. program.max
    BY <2>1, <2>2 DEF Cancel, Call, TypeOK
  <2>. QED BY <2>1, <2>3 DEF Run
<1>2. plan[t] = NoPlan /\ NoPlan.mode = "none"
  BY <1>1 DEF TaskInv, PlanShape, NoPlan
<1>3. /\ UNCHANGED <<size, spawner, joined, gated>>
      /\ group' \in [Thread -> Group \cup {NoGroup}]
      /\ \A u \in Thread : group[u] = NoGroup => group'[u] = NoGroup
      /\ \A u \in Members(g) : group'[u] = NoGroup
  BY <1>1, GroupTaken DEF Cancel
<1>4. Members(g) \subseteq Born /\ Born \subseteq Thread
      /\ (\A u \in Thread : plan[u].all \cap Members(g) = {})
      /\ \A u \in Members(g) : cancels[u] = 0
  BY MembersAreFree DEF Born
<1>5. /\ p \in Plan /\ p.left = Members(g) /\ p.all = Members(g)
      /\ p.mode = "cancel"
  BY <1>4 DEF Plan
<1>6. /\ GoOnJoining(t, p, canc) /\ canc \in [Thread -> Nat]
      /\ \A u \in Thread : canc[u] = IF u \in Members(g) /\ u # 0 THEN 1 ELSE cancels[u]
  BY <1>1, <1>4 DEF Cancel, TypeOK, Requested, TaskIn
<1> HIDE DEF p, canc
<1>7. \A u \in Thread : canc[u] > 0 =>
            /\ canc[u] = 1
            /\ \/ p.mode = "cancel" /\ u \in p.all
               \/ \E v \in Thread : v # t /\ plan[v].mode = "cancel" /\ u \in plan[v].all
  BY <1>2, <1>5, <1>6 DEF TaskInv, RequestHasCanceler
<1>8. \A u \in Thread : at[u].op \in {"late", "deliver"} => canc[u] > 0
  BY <1>6 DEF TaskInv, RequestToDeliver
<1>9. /\ PlanInv'
      /\ plan' \in [Thread -> Plan] /\ cancels' \in [Thread -> Nat]
      /\ \E s \in Stop : at' = [at EXCEPT ![t] = s] /\ s.op \in {"deliver", "join", "late", "run"}
  BY <1>1, <1>3, <1>4, <1>5, <1>6, <1>7, <1>8, JoiningKeepsPlans
<1>10. \A u \in Thread : at[u].op = "wait" => at'[u].op = "wait"
  BY <1>1, <1>9 DEF TypeOK
<1>11. /\ WakeIsForThisWait' /\ SleepersWait' /\ word' = word
       /\ sleeping' \in [Thread -> Word \cup {NoWord}] /\ woken' \in [Thread -> Nat]
  <2>1. Asleep(Members(g)) \in SUBSET Thread /\ \A u \in Asleep(Members(g)) : sleeping[u] # NoWord
    BY <1>4 DEF Asleep
  <2>. QED BY <2>1, <1>10, SleepersWoken DEF Cancel, CancelWakes
<1>12. TypeOK'
  BY <1>1, <1>3, <1>9, <1>11, StepTypes DEF TypeOK
<1>. QED BY <1>9, <1>11, <1>12 DEF TaskInv, PlanInv

LEMMA EndKeepsTasks ==
  ASSUME TaskInv, NEW t \in Thread, End(t)
  PROVE  TaskInv'
<1> USE DEF table, queue
<1>1. at[t].op = "run" /\ TypeOK /\ current \in Thread
  BY DEF End, Running, Run, TaskInv, TypeOK
<1>2. CASE Fail
  BY <1>1, <1>2, FailKeepsTasks DEF End
<1>3. CASE /\ StopAt(t, Done) /\ outcome' = (IF t = 0 THEN "ok" ELSE outcome)
           /\ UNCHANGED <<table, queue, cancels, plan>>
  <2>1. UNCHANGED <<current, program, calls>> /\ Done \in Stop /\ Done.op = "done"
    BY DEF End, Done, Stop
  <2>2. at' = [at EXCEPT ![t] = Done] /\ at'[t] = Done
        /\ \A u \in Thread : u # t => at'[u] = at[u]
    BY <1>1, <1>3 DEF StopAt, TypeOK
  <2>3. TypeOK'
    BY <1>1, <1>3, <2>1, <2>2, StepTypes DEF TypeOK
  <2>4. WakeIsForThisWait' /\ SleepersWait'
    BY <1>1, <1>3, <2>2, WakesUntouched
  <2>5. plan[t] = NoPlan
    BY <1>1 DEF TaskInv, PlanShape
  <2>6. PlanInv'
    BY <1>1, <1>3, <2>1, <2>2, <2>5, PlansUntouched, BornIsKept DEF Done
  <2>. QED BY <2>3, <2>4, <2>6 DEF TaskInv, PlanInv
<1>. QED BY <1>2, <1>3 DEF End

(***************************************************************************)
(* The turns of the scheduler.                                             *)
(***************************************************************************)

(* A turn that moves t on, with at most a request of t taken. *)
LEMMA MoveKeepsTasks ==
  ASSUME TaskInv, NEW t \in Thread, current' = t, UNCHANGED <<program, calls, outcome>>,
         NEW s \in Stop, StopAt(t, s),
         at[t].op \notin {"unborn", "run", "done", "join", "deliver", "wait"},
         s.op \in {"run", "spawn", "spawnGated"},
         UNCHANGED <<table, sleeping, woken, plan>>,
         word' \in [Word -> Value],
         cancels' = cancels \/ (cancels[t] > 0 /\ TakeCancel(t))
  PROVE  TaskInv'
<1> USE DEF table
<1>1. /\ TypeOK /\ at' = [at EXCEPT ![t] = s] /\ at \in [Thread -> Stop]
      /\ plan[t] = NoPlan
  BY DEF StopAt, TaskInv, TypeOK, PlanShape
<1>2. /\ cancels' \in [Thread -> Nat]
      /\ \A u \in Thread : u # t => cancels'[u] = cancels[u]
      /\ cancels'[t] = cancels[t] \/ cancels'[t] = cancels[t] - 1
  BY <1>1 DEF TakeCancel, TypeOK
<1>3. TypeOK'
  BY <1>1, <1>2, StepTypes DEF TypeOK
<1>4. WakeIsForThisWait' /\ SleepersWait'
  BY <1>1, WakesUntouched
<1>5. PlanInv'
  BY <1>1, <1>2, PlansUntouched, BornIsKept DEF Done
<1>. QED BY <1>3, <1>4, <1>5 DEF TaskInv, PlanInv

LEMMA SimpleTurnKeepsTasks ==
  ASSUME TaskInv, NEW t \in Thread,
         \/ Begin(t) \/ DoStore(t) \/ LateCancel(t) \/ DoCheckCancel(t)
         \/ AsyncChoice(t) \/ SpawnFails(t)
  PROVE  TaskInv'
<1> USE DEF queue
<1>1. Run \in Stop /\ Run.op = "run"
  BY DEF Run, Stop
<1>2. TypeOK
  BY DEF TaskInv
<1>3. CASE Begin(t)
  BY <1>1, <1>2, <1>3, MoveKeepsTasks DEF Begin, Turn, TypeOK
<1>4. CASE DoStore(t)
  <2>1. word' \in [Word -> Value] /\ at[t].op = "store"
    BY <1>2, <1>4, StopMeans DEF DoStore, Turn, TypeOK
  <2>. QED BY <1>1, <1>2, <1>4, <2>1, MoveKeepsTasks DEF DoStore, Turn
<1>5. CASE LateCancel(t)
  <2>1. cancels[t] > 0
    BY <1>5 DEF LateCancel, Turn, TaskInv, RequestToDeliver
  <2>. QED BY <1>1, <1>2, <1>5, <2>1, MoveKeepsTasks DEF LateCancel, Turn, TypeOK
<1>6. CASE DoCheckCancel(t)
  BY <1>1, <1>2, <1>6, MoveKeepsTasks DEF DoCheckCancel, Turn, TypeOK
<1>7. CASE AsyncChoice(t)
  <2> DEFINE s1 == [op |-> "spawn", group |-> at[t].group]
  <2> DEFINE s2 == [op |-> "spawnGated", group |-> at[t].group]
  <2>1. at[t].op = "async" /\ at[t].group \in Group \cup {NoGroup}
    BY <1>2, <1>7, StopMeans DEF AsyncChoice, Turn
  <2>2. s1 \in Stop /\ s2 \in Stop /\ s1.op = "spawn" /\ s2.op = "spawnGated"
    BY <2>1 DEF Stop
  <2>3. StopAt(t, s1) \/ StopAt(t, Run) \/ StopAt(t, s2)
    BY <1>7 DEF AsyncChoice
  <2>4. word' \in [Word -> Value] /\ current' = t
        /\ UNCHANGED <<program, calls, outcome, table, sleeping, woken, plan, cancels>>
    BY <1>2, <1>7 DEF AsyncChoice, Turn, TypeOK
  <2> HIDE DEF s1, s2
  <2>. QED BY <1>1, <2>1, <2>2, <2>3, <2>4, MoveKeepsTasks
<1>8. CASE SpawnFails(t)
  BY <1>1, <1>2, <1>8, MoveKeepsTasks DEF SpawnFails, Turn, TypeOK
<1>. QED BY <1>3, <1>4, <1>5, <1>6, <1>7, <1>8

LEMMA DoWakeKeepsTasks ==
  ASSUME TaskInv, NEW t \in Thread, DoWake(t)
  PROVE  TaskInv'
<1>1. /\ TypeOK /\ Run \in Stop /\ Run.op = "run" /\ at[t].op = "wake" /\ at' = [at EXCEPT ![t] = Run]
      /\ current' = t /\ UNCHANGED <<program, calls, outcome, table, plan, cancels>>
      /\ at[t].word \in Word \cup {at[t].word}
  BY DEF TaskInv, Run, Stop, DoWake, Turn, StopAt
<1>2. /\ at'[t] = Run /\ \A u \in Thread : u # t => at'[u] = at[u]
      /\ plan[t] = NoPlan
  BY <1>1 DEF TypeOK, TaskInv, PlanShape
<1>3. at[t].word # NoWord
  <2>1. at[t] \in Stop
    BY <1>1 DEF TypeOK
  <2>2. at[t].word \in Word
    BY <1>1, <2>1 DEF Stop
  <2>. QED BY <2>2, ProgramAssumption
<1>4. PICK S \in SUBSET Waiters(at[t].word) : WakeThreads(S)
  BY DEF DoWake
<1>5. S \in SUBSET Thread /\ \A u \in S : sleeping[u] # NoWord
  BY <1>3 DEF Waiters
<1>6. /\ WakeIsForThisWait' /\ SleepersWait' /\ word' = word
      /\ sleeping' \in [Thread -> Word \cup {NoWord}] /\ woken' \in [Thread -> Nat]
  BY <1>1, <1>2, <1>4, <1>5, SleepersWoken
<1>7. TypeOK'
  BY <1>1, <1>6, StepTypes DEF TypeOK, table
<1>8. PlanInv'
  BY <1>1, <1>2, PlansUntouched, BornIsKept DEF Done, table
<1>. QED BY <1>6, <1>7, <1>8 DEF TaskInv, PlanInv

LEMMA WaitKeepsTasks ==
  ASSUME TaskInv, NEW t \in Thread, WokenReturns(t) \/ WaitGoesOn(t) \/ Sleep(t)
  PROVE  TaskInv'
<1>1. /\ TypeOK /\ at[t].op = "wait" /\ sleeping[t] = NoWord /\ at[t].word \in Word
      /\ current' = t /\ UNCHANGED <<program, calls, outcome, table, plan, cancels, word>>
      /\ plan[t] = NoPlan /\ NoPlan.mode = "none"
  <2>1. /\ Turn(t, "wait") /\ TypeOK /\ UNCHANGED <<outcome, table, plan, cancels, word>>
    BY DEF WokenReturns, WaitGoesOn, Sleep, TaskInv, queue
  <2>2. sleeping[t] = NoWord /\ at[t].word \in Word
    BY <2>1, CanGoMeans, StopMeans DEF Turn
  <2>. QED BY <2>1, <2>2 DEF Turn, TaskInv, PlanShape, NoPlan
<1>2. CASE WokenReturns(t) \/ WaitGoesOn(t)
  <2> DEFINE s == IF at[t].cancelable /\ CancelPending(t) THEN [op |-> "late"] ELSE Run
  <2>1. /\ s \in Stop /\ s.op \in {"late", "run"} /\ (s.op = "late" => cancels[t] > 0)
        /\ at' = [at EXCEPT ![t] = s] /\ sleeping' = sleeping
    BY <1>2 DEF Run, Stop, CancelPending, WokenReturns, WaitGoesOn, WaitReturns, StopAt, queue
  <2> HIDE DEF s
  <2>2. /\ at'[t] = s /\ \A u \in Thread : u # t => at'[u] = at[u]
    BY <1>1, <2>1 DEF TypeOK
  <2>3. woken' \in [Thread -> Nat] /\ woken'[t] = 0
        /\ \A u \in Thread : u # t => woken'[u] = woken[u]
    <3>1. CASE WokenReturns(t)
      <4>1. woken[t] = 1
        BY <3>1 DEF WokenReturns, TaskInv, WakeIsForThisWait
      <4>2. woken' = [woken EXCEPT ![t] = @ - 1] /\ woken \in [Thread -> Nat]
        BY <3>1, <1>1 DEF WokenReturns, TypeOK
      <4>. QED BY <4>1, <4>2
    <3>2. CASE WaitGoesOn(t)
      BY <3>2, <1>1 DEF WaitGoesOn, TypeOK, queue
    <3>. QED BY <1>2, <3>1, <3>2
  <2>4. TypeOK'
    BY <1>1, <2>1, <2>3, StepTypes DEF TypeOK, table
  <2>5. WakeIsForThisWait' /\ SleepersWait'
    BY <1>1, <2>1, <2>2, <2>3 DEF TaskInv, WakeIsForThisWait, SleepersWait
  <2>6. PlanInv'
    BY <1>1, <2>1, <2>2, PlansUntouched, BornIsKept DEF Done, table
  <2>. QED BY <2>4, <2>5, <2>6 DEF TaskInv, PlanInv
<1>3. CASE Sleep(t)
  <2>1. /\ UNCHANGED <<at, woken>> /\ woken[t] = 0
        /\ sleeping' = [sleeping EXCEPT ![t] = at[t].word]
    BY <1>3 DEF Sleep
  <2>2. at' = [at EXCEPT ![t] = at[t]] /\ at[t] \in Stop
    BY <1>1, <2>1 DEF TypeOK
  <2>3. TypeOK'
    BY <1>1, <2>1, <2>2, StepTypes DEF TypeOK, table
  <2>4. WakeIsForThisWait' /\ SleepersWait'
    BY <1>1, <2>1 DEF TaskInv, TypeOK, WakeIsForThisWait, SleepersWait
  <2>5. PlanInv'
    BY <1>1, <2>1, PlansUntouched, BornIsKept DEF Done, table
  <2>. QED BY <2>3, <2>4, <2>5 DEF TaskInv, PlanInv
<1>. QED BY <1>2, <1>3

(* The new thread, if the ids reach that far. *)
LEMMA ForkTable ==
  ASSUME TypeOK, NEW t \in Thread, NEW isGated \in BOOLEAN, NEW g \in Group \cup {NoGroup},
         NEW first \in Stop, Fork(t, isGated, g, first), at[t].op \notin {"unborn", "run", "done"}
  PROVE  /\ Born' = Born \cup ({size} \cap Thread) /\ size \notin Born /\ Born \subseteq Thread
         /\ t \in Born /\ t # size /\ size \in Nat
         /\ at'[t] = Run /\ (size \in Thread => at'[size] = first /\ at[size].op = "unborn")
         /\ \A u \in Thread : u # t /\ u # size => at'[u] = at[u]
         /\ \A u \in Born : /\ joined'[u] = joined[u] /\ group'[u] = group[u]
                            /\ spawner'[u] = spawner[u] /\ gated'[u] = gated[u]
         /\ size \in Thread => ~joined'[size] /\ spawner'[size] = t
<1>1. size \in Nat /\ size' = size + 1 /\ \A u \in Thread : u \in Nat
  BY ThreadAssumption DEF Fork, TypeOK
<1>2. /\ Born' = Born \cup ({size} \cap Thread) /\ size \notin Born /\ Born \subseteq Thread
  <2>1. \A u \in Thread : u < size + 1 <=> u < size \/ u = size
    BY <1>1
  <2>2. Born' = {u \in Thread : u < size + 1}
    BY <1>1 DEF Born
  <2>. QED BY <1>1, <2>1, <2>2 DEF Born
<1>3. t \in Born /\ t # size
  BY <1>2 DEF TypeOK
<1>4. \A u \in Born : u \in Thread /\ u # size
  BY <1>2
<1>5. /\ at'[t] = Run /\ (size \in Thread => at'[size] = first /\ at[size].op = "unborn")
      /\ \A u \in Thread : u # t /\ u # size => at'[u] = at[u]
  BY <1>2, <1>3 DEF Fork, TypeOK
<1>6. \A u \in Born : joined'[u] = joined[u]
  BY <1>4 DEF Fork, TypeOK
<1>7. \A u \in Born : group'[u] = group[u] /\ spawner'[u] = spawner[u]
  BY <1>4 DEF Fork, TypeOK
<1>8. \A u \in Born : gated'[u] = gated[u]
  BY <1>4 DEF Fork, TypeOK
<1>9. size \in Thread => ~joined'[size] /\ spawner'[size] = t
  BY DEF Fork, TypeOK
<1>. QED BY <1>1, <1>2, <1>3, <1>5, <1>6, <1>7, <1>8, <1>9

LEMMA SpawnMeans ==
  ASSUME TypeOK, NEW t \in Thread, Spawn(t) \/ SpawnGated(t)
  PROVE  /\ \E isGated \in BOOLEAN, g \in Group \cup {NoGroup}, first \in Stop :
              /\ Fork(t, isGated, g, first)
              /\ first.op = IF isGated THEN "gate" ELSE "start"
         /\ at[t].op \in {"spawn", "spawnGated"} /\ current' = t
         /\ outcome = "running"
         /\ UNCHANGED <<queue, cancels, plan, outcome, program, calls>>
<1>1. [op |-> "gate"] \in Stop /\ [op |-> "start"] \in Stop
  BY DEF Stop
<1>2. CASE Spawn(t)
  <2>1. at[t].op = "spawn" /\ at[t].group \in Group \cup {NoGroup}
    BY <1>2, StopMeans DEF Spawn, Turn
  <2>. QED BY <1>1, <1>2, <2>1 DEF Spawn, Turn, NoneRuns
<1>3. CASE SpawnGated(t)
  <2>1. at[t].op = "spawnGated" /\ at[t].group \in Group \cup {NoGroup}
    BY <1>3, StopMeans DEF SpawnGated, Turn
  <2>. QED BY <1>1, <1>3, <2>1 DEF SpawnGated, Turn, NoneRuns
<1>. QED BY <1>2, <1>3

LEMMA SpawnKeepsTasks ==
  ASSUME TaskInv, NEW t \in Thread, Spawn(t) \/ SpawnGated(t)
  PROVE  TaskInv'
<1>1. TypeOK
  BY DEF TaskInv
<1>2. /\ at[t].op \in {"spawn", "spawnGated"} /\ current' = t
      /\ UNCHANGED <<queue, cancels, plan, outcome, program, calls>>
  BY <1>1, SpawnMeans
<1>3. PICK isGated \in BOOLEAN, g \in Group \cup {NoGroup}, first \in Stop :
        Fork(t, isGated, g, first) /\ first.op = IF isGated THEN "gate" ELSE "start"
  BY <1>1, SpawnMeans
<1>4. /\ Born' = Born \cup ({size} \cap Thread) /\ size \notin Born /\ Born \subseteq Thread
      /\ t \in Born /\ t # size /\ size \in Nat
      /\ at'[t] = Run /\ (size \in Thread => at'[size] = first /\ at[size].op = "unborn")
      /\ \A u \in Thread : u # t /\ u # size => at'[u] = at[u]
      /\ \A u \in Born : joined'[u] = joined[u] /\ group'[u] = group[u]
  BY <1>1, <1>2, <1>3, ForkTable
<1>5. Stop' = Stop /\ Run \in Stop /\ Run.op = "run" /\ size' = size + 1
  BY <1>2, <1>3, StopsAreKept DEF Run, Stop, Fork
<1>6. TypeOK'
  <2>1. at' \in [Thread -> Stop']
    BY <1>1, <1>3, <1>5 DEF TypeOK, Fork
  <2>2. \A u \in Thread : at'[u].op = "unborn" <=> u \notin Born'
    BY <1>1, <1>3, <1>4, <1>5 DEF TypeOK
  <2>3. /\ joined' \in [Thread -> BOOLEAN] /\ gated' \in [Thread -> BOOLEAN]
        /\ group' \in [Thread -> Group \cup {NoGroup}]
    BY <1>1, <1>3 DEF TypeOK, Fork
  <2>4. spawner' \in [Thread -> Thread]
    BY <1>1, <1>3 DEF TypeOK, Fork
  <2>. QED BY <1>1, <1>2, <1>4, <1>5, <2>1, <2>2, <2>3, <2>4 DEF TypeOK, queue
<1>7. WakeIsForThisWait' /\ SleepersWait'
  <2>1. \A u \in Thread : at[u].op = "wait" => at'[u] = at[u]
    BY <1>2, <1>4
  <2>. QED BY <1>2, <2>1, WakesUntouched DEF queue
<1>8. PlanInv'
  <2>1. plan[t] = NoPlan /\ at[t] # Done /\ at'[t].op = "run"
    BY <1>2, <1>4, <1>5 DEF TaskInv, PlanShape, Done
  <2>2. \A u \in Thread : u # t => \/ at'[u] = at[u]
                                   \/ at[u].op = "unborn" /\ at'[u].op \in {"start", "gate"}
    BY <1>3, <1>4
  <2>3. cancels' = cancels /\ plan' = plan
    BY <1>2
  <2>. QED BY <1>4, <2>1, <2>2, <2>3, PlansUntouched
<1>. QED BY <1>6, <1>7, <1>8 DEF TaskInv, PlanInv

LEMMA JoinKeepsTasks ==
  ASSUME TaskInv, NEW t \in Thread, Join(t)
  PROVE  TaskInv'
<1> DEFINE u == at[t].target
<1>1. /\ TypeOK /\ at[t].op = "join" /\ u \in Thread /\ u \in Born /\ at[u] = Done /\ t # u
      /\ current' = t /\ UNCHANGED <<program, calls, size, spawner, gated, group, queue, outcome>>
      /\ joined' = [joined EXCEPT ![u] = TRUE]
  <2>1. /\ TypeOK /\ Turn(t, "join") /\ JoinValid(t, u)
        /\ UNCHANGED <<size, spawner, gated, group, queue, outcome>>
        /\ joined' = [joined EXCEPT ![u] = TRUE]
    BY DEF Join, TaskInv
  <2>2. at[t].op = "join" /\ at[u] = Done /\ u \in Thread
    BY <2>1, CanGoMeans, StopMeans DEF Turn
  <2>3. t # u
    BY <2>2 DEF Done
  <2>. QED BY <2>1, <2>2, <2>3 DEF Turn, JoinValid
<1>2. /\ joined' \in [Thread -> BOOLEAN] /\ joined'[u]
      /\ \A v \in Thread : joined[v] => joined'[v]
  BY <1>1 DEF TypeOK
<1> HIDE DEF u
<1>3. CASE plan[t] = NoPlan
  <2>1. /\ StopAt(t, Run) /\ UNCHANGED <<plan, cancels>> /\ Run \in Stop /\ Run.op = "run"
    BY <1>3 DEF Join, Run, Stop, u
  <2>2. /\ at' = [at EXCEPT ![t] = Run] /\ at'[t] = Run
        /\ \A v \in Thread : v # t => at'[v] = at[v]
    BY <1>1, <2>1 DEF StopAt, TypeOK
  <2>3. TypeOK'
    BY <1>1, <1>2, <2>1, <2>2, StepTypes DEF TypeOK, queue
  <2>4. WakeIsForThisWait' /\ SleepersWait'
    BY <1>1, <2>2, WakesUntouched DEF queue
  <2>5. PlanInv'
    BY <1>1, <1>2, <1>3, <2>1, <2>2, PlansUntouched, BornIsKept DEF Done, Born
  <2>. QED BY <2>3, <2>4, <2>5 DEF TaskInv, PlanInv
<1>4. CASE plan[t] # NoPlan
  <2> DEFINE p == [plan[t] EXCEPT !.left = @ \ {u}]
  <2>1. GoOnJoining(t, p, cancels) /\ plan[t] \in Plan /\ cancels \in [Thread -> Nat]
    BY <1>1, <1>4 DEF Join, TypeOK, u
  <2>2. /\ p \in Plan /\ p.left = plan[t].left \ {u} /\ p.all = plan[t].all /\ p.mode = plan[t].mode
    BY <2>1 DEF Plan
  <2> HIDE DEF p
  <2>3. p.mode # "none" /\ p.left \subseteq p.all /\ p.all \subseteq Born /\ Born \subseteq Thread
    BY <1>4, <2>2 DEF TaskInv, PlanShape, Born
  <2>4. /\ \A v \in Thread : v # t => plan[v].all \cap p.all = {}
        /\ \A v \in p.all : group'[v] = NoGroup
    BY <1>1, <2>2 DEF TaskInv, PlansApart
  <2>5. \A v \in p.all \ p.left : at[v] = Done /\ joined'[v]
    BY <1>1, <1>2, <2>2, <2>3 DEF TaskInv, PlanJoined
  <2>6. \A v \in Thread : cancels[v] > 0 =>
            /\ cancels[v] = 1
            /\ \/ p.mode = "cancel" /\ v \in p.all
               \/ \E w \in Thread : w # t /\ plan[w].mode = "cancel" /\ v \in plan[w].all
    BY <2>2 DEF TaskInv, RequestHasCanceler
  <2>7. \A v \in Thread : v # t /\ at[v].op \in {"late", "deliver"} => cancels[v] > 0
    BY DEF TaskInv, RequestToDeliver
  <2>8. /\ PlanInv'
        /\ plan' \in [Thread -> Plan] /\ cancels' \in [Thread -> Nat]
        /\ \E s \in Stop : at' = [at EXCEPT ![t] = s] /\ s.op \in {"deliver", "join", "late", "run"}
    <3>1. /\ \A v \in Born : joined[v] => joined'[v]
          /\ \A v \in Born : group[v] = NoGroup => group'[v] = NoGroup
      BY <1>1, <1>2, <2>3
    <3>. QED BY <1>1, <2>1, <2>2, <2>3, <2>4, <2>5, <2>6, <2>7, <3>1, JoiningKeepsPlans
  <2>9. TypeOK'
    BY <1>1, <1>2, <2>8, StepTypes DEF TypeOK, queue
  <2>10. WakeIsForThisWait' /\ SleepersWait'
    BY <1>1, <2>8, WakesUntouched DEF TypeOK, queue
  <2>. QED BY <2>8, <2>9, <2>10 DEF TaskInv, PlanInv
<1>. QED BY <1>3, <1>4

LEMMA DeliverKeepsTasks ==
  ASSUME TaskInv, NEW t \in Thread, DeliverInAwait(t)
  PROVE  TaskInv'
<1> DEFINE left == plan[t].left
<1> DEFINE p == [mode |-> "cancel", left |-> left, all |-> left]
<1> DEFINE canc == [Requested(left) EXCEPT ![t] = @ - 1]
<1>1. /\ TypeOK /\ at[t].op = "deliver" /\ current' = t /\ plan[t].mode = "await"
      /\ UNCHANGED <<program, calls, table, outcome>> /\ cancels[t] > 0
  BY DEF TaskInv, DeliverInAwait, Turn, PlanShape, RequestToDeliver
<1>2. left \subseteq plan[t].all /\ left \subseteq Born /\ Born \subseteq Thread
  BY DEF TaskInv, PlanShape, Born
<1>3. \A v \in left : cancels[v] = 0
  <2> SUFFICES ASSUME NEW v \in left, cancels[v] > 0 PROVE FALSE
    BY <1>1, <1>2 DEF TypeOK
  <2>1. PICK w \in Thread : plan[w].mode = "cancel" /\ v \in plan[w].all
    BY <1>2 DEF TaskInv, RequestHasCanceler
  <2>2. w # t
    BY <2>1, <1>1
  <2>. QED BY <2>1, <2>2, <1>2 DEF TaskInv, PlansApart
<1>4. t \notin left
  BY <1>1, <1>3
<1>5. /\ canc \in [Thread -> Nat] /\ canc[t] = cancels[t] - 1
      /\ \A v \in Thread : v # t => canc[v] = IF v \in left /\ v # 0 THEN 1 ELSE cancels[v]
  BY <1>1, <1>3, <1>4 DEF TypeOK, Requested, TaskIn
<1>6. p \in Plan /\ p.left = left /\ p.all = left /\ p.mode = "cancel"
  BY <1>2 DEF Plan
<1>7. GoOnJoining(t, p, canc) /\ CancelWakes(left)
  BY DEF DeliverInAwait
<1> HIDE DEF left, p, canc
<1>8. /\ \A v \in Thread : v # t => plan[v].all \cap p.all = {}
      /\ \A v \in p.all : group'[v] = NoGroup
  BY <1>1, <1>2, <1>6 DEF TaskInv, PlansApart, table
<1>9. \A v \in Thread : canc[v] > 0 =>
            /\ canc[v] = 1
            /\ \/ p.mode = "cancel" /\ v \in p.all
               \/ \E w \in Thread : w # t /\ plan[w].mode = "cancel" /\ v \in plan[w].all
  <2>1. cancels[t] = 1
    BY <1>1 DEF TaskInv, RequestHasCanceler
  <2>. QED BY <1>1, <1>5, <1>6, <2>1 DEF TaskInv, RequestHasCanceler
<1>10. \A v \in Thread : v # t /\ at[v].op \in {"late", "deliver"} => canc[v] > 0
  BY <1>5 DEF TaskInv, RequestToDeliver
<1>11. /\ PlanInv'
       /\ plan' \in [Thread -> Plan] /\ cancels' \in [Thread -> Nat]
       /\ \E s \in Stop : at' = [at EXCEPT ![t] = s] /\ s.op \in {"deliver", "join", "late", "run"}
  <2>1. /\ \A v \in Born : joined[v] => joined'[v]
        /\ \A v \in Born : group[v] = NoGroup => group'[v] = NoGroup
        /\ p.all \ p.left = {} /\ p.left \subseteq p.all /\ p.all \subseteq Born
        /\ UNCHANGED <<size, program>>
    BY <1>1, <1>2, <1>6 DEF table
  <2>. QED BY <1>1, <1>5, <1>6, <1>7, <1>8, <1>9, <1>10, <2>1, JoiningKeepsPlans
<1>12. \A v \in Thread : at[v].op = "wait" => at'[v].op = "wait"
  BY <1>1, <1>11 DEF TypeOK
<1>13. /\ WakeIsForThisWait' /\ SleepersWait' /\ word' = word
       /\ sleeping' \in [Thread -> Word \cup {NoWord}] /\ woken' \in [Thread -> Nat]
  <2>1. Asleep(left) \in SUBSET Thread /\ \A v \in Asleep(left) : sleeping[v] # NoWord
    BY <1>2 DEF Asleep
  <2>. QED BY <2>1, <1>7, <1>12, SleepersWoken DEF CancelWakes
<1>14. TypeOK'
  BY <1>1, <1>11, <1>13, StepTypes DEF TypeOK, table
<1>. QED BY <1>11, <1>13, <1>14 DEF TaskInv, PlanInv

LEMMA DeferKeepsTasks ==
  ASSUME TaskInv, NEW t \in Thread, DeferInAwait(t)
  PROVE  TaskInv'
<1> DEFINE s == [op |-> "join", target |-> Least(plan[t].left)]
<1>1. /\ TypeOK /\ at[t].op = "deliver" /\ current' = t /\ plan[t].mode = "await"
      /\ UNCHANGED <<program, calls, table, queue, cancels, plan, outcome>>
      /\ at' = [at EXCEPT ![t] = s]
  BY DEF TaskInv, DeferInAwait, Turn, PlanShape, StopAt
<1>2. plan[t] # NoPlan /\ plan[t].left # {} /\ plan[t].left \subseteq Thread
  BY <1>1 DEF TaskInv, PlanShape, NoPlan, Born
<1>3. s \in Stop /\ s.op = "join"
  BY <1>2, LeastIn DEF Stop
<1> HIDE DEF s
<1>4. at'[t] = s /\ \A v \in Thread : v # t => at'[v] = at[v]
  BY <1>1 DEF TypeOK
<1>5. TypeOK'
  BY <1>1, <1>3, StepTypes DEF TypeOK, table, queue
<1>6. WakeIsForThisWait' /\ SleepersWait'
  BY <1>1, <1>4, WakesUntouched DEF queue
<1>7. PlanInv'
  BY <1>1, <1>3, <1>4, PlansUntouched, BornIsKept DEF Done, table
<1>. QED BY <1>5, <1>6, <1>7 DEF TaskInv, PlanInv

(***************************************************************************)
(* The invariant, and what it says.                                        *)
(***************************************************************************)

LEMMA TasksInitial == Init => TaskInv
<1> SUFFICES ASSUME Init PROVE TaskInv
  OBVIOUS
<1>1. NoPlan \in Plan /\ NoPlan.left = {} /\ NoPlan.all = {} /\ NoPlan.mode = "none"
  BY DEF NoPlan, Plan
<1>2. Born = {0} /\ Born \subseteq Thread
  <2>1. size = 1 /\ 0 \in Thread /\ \A t \in Thread : t \in Nat /\ (t < 1 <=> t = 0)
    BY ThreadAssumption DEF Init
  <2>. QED BY <2>1 DEF Born
<1>3. at = [t \in Thread |-> IF t = 0 THEN Run ELSE [op |-> "unborn"]]
  BY DEF Init
<1>4. \A t \in Thread : at[t] \in Stop /\ at[t].op \in {"run", "unborn"} /\ (at[t].op = "unborn" <=> t # 0)
  <2>1. Run \in Stop /\ [op |-> "unborn"] \in Stop
    BY DEF Stop, Run
  <2>. QED BY <2>1, <1>3 DEF Run
<1>5. TypeOK
  <2>1. at \in [Thread -> Stop] /\ \A t \in Thread : at[t].op = "unborn" <=> t \notin Born
    BY <1>2, <1>3, <1>4
  <2>2. calls \in 0 .. program.max
    BY ProgramAssumption DEF Init, Program
  <2>. QED BY <1>1, <2>1, <2>2, ThreadAssumption DEF Init, TypeOK, Value
<1>6. WakeIsForThisWait /\ SleepersWait /\ RequestToDeliver /\ RequestHasCanceler
  BY DEF Init, WakeIsForThisWait, SleepersWait, RequestToDeliver, RequestHasCanceler, Run
<1>7. PlanShape
  BY <1>1, <1>2, <1>4 DEF Init, PlanShape
<1>8. PlansApart /\ PlanJoined
  BY <1>1 DEF Init, PlansApart, PlanJoined
<1>. QED BY <1>5, <1>6, <1>7, <1>8 DEF TaskInv

LEMMA TasksInductive == TaskInv /\ [Next]_vars => TaskInv'
<1> SUFFICES ASSUME TaskInv, [Next]_vars PROVE TaskInv'
  OBVIOUS
<1>1. ASSUME UNCHANGED <<at, table, queue, cancels, plan, program, calls>>,
             current' \in Thread, outcome' \in {"running", "ok", "illegal", "deadlock"}
      PROVE  TaskInv'
  <2> USE DEF table, queue
  <2>1. Stop' = Stop /\ Born' = Born
    BY <1>1, BornIsKept, StopsAreKept
  <2>2. TypeOK'
    BY <1>1, <2>1 DEF TaskInv, TypeOK
  <2>3. WakeIsForThisWait' /\ SleepersWait' /\ RequestToDeliver' /\ RequestHasCanceler'
    BY <1>1 DEF TaskInv, WakeIsForThisWait, SleepersWait, RequestToDeliver, RequestHasCanceler
  <2>4. PlanShape' /\ PlansApart' /\ PlanJoined'
    BY <1>1, <2>1 DEF TaskInv, PlanShape, PlansApart, PlanJoined
  <2>. QED BY <2>2, <2>3, <2>4 DEF TaskInv
<1>2. CASE UNCHANGED vars
  BY <1>1, <1>2 DEF vars, TaskInv, TypeOK
<1>3. CASE Deadlock
  BY <1>1, <1>3 DEF Deadlock, TaskInv, TypeOK
<1>4. ASSUME NEW t \in Thread, CallOf(t) PROVE TaskInv'
  BY <1>4, SimpleCallKeepsTasks, AwaitKeepsTasks, CancelKeepsTasks, EndKeepsTasks DEF CallOf
<1>5. ASSUME NEW t \in Thread, TurnOf(t) PROVE TaskInv'
  <2>1. CASE JoinFails(t)
    BY <2>1, FailKeepsTasks DEF JoinFails, Turn
  <2>. QED
    BY <1>5, <2>1, SimpleTurnKeepsTasks, DoWakeKeepsTasks, WaitKeepsTasks, SpawnKeepsTasks,
       JoinKeepsTasks, DeliverKeepsTasks, DeferKeepsTasks
    DEF TurnOf
<1>. QED BY <1>2, <1>3, <1>4, <1>5 DEF Next

LEMMA TasksInvariant == Spec => []TaskInv
BY TasksInitial, TasksInductive, PTL DEF Spec

(* A run of the parts together is a run of Tasks. *)
LEMMA IoRunsTasks == IoSpec => Spec
<1>1. IoInit => Init
  BY DEF IoInit
<1>2. [IoNext]_io => [Next]_vars
  BY DEF IoNext, io
<1>. QED BY <1>1, <1>2, PTL DEF IoSpec, Spec

(* futexWait and futexWake of Conc/Call.lean with Mem.wake and the wakes   *)
(* of a cancel: a wake ends the wait it was for, so no thread is marked    *)
(* twice or outside a wait.                                                *)
THEOREM WakesEndOneWait == IoSpec => []WakeIsForThisWait
<1>1. TaskInv => WakeIsForThisWait
  BY DEF TaskInv
<1>. QED BY <1>1, TasksInvariant, IoRunsTasks, PTL

(* Mem.requestCancel and dropCancels: a task has at most one request, and  *)
(* some thread that cancels is still joining it.                           *)
THEOREM RequestsHaveCancelers == IoSpec => []RequestHasCanceler
<1>1. TaskInv => RequestHasCanceler
  BY DEF TaskInv
<1>. QED BY <1>1, TasksInvariant, IoRunsTasks, PTL

(* groupAwait and groupCancel: no join of a group is skipped, also when    *)
(* the awaiting task is canceled itself between two joins.                 *)
THEOREM GroupsAreJoined == IoSpec => GroupReturnsAfterTasks
<1> DEFINE Step == \A t \in Thread : plan[t].left # {} /\ plan'[t].left = {} =>
                     \A u \in plan[t].all : at[u] = Done /\ joined'[u]
<1>1. TaskInv /\ [Next]_vars => [Step]_vars
  <2> SUFFICES ASSUME TaskInv, Next, NEW x \in Thread, plan[x].left # {}, plan'[x].left = {}
               PROVE  \A u \in plan[x].all : at[u] = Done /\ joined'[u]
    BY DEF TaskInv
  <2>1. plan[x] # NoPlan /\ at[x].op \in {"join", "deliver"} /\ TypeOK /\ plan[x] \in Plan
    BY DEF TaskInv, PlanShape, TypeOK, NoPlan
  <2>2. ASSUME NEW t \in Thread, NEW p, NEW canc, GoOnJoining(t, p, canc), p.left # {} \/ t # x
        PROVE  FALSE
    BY <2>1, <2>2 DEF GoOnJoining, TypeOK
  <2>3. ASSUME NEW t \in Thread, CallOf(t) PROVE FALSE
    <3>1. CASE \E g \in Group : Await(t, g) \/ Cancel(t, g)
      <4>1. t # x
        BY <2>1, <3>1 DEF Await, Cancel, Call, Running, Run
      <4>. QED BY <2>2, <3>1, <4>1 DEF Await, Cancel
    <3>2. UNCHANGED plan => FALSE
      OBVIOUS
    <3>. QED
      BY <2>3, <3>1, <3>2
      DEF CallOf, Store, Wait, WaitCancelable, Wake, CheckCancel, SpawnCall, Async, JoinCall, End, Fail
  <2>4. PICK t \in Thread : DeliverInAwait(t) \/ Join(t)
    BY <2>3
    DEF Next, TurnOf, Deadlock, Begin, DoStore, DoWake, WokenReturns, WaitGoesOn, Sleep, LateCancel,
        DoCheckCancel, AsyncChoice, Spawn, SpawnFails, SpawnGated, JoinFails, DeferInAwait, Fail
  <2>5. ~DeliverInAwait(t)
    <3>1. CASE t # x
      BY <2>2, <3>1 DEF DeliverInAwait
    <3>2. CASE t = x
      BY <2>2, <3>2 DEF DeliverInAwait
    <3>. QED BY <3>1, <3>2
  <2> DEFINE u == at[t].target
  <2>6. /\ Turn(t, "join") /\ JoinValid(t, u) /\ joined' = [joined EXCEPT ![u] = TRUE]
        /\ \/ plan[t] = NoPlan /\ UNCHANGED plan
           \/ GoOnJoining(t, [plan[t] EXCEPT !.left = @ \ {u}], cancels)
    BY <2>4, <2>5 DEF Join
  <2>7. t = x /\ GoOnJoining(t, [plan[t] EXCEPT !.left = @ \ {u}], cancels)
    BY <2>2, <2>6
  <2>8. plan[x].left \ {u} = {}
    <3>1. [plan[t] EXCEPT !.left = @ \ {u}].left = plan[t].left \ {u}
      BY <2>1, <2>7 DEF Plan
    <3>. QED BY <2>2, <2>7, <3>1
  <2>9. at[u] = Done /\ u \in Thread
    BY <2>1, <2>6, CanGoMeans, StopMeans DEF Turn
  <2>10. joined'[u] /\ \A v \in Thread : joined[v] => joined'[v]
    BY <2>1, <2>6, <2>9 DEF TypeOK
  <2>11. plan[x].all \subseteq Thread
    BY DEF TaskInv, PlanShape, Born
  <2>. QED BY <2>8, <2>9, <2>10, <2>11 DEF TaskInv, PlanJoined
<1>. QED BY <1>1, TasksInvariant, IoRunsTasks, PTL DEF Spec, GroupReturnsAfterTasks

(***************************************************************************)
(* Handles and the end of a run.                                           *)
(***************************************************************************)

LEMMA BornAre ==
  ASSUME TypeOK
  PROVE  0 \in Born /\ Born \subseteq Thread /\ Born \subseteq Nat
<1>1. 0 \in Thread /\ 0 < size
  BY ThreadAssumption DEF TypeOK
<1>. QED BY <1>1, ThreadAssumption DEF Born

(* A step of t that neither spawns nor joins. *)
LEMMA StepKeepsHandled ==
  ASSUME TypeOK, Handled, NEW t \in Thread, UNCHANGED <<size, spawner, joined, gated>>,
         at[t] # Done, at'[t] = Done => ~OwesJoin(t),
         \A u \in Thread : u # t => at'[u] = at[u],
         outcome' = "running" => at'[0] # Done,
         outcome' = "ok" => at'[0] = Done
  PROVE  Handled'
<1>1. Born' = Born /\ Born \subseteq Thread
  BY BornIsKept, BornAre
<1>2. \A u \in Born \ {0} : joined'[u] => at'[u] = Done
  BY <1>1 DEF Handled
<1>3. \A x, u \in Born : at'[x] = Done /\ spawner'[u] = x => joined'[u]
  <2> SUFFICES ASSUME NEW x \in Born, NEW u \in Born, at'[x] = Done, spawner[u] = x
               PROVE  joined[u]
    OBVIOUS
  <2>1. CASE x = t
    BY <2>1 DEF OwesJoin
  <2>2. CASE x # t
    BY <2>2, <1>1 DEF Handled
  <2>. QED BY <2>1, <2>2
<1>. QED BY <1>1, <1>2, <1>3 DEF Handled

LEMMA MoveKeepsHandled ==
  ASSUME TypeOK, Handled, outcome = "running", NEW t \in Thread,
         UNCHANGED <<size, spawner, joined, gated, outcome>>,
         at[t] # Done, at'[t] # Done, \A u \in Thread : u # t => at'[u] = at[u]
  PROVE  Handled'
<1>1. at'[0] # Done
  BY ThreadAssumption DEF Handled
<1>. QED BY <1>1, StepKeepsHandled

LEMMA StopMoves ==
  ASSUME TypeOK, NEW t \in Thread, NEW s, StopAt(t, s)
  PROVE  at'[t] = s /\ \A u \in Thread : u # t => at'[u] = at[u]
BY DEF TypeOK, StopAt

LEMMA GoOnMoves ==
  ASSUME TypeOK, NEW t \in Thread, NEW p, NEW canc, GoOnJoining(t, p, canc)
  PROVE  at'[t] # Done /\ \A u \in Thread : u # t => at'[u] = at[u]
<1> DEFINE a == IF p.mode = "await" /\ canc[t] > 0 THEN [op |-> "deliver"]
                ELSE [op |-> "join", target |-> Least(p.left)]
<1> DEFINE b == IF p.mode = "await" /\ canc[t] > 0 THEN [op |-> "late"] ELSE Run
<1>1. a.op # "done" /\ b.op # "done"
  BY DEF Run
<1>2. StopAt(t, a) \/ StopAt(t, b)
  BY DEF GoOnJoining
<1> HIDE DEF a, b
<1>. QED BY <1>1, <1>2, StopMoves DEF Done

LEMMA CallKeepsHandled ==
  ASSUME TypeOK, Handled, NEW t \in Thread, CallOf(t)
  PROVE  Handled'
<1> USE DEF table
<1>1. outcome = "running" /\ at[t] = Run /\ at[t] # Done
  <2>1. (\E c : Call(t, c)) \/ Running(t)
    BY DEF CallOf, Store, Wait, WaitCancelable, Wake, CheckCancel, SpawnCall, Async, Await, Cancel,
           JoinCall, End
  <2>. QED BY <2>1 DEF Call, Running, Run, Done
<1>2. ASSUME NEW s, StopAt(t, s), s.op # "done", UNCHANGED <<table, outcome>>
      PROVE  Handled'
  BY <1>1, <1>2, StopMoves, MoveKeepsHandled DEF Done
<1>3. CASE \E w \in Word, v \in Value : Store(t, w, v) \/ Wait(t, w, v)
  BY <1>2, <1>3 DEF Store, Wait
<1>4. CASE \E w \in Word, v \in Value : WaitCancelable(t, w, v)
  <2>1. UNCHANGED at => Handled'
    BY <1>1, <1>4, MoveKeepsHandled DEF WaitCancelable
  <2>. QED BY <1>2, <1>4, <2>1 DEF WaitCancelable
<1>5. CASE \E w \in Word, n \in program.wakes : Wake(t, w, n)
  BY <1>2, <1>5 DEF Wake
<1>6. CASE CheckCancel(t) \/ \E u \in Thread : JoinCall(t, u)
  BY <1>2, <1>6 DEF CheckCancel, JoinCall
<1>7. CASE \E g \in Group \cup {NoGroup} : SpawnCall(t, g)
  BY <1>2, <1>7 DEF SpawnCall
<1>8. CASE \E g \in Group : Async(t, g)
  BY <1>2, <1>8 DEF Async
<1>9. CASE \E g \in Group : Await(t, g) \/ Cancel(t, g)
  <2>1. UNCHANGED <<size, spawner, joined, gated, outcome>>
    BY <1>9 DEF Await, Cancel, GroupTake
  <2>2. \E p, canc : GoOnJoining(t, p, canc)
    BY <1>9 DEF Await, Cancel
  <2>. QED BY <1>1, <2>1, <2>2, GoOnMoves, MoveKeepsHandled
<1>10. CASE End(t)
  <2>1. CASE OwesJoin(t) /\ Fail
    <3>1. UNCHANGED <<at, table>> /\ outcome' = "illegal"
      BY <2>1 DEF Fail
    <3>. QED BY <1>1, <3>1, StepKeepsHandled
  <2>2. CASE ~OwesJoin(t) /\ StopAt(t, Done) /\ UNCHANGED table
             /\ outcome' = IF t = 0 THEN "ok" ELSE outcome
    <3>1. at'[t] = Done /\ \A u \in Thread : u # t => at'[u] = at[u]
      BY <2>2, StopMoves
    <3>2. outcome' = "running" => t # 0 /\ at'[0] # Done
      BY <1>1, <2>2, <3>1, ThreadAssumption DEF Handled
    <3>3. outcome' = "ok" => at'[0] = Done
      BY <1>1, <2>2, <3>1
    <3>. QED BY <1>1, <2>2, <3>1, <3>2, <3>3, StepKeepsHandled
  <2>. QED BY <1>10, <2>1, <2>2 DEF End
<1>. QED BY <1>3, <1>4, <1>5, <1>6, <1>7, <1>8, <1>9, <1>10 DEF CallOf

LEMMA SpawnKeepsHandled ==
  ASSUME TypeOK, Handled, NEW t \in Thread, Spawn(t) \/ SpawnGated(t)
  PROVE  Handled'
<1>1. /\ at[t].op \in {"spawn", "spawnGated"} /\ outcome = "running" /\ UNCHANGED outcome
  BY SpawnMeans
<1>2. PICK isGated \in BOOLEAN, g \in Group \cup {NoGroup}, first \in Stop :
        Fork(t, isGated, g, first) /\ first.op = IF isGated THEN "gate" ELSE "start"
  BY SpawnMeans
<1>3. /\ Born' = Born \cup ({size} \cap Thread) /\ size \notin Born /\ Born \subseteq Thread
      /\ t \in Born /\ t # size /\ size \in Nat
      /\ at'[t] = Run /\ (size \in Thread => at'[size] = first /\ at[size].op = "unborn")
      /\ \A u \in Thread : u # t /\ u # size => at'[u] = at[u]
      /\ \A u \in Born : /\ joined'[u] = joined[u] /\ group'[u] = group[u]
                         /\ spawner'[u] = spawner[u] /\ gated'[u] = gated[u]
      /\ size \in Thread => ~joined'[size] /\ spawner'[size] = t
  BY <1>1, <1>2, ForkTable
<1>4. at[t] # Done /\ at'[t] # Done /\ (size \in Thread => at'[size] # Done)
  BY <1>1, <1>2, <1>3 DEF Run, Done
<1>5. 0 \in Born /\ Born \subseteq Nat /\ t < size
  BY <1>3, BornAre DEF Born
<1>6. \A u \in Born : at'[u] = Done <=> at[u] = Done
  BY <1>3, <1>4
<1>7. joined'[0] /\ ~gated'[0]
  BY <1>3, <1>5 DEF Handled
<1>8. \A u \in Born' \ {0} : spawner'[u] < u /\ spawner'[u] \in Born'
  BY <1>3, <1>5 DEF Handled
<1>9. \A u \in Born' \ {0} : joined'[u] => at'[u] = Done
  BY <1>3, <1>6 DEF Handled
<1>10. \A x, u \in Born' : at'[x] = Done /\ spawner'[u] = x => joined'[u]
  <2> SUFFICES ASSUME NEW x \in Born', NEW u \in Born', at'[x] = Done, spawner'[u] = x
               PROVE  joined'[u]
    OBVIOUS
  <2>1. x \in Born /\ at[x] = Done
    BY <1>3, <1>4, <1>6
  <2>2. u \in Born
    BY <1>3, <1>4, <2>1
  <2>. QED BY <1>3, <2>1, <2>2 DEF Handled
<1>11. at'[0] # Done
  BY <1>1, <1>5, <1>6 DEF Handled
<1>. QED BY <1>1, <1>7, <1>8, <1>9, <1>10, <1>11 DEF Handled

LEMMA JoinKeepsHandled ==
  ASSUME TypeOK, Handled, NEW t \in Thread, Join(t)
  PROVE  Handled'
<1> DEFINE u == at[t].target
<1>1. /\ at[t].op = "join" /\ outcome = "running" /\ UNCHANGED <<size, spawner, gated, outcome>>
      /\ joined' = [joined EXCEPT ![u] = TRUE]
      /\ Turn(t, "join") /\ JoinValid(t, u)
  BY DEF Join, Turn, NoneRuns
<1>2. at[t] # Done /\ u \in Thread /\ at[u] = Done /\ u # t
  BY <1>1, CanGoMeans, StopMeans DEF Turn, Done
<1>3. \A v \in Thread : joined'[v] <=> joined[v] \/ v = u
  BY <1>1, <1>2 DEF TypeOK
<1>4. at'[t] # Done /\ \A v \in Thread : v # t => at'[v] = at[v]
  <2>1. Run # Done
    BY DEF Run, Done
  <2>2. StopAt(t, Run) \/ \E p, canc : GoOnJoining(t, p, canc)
    BY DEF Join
  <2>. QED BY <2>1, <2>2, StopMoves, GoOnMoves
<1> HIDE DEF u
<1>5. Born' = Born /\ 0 \in Born /\ Born \subseteq Thread
  BY <1>1, BornIsKept, BornAre
<1>6. \A v \in Thread : at'[v] = Done <=> at[v] = Done
  BY <1>2, <1>4
<1>7. \A v \in Born \ {0} : joined'[v] => at'[v] = Done
  BY <1>2, <1>3, <1>5, <1>6 DEF Handled
<1>8. \A x, v \in Born : at'[x] = Done /\ spawner'[v] = x => joined'[v]
  BY <1>1, <1>3, <1>5, <1>6 DEF Handled
<1>9. joined'[0] /\ at'[0] # Done
  BY <1>1, <1>3, <1>5, <1>6 DEF Handled
<1>. QED BY <1>1, <1>5, <1>7, <1>8, <1>9 DEF Handled

LEMMA TurnKeepsHandled ==
  ASSUME TypeOK, Handled, NEW t \in Thread, TurnOf(t)
  PROVE  Handled'
<1> USE DEF table
<1>1. Run.op = "run" /\ Run # Done
  BY DEF Run, Done
<1>2. ASSUME NEW op, Turn(t, op), op # "done" PROVE outcome = "running" /\ at[t] # Done
  BY <1>2 DEF Turn, NoneRuns, Done
<1>3. ASSUME NEW op, Turn(t, op), op # "done", UNCHANGED <<table, outcome>>,
             at'[t] # Done /\ \A u \in Thread : u # t => at'[u] = at[u]
      PROVE  Handled'
  BY <1>2, <1>3, MoveKeepsHandled
<1>4. ASSUME NEW op, Turn(t, op), op # "done", UNCHANGED <<table, outcome>>,
             NEW s, StopAt(t, s), s.op # "done"
      PROVE  Handled'
  BY <1>3, <1>4, StopMoves DEF Done
<1>5. ASSUME WaitReturns(t) PROVE \E s : StopAt(t, s) /\ s.op # "done"
  BY <1>1, <1>5 DEF WaitReturns
<1>6. CASE Begin(t) \/ DoStore(t) \/ LateCancel(t) \/ DoCheckCancel(t)
  BY <1>1, <1>4, <1>6 DEF Begin, DoStore, LateCancel, DoCheckCancel
<1>7. CASE DoWake(t) \/ SpawnFails(t)
  BY <1>1, <1>4, <1>7 DEF DoWake, SpawnFails
<1>8. CASE WokenReturns(t) \/ WaitGoesOn(t)
  BY <1>4, <1>5, <1>8 DEF WokenReturns, WaitGoesOn
<1>9. CASE Sleep(t)
  BY <1>2, <1>3, <1>9 DEF Sleep
<1>10. CASE AsyncChoice(t)
  BY <1>1, <1>4, <1>10 DEF AsyncChoice
<1>11. CASE JoinFails(t)
  <2>1. UNCHANGED <<at, table>> /\ outcome' = "illegal" /\ at[t] # Done
    BY <1>2, <1>11 DEF JoinFails, Fail
  <2>. QED BY <2>1, StepKeepsHandled
<1>12. CASE DeliverInAwait(t)
  <2>1. Turn(t, "deliver") /\ UNCHANGED <<table, outcome>> /\ \E p, canc : GoOnJoining(t, p, canc)
    BY <1>12 DEF DeliverInAwait
  <2>. QED BY <1>3, <2>1, GoOnMoves
<1>13. CASE DeferInAwait(t)
  BY <1>4, <1>13 DEF DeferInAwait
<1>. QED
  BY <1>6, <1>7, <1>8, <1>9, <1>10, <1>11, <1>12, <1>13, SpawnKeepsHandled, JoinKeepsHandled DEF TurnOf

LEMMA HandledInductive == TaskInv /\ Handled /\ [Next]_vars => Handled'
<1> SUFFICES ASSUME TypeOK, Handled, [Next]_vars PROVE Handled'
  BY DEF TaskInv
<1>1. ASSUME UNCHANGED <<at, table>>, outcome' \in {outcome, "deadlock"} PROVE Handled'
  <2>1. Born' = Born
    BY <1>1, BornIsKept DEF table
  <2>. QED BY <1>1, <2>1 DEF Handled, table
<1>2. CASE UNCHANGED vars \/ Deadlock
  BY <1>1, <1>2 DEF vars, Deadlock
<1>3. CASE \E t \in Thread : CallOf(t) \/ TurnOf(t)
  BY <1>3, CallKeepsHandled, TurnKeepsHandled
<1>. QED BY <1>2, <1>3 DEF Next

LEMMA HandledInvariant == Spec => [](TaskInv /\ Handled)
<1>1. Init => Handled
  <2> SUFFICES ASSUME Init PROVE Handled
    OBVIOUS
  <2>1. Born = {0} /\ 0 \in Thread
    <3>1. size = 1 /\ 0 \in Thread /\ \A t \in Thread : t \in Nat /\ (t < 1 <=> t = 0)
      BY ThreadAssumption DEF Init
    <3>. QED BY <3>1 DEF Born
  <2>2. at[0] # Done
    BY <2>1 DEF Init, Run, Done
  <2>. QED BY <2>1, <2>2 DEF Init, Handled
<1>. QED BY <1>1, HandledInductive, TasksInvariant, PTL DEF Spec

(* endThread of Conc/Call.lean: main may return only when it owes no join. *)
(* The oldest thread that has not ended would have a spawner that has      *)
(* ended and still owes its join, so a main that returns leaves nobody.    *)
THEOREM MainReturnsLast == IoSpec => []OkMeansAllEnded
<1>1. TaskInv /\ Handled => OkMeansAllEnded
  <2> SUFFICES ASSUME TypeOK, Handled, outcome = "ok", {t \in Born : at[t] # Done} # {} PROVE FALSE
    BY DEF OkMeansAllEnded, TaskInv
  <2> DEFINE Left == {t \in Born : at[t] # Done}
  <2> DEFINE y == Least(Left)
  <2>1. Left \in SUBSET Thread /\ Left # {} /\ Born \subseteq Nat
    BY BornAre
  <2>2. y \in Left /\ \A v \in Left : y <= v
    <3> HIDE DEF Left
    <3>. QED BY <2>1, LeastIn
  <2> HIDE DEF y
  <2>3. y \in Born /\ y # 0 /\ at[y] # Done
    BY <2>2 DEF Handled
  <2>4. spawner[y] \in Born /\ spawner[y] < y
    BY <2>3 DEF Handled
  <2>5. at[spawner[y]] = Done
    <3>1. spawner[y] \notin Left
      <4> HIDE DEF Left
      <4>1. y \in Nat /\ spawner[y] \in Nat
        BY <2>1, <2>3, <2>4
      <4>. QED BY <2>2, <2>4, <4>1
    <3>. QED BY <2>4, <3>1
  <2>. QED BY <2>3, <2>4, <2>5 DEF Handled
<1>. QED BY <1>1, HandledInvariant, IoRunsTasks, PTL

(* A thread that cannot go on and does not sleep is at a join of a task    *)
(* that has not ended, or its group holds it back.                         *)
LEMMA BlockedMeans ==
  ASSUME TypeOK, NEW t \in Born, at[t] # Done, at[t] # Run, ~CanGo(t), sleeping[t] = NoWord
  PROVE  \/ at[t].op = "join" /\ JoinValid(t, at[t].target) /\ at[at[t].target] # Done
         \/ at[t].op = "gate" /\ IsGated(t)
<1>1. t \in Thread /\ at[t].op \notin {"unborn", "run", "done"}
  BY BornAre, StopMeans DEF TypeOK
<1>. QED BY <1>1, CanGoMeans

(* Joins, groups and deferred tasks alone never block each other: without  *)
(* a sleeper, the threads at a join would each wait for another of them,   *)
(* none for main and no two for the same one.                              *)
LEMMA BlockedNeedSleeper ==
  ASSUME TypeOK, Handled, NoneRuns, \A t \in Thread : ~CanGo(t),
         \A t \in Thread : sleeping[t] = NoWord
  PROVE  FALSE
<1> DEFINE Joining == {t \in Born : at[t].op = "join"}
<1> DEFINE wait == [t \in Joining |-> at[t].target]
<1>1. \A t \in Born : at[t] # Done =>
        \/ t \in Joining /\ JoinValid(t, at[t].target) /\ at[at[t].target] # Done
        \/ IsGated(t)
  BY BornAre, BlockedMeans DEF NoneRuns
<1>2. 0 \in Joining
  BY <1>1, BornAre DEF Handled, NoneRuns, IsGated
<1>3. ASSUME NEW t \in Joining
      PROVE  JoinValid(t, at[t].target) /\ at[t].target \in Joining \ {0}
  <2>1. t \in Born /\ at[t] # Done /\ ~(at[t].op = "gate")
    BY DEF Done
  <2>2. JoinValid(t, at[t].target) /\ at[at[t].target] # Done
    BY <2>1, BornAre, BlockedMeans DEF NoneRuns
  <2>3. at[t].target \in Born \ {0} /\ ~IsGated(at[t].target)
    BY <2>2 DEF JoinValid, Handled
  <2>. QED BY <1>1, <2>2, <2>3
<1>4. IsFiniteSet(Joining)
  <2>1. Joining \subseteq Thread
    BY BornAre
  <2>. QED BY <2>1, ThreadAssumption, FS_Subset
<1>5. wait \in [Joining -> Joining \ {0}]
  BY <1>3
<1>6. \A t, u \in Joining : wait[t] = wait[u] => t = u
  BY <1>3 DEF JoinValid
<1> HIDE DEF Joining, wait
<1>7. IsFiniteSet(Joining \ {0}) /\ Cardinality(Joining \ {0}) < Cardinality(Joining)
  <2>1. IsFiniteSet(Joining \ {0}) /\ Cardinality(Joining \ {0}) = Cardinality(Joining) - 1
    BY <1>2, <1>4, FS_RemoveElement
  <2>2. Cardinality(Joining) \in Nat
    BY <1>4, FS_CardinalityType
  <2>. QED BY <2>1, <2>2
<1>8. \E t, u \in Joining : t # u /\ wait[t] = wait[u]
  BY <1>4, <1>5, <1>7, FS_PigeonHole
<1>. QED BY <1>6, <1>8

(* Only the scheduler reports a deadlock, and nothing moves after it. *)
LEMMA StepsRun ==
  ASSUME NEW t \in Thread, CallOf(t) \/ TurnOf(t)
  PROVE  outcome = "running" /\ outcome' \in {"running", "ok", "illegal"}
<1>1. CASE CallOf(t)
  <2>1. (\E c : Call(t, c)) \/ Running(t)
    BY <1>1 DEF CallOf, Store, Wait, WaitCancelable, Wake, CheckCancel, SpawnCall, Async, Await,
                Cancel, JoinCall, End
  <2>2. outcome = "running"
    BY <2>1 DEF Call, Running
  <2>3. outcome' \in {outcome, "ok", "illegal"}
    BY <1>1 DEF CallOf, Store, Wait, WaitCancelable, Wake, CheckCancel, SpawnCall, Async, Await,
                Cancel, JoinCall, End, Fail
  <2>. QED BY <2>2, <2>3
<1>2. CASE TurnOf(t)
  <2>1. \E op : Turn(t, op)
    BY <1>2 DEF TurnOf, Begin, DoStore, DoWake, WokenReturns, WaitGoesOn, Sleep, LateCancel,
                DoCheckCancel, AsyncChoice, Spawn, SpawnFails, SpawnGated, Join, JoinFails,
                DeliverInAwait, DeferInAwait
  <2>2. outcome = "running"
    BY <2>1 DEF Turn, NoneRuns
  <2>3. outcome' \in {outcome, "illegal"}
    BY <1>2 DEF TurnOf, Begin, DoStore, DoWake, WokenReturns, WaitGoesOn, Sleep, LateCancel,
                DoCheckCancel, AsyncChoice, Spawn, SpawnFails, SpawnGated, Join, JoinFails,
                DeliverInAwait, DeferInAwait, Fail
  <2>. QED BY <2>2, <2>3
<1>. QED BY <1>1, <1>2

(* joinWait, groupAwait, groupCancel and runGated of Conc/Call.lean on the *)
(* scheduler: a deadlock needs a thread asleep at a futex.                 *)
THEOREM GroupsNeverDeadlock == IoSpec => []DeadlockNeedsSleeper
<1>1. Init => DeadlockNeedsSleeper
  BY DEF Init, DeadlockNeedsSleeper
<1>2. TaskInv /\ Handled /\ DeadlockNeedsSleeper /\ [Next]_vars => DeadlockNeedsSleeper'
  <2> SUFFICES ASSUME TypeOK, Handled, DeadlockNeedsSleeper, [Next]_vars, outcome' = "deadlock"
               PROVE  \E t \in Thread : sleeping'[t] # NoWord
    BY DEF TaskInv, DeadlockNeedsSleeper
  <2>1. CASE UNCHANGED vars
    BY <2>1 DEF vars, queue, DeadlockNeedsSleeper
  <2>2. CASE Deadlock
    BY <2>2, BlockedNeedSleeper DEF Deadlock, queue
  <2>3. CASE \E t \in Thread : CallOf(t) \/ TurnOf(t)
    BY <2>3, StepsRun
  <2>. QED BY <2>1, <2>2, <2>3 DEF Next
<1>. QED BY <1>1, <1>2, HandledInvariant, IoRunsTasks, PTL DEF Spec

(***************************************************************************)
(* Timed waits.                                                            *)
(***************************************************************************)

Waiter == Sleepers \cup {Caller}
InQueue(q, u) == \E i \in 1 .. Len(q) : q[i] = u

(* A sleeper is in the queue, once, or marked. *)
QueueOK(q, m) ==
  /\ q \in Seq(Waiter) /\ m \subseteq Waiter
  /\ \A u \in Sleepers : u \in m <=> ~InQueue(q, u)
  /\ \A i, j \in 1 .. Len(q) : q[i] = q[j] => i = j

(* The caller left nothing in the kernel. *)
CallerGone(q, m) == Caller \notin m /\ ~InQueue(q, Caller)

(* Where the caller is in its loop, and what it has seen of the clock. *)
Progress ==
  /\ tpc # "done" => decision = "none"
  /\ tpc \in {"off", "within"} => tries = MaxTries /\ woke = "none"
  /\ tpc \in {"wait", "waiting"} => paused
  /\ tpc = "top" /\ ~paused /\ tries < MaxTries => observed < deadline

TimedInv == TimedOK /\ TimedKept /\ Progress

LEMMA QueueMeans ==
  /\ TimedOK /\ OthersFramed => QueueOK(waiters, marked)
  /\ QueueOK(waiters, marked) => OthersFramed
  /\ Refused <=> registration \/ ~CallerGone(waiters, marked)
BY DEF TimedOK, OthersFramed, QueueOK, InQueue, Waiter, Refused, CallerGone

(* A wake takes from the front of the queue what it marks. *)
LEMMA WakeTakes ==
  ASSUME QueueOK(waiters, marked), NEW n \in Wakes
  PROVE  /\ QueueOK(Unwoken(n), marked \cup Woken(n))
         /\ CallerGone(waiters, marked) => CallerGone(Unwoken(n), marked \cup Woken(n))
<1> DEFINE q == Unwoken(n)
<1>1. /\ waiters \in Seq(Waiter) /\ Len(waiters) \in Nat /\ n \in 0 .. Len(waiters)
      /\ \A i \in 1 .. Len(waiters) : waiters[i] \in Waiter
  BY DEF QueueOK, Wakes
<1>2. /\ q \in Seq(Waiter) /\ Len(q) = Len(waiters) - n
      /\ \A i \in 1 .. Len(q) : n + i \in 1 .. Len(waiters) /\ q[i] = waiters[n + i]
  BY <1>1 DEF Unwoken
<1> HIDE DEF q
<1>3. Woken(n) \subseteq Waiter /\ \A i \in 1 .. Len(waiters) : i <= n => waiters[i] \in Woken(n)
  BY <1>1 DEF Woken
<1>4. \A u \in Woken(n) : \E i \in 1 .. n : u = waiters[i] /\ i \in 1 .. Len(waiters)
  BY <1>1 DEF Woken
<1>5. \A u : InQueue(q, u) => InQueue(waiters, u)
  BY <1>2 DEF InQueue
<1>6. \A u : InQueue(waiters, u) => u \in Woken(n) \/ InQueue(q, u)
  <2> SUFFICES ASSUME NEW i \in 1 .. Len(waiters), ~(i <= n) PROVE InQueue(q, waiters[i])
    BY <1>3 DEF InQueue
  <2>1. i - n \in 1 .. Len(q) /\ q[i - n] = waiters[n + (i - n)] /\ n + (i - n) = i
    BY <1>1, <1>2
  <2>. QED BY <2>1 DEF InQueue
<1>7. \A u \in Woken(n) : ~InQueue(q, u)
  <2> SUFFICES ASSUME NEW u \in Woken(n), NEW j \in 1 .. Len(q), q[j] = u PROVE FALSE
    BY DEF InQueue
  <2>1. PICK i \in 1 .. n : u = waiters[i] /\ i \in 1 .. Len(waiters)
    BY <1>4
  <2>2. waiters[n + j] = waiters[i] /\ n + j \in 1 .. Len(waiters)
    BY <1>2, <2>1
  <2>3. n + j = i
    BY <2>1, <2>2 DEF QueueOK
  <2>. QED BY <1>1, <2>1, <2>3
<1>8. \A i, j \in 1 .. Len(q) : q[i] = q[j] => i = j
  <2> SUFFICES ASSUME NEW i \in 1 .. Len(q), NEW j \in 1 .. Len(q), q[i] = q[j] PROVE i = j
    OBVIOUS
  <2>1. n + i = n + j
    BY <1>2 DEF QueueOK
  <2>. QED BY <1>1, <2>1
<1>9. \A u \in Sleepers : u \in marked \cup Woken(n) <=> ~InQueue(q, u)
  BY <1>5, <1>6, <1>7 DEF QueueOK
<1>10. QueueOK(q, marked \cup Woken(n))
  BY <1>2, <1>3, <1>8, <1>9 DEF QueueOK
<1>11. Caller \in Woken(n) => InQueue(waiters, Caller)
  BY <1>4 DEF InQueue
<1>. QED BY <1>5, <1>10, <1>11 DEF CallerGone, q

LEMMA CallerSleeps ==
  ASSUME NEW q, NEW m, QueueOK(q, m), CallerGone(q, m)
  PROVE  QueueOK(Append(q, Caller), m)
<1> DEFINE p == Append(q, Caller)
<1>1. /\ q \in Seq(Waiter) /\ Caller \in Waiter /\ Len(q) \in Nat
  BY DEF QueueOK, Waiter
<1>2. /\ p \in Seq(Waiter) /\ Len(p) = Len(q) + 1 /\ p[Len(q) + 1] = Caller
      /\ \A i \in 1 .. Len(q) : p[i] = q[i]
  BY <1>1
<1> HIDE DEF p
<1>3. \A i \in 1 .. Len(p) : i \in 1 .. Len(q) \/ i = Len(q) + 1
  BY <1>1, <1>2
<1>4. \A u \in Sleepers : InQueue(p, u) <=> InQueue(q, u)
  BY <1>1, <1>2, <1>3, TimedAssumption DEF InQueue
<1>5. \A i \in 1 .. Len(q) : p[i] # Caller
  BY <1>2 DEF CallerGone, InQueue
<1>6. \A i, j \in 1 .. Len(p) : p[i] = p[j] => i = j
  BY <1>2, <1>3, <1>5 DEF QueueOK
<1>. QED BY <1>2, <1>4, <1>6 DEF QueueOK, p

LEMMA CallerLeaves ==
  ASSUME QueueOK(waiters, marked)
  PROVE  /\ QueueOK(Unqueued, marked \ {Caller})
         /\ CallerGone(Unqueued, marked \ {Caller})
<1> DEFINE q == Unqueued
<1>1. /\ waiters \in Seq(Waiter) /\ Len(waiters) \in Nat /\ marked \subseteq Waiter
      /\ \A i \in 1 .. Len(waiters) : waiters[i] \in Waiter
  BY DEF QueueOK
<1>2. CASE \A i \in 1 .. Len(waiters) : waiters[i] # Caller
  <2>1. q = waiters
    BY <1>2 DEF Unqueued
  <2>2. \A u \in Sleepers : u \in marked \ {Caller} <=> u \in marked
    BY TimedAssumption
  <2>. QED BY <1>1, <1>2, <2>1, <2>2 DEF QueueOK, CallerGone, InQueue
<1>3. CASE ~ \A i \in 1 .. Len(waiters) : waiters[i] # Caller
  <2> DEFINE k == CHOOSE i \in 1 .. Len(waiters) : waiters[i] = Caller
  <2>1. k \in 1 .. Len(waiters) /\ waiters[k] = Caller
    BY <1>3
  <2> HIDE DEF k
  <2>2. q = SubSeq(waiters, 1, k - 1) \o SubSeq(waiters, k + 1, Len(waiters))
    BY <1>3 DEF Unqueued, k
  <2> HIDE DEF q
  <2> DEFINE a == SubSeq(waiters, 1, k - 1)
  <2> DEFINE b == SubSeq(waiters, k + 1, Len(waiters))
  <2>3. /\ a \in Seq(Waiter) /\ Len(a) = k - 1
        /\ \A i \in 1 .. k - 1 : a[i] = waiters[i]
    BY <1>1, <2>1
  <2>4. /\ b \in Seq(Waiter) /\ Len(b) = Len(waiters) - k
        /\ \A i \in 1 .. Len(waiters) - k : b[i] = waiters[k + i]
    BY <1>1, <2>1
  <2>5. q = a \o b
    BY <2>2
  <2> HIDE DEF a, b
  <2>6. /\ q \in Seq(Waiter) /\ Len(q) = Len(waiters) - 1
        /\ \A i \in 1 .. k - 1 : q[i] = a[i]
        /\ \A i \in k .. Len(waiters) - 1 : q[i] = b[i - (k - 1)]
    BY <1>1, <2>1, <2>3, <2>4, <2>5
  <2>7. \A i \in 1 .. Len(q) : IF i < k THEN q[i] = waiters[i] ELSE q[i] = waiters[i + 1]
    <3> SUFFICES ASSUME NEW i \in 1 .. Len(q)
                 PROVE  IF i < k THEN q[i] = waiters[i] ELSE q[i] = waiters[i + 1]
      OBVIOUS
    <3>1. CASE i < k
      BY <1>1, <2>1, <2>3, <2>6, <3>1
    <3>2. CASE ~(i < k)
      <4>1. i \in k .. Len(waiters) - 1 /\ i - (k - 1) \in 1 .. Len(waiters) - k
        BY <1>1, <2>1, <2>6, <3>2
      <4>2. b[i - (k - 1)] = waiters[k + (i - (k - 1))] /\ k + (i - (k - 1)) = i + 1
        BY <1>1, <2>1, <2>4, <4>1
      <4>. QED BY <2>6, <3>2, <4>1, <4>2
    <3>. QED BY <3>1, <3>2
  <2> DEFINE old(i) == IF i < k THEN i ELSE i + 1
  <2>8. \A i \in 1 .. Len(q) : old(i) \in 1 .. Len(waiters) /\ old(i) # k /\ q[i] = waiters[old(i)]
    BY <1>1, <2>1, <2>6, <2>7
  <2>9. \A i, j \in 1 .. Len(q) : old(i) = old(j) => i = j
    BY <1>1, <2>1, <2>6
  <2>10. \A i \in 1 .. Len(waiters) : i # k => \E j \in 1 .. Len(q) : old(j) = i
    <3> SUFFICES ASSUME NEW i \in 1 .. Len(waiters), i # k PROVE \E j \in 1 .. Len(q) : old(j) = i
      OBVIOUS
    <3>1. CASE i < k
      <4>1. i \in 1 .. Len(q) /\ old(i) = i
        BY <1>1, <2>1, <2>6, <3>1
      <4>. QED BY <4>1
    <3>2. CASE ~(i < k)
      <4>1. i - 1 \in 1 .. Len(q) /\ old(i - 1) = i
        BY <1>1, <2>1, <2>6, <3>2
      <4>. QED BY <4>1
    <3>. QED BY <3>1, <3>2
  <2> HIDE DEF old
  <2>11. \A u \in Sleepers : InQueue(q, u) <=> InQueue(waiters, u)
    <3>1. \A u \in Sleepers : InQueue(q, u) => InQueue(waiters, u)
      BY <2>8 DEF InQueue
    <3>2. ASSUME NEW u \in Sleepers, NEW i \in 1 .. Len(waiters), waiters[i] = u PROVE InQueue(q, u)
      <4>1. i # k
        BY <2>1, <3>2, TimedAssumption
      <4>2. PICK j \in 1 .. Len(q) : old(j) = i
        BY <2>10, <4>1
      <4>. QED BY <2>8, <3>2, <4>2 DEF InQueue
    <3>. QED BY <3>1, <3>2 DEF InQueue
  <2>12. \A i, j \in 1 .. Len(q) : q[i] = q[j] => i = j
    BY <2>8, <2>9 DEF QueueOK
  <2>13. ~InQueue(q, Caller)
    BY <2>1, <2>8 DEF InQueue, QueueOK
  <2>14. \A u \in Sleepers : u \in marked \ {Caller} <=> u \in marked
    BY TimedAssumption
  <2>15. QueueOK(q, marked \ {Caller})
    BY <1>1, <2>6, <2>11, <2>12, <2>14 DEF QueueOK
  <2>. QED BY <2>13, <2>15 DEF CallerGone, q
<1>. QED BY <1>2, <1>3

LEMMA EnabledMeans ==
  /\ Enabled("spurious") <=> registration
  /\ Enabled("wake") <=> registration /\ Caller \in marked
  /\ Enabled("timeout") <=> registration /\ deadline <= observed
BY DEF Enabled

LEMMA TimedTypes ==
  ASSUME TimedOK
  PROVE  /\ Limit \in Nat /\ MaxTries \in Nat /\ budget \in Nat /\ tries \in Int
         /\ start \in Int /\ observed \in Int /\ deadline \in Int /\ stepped \in Int
         /\ \A t \in Later : t \in Timestamp /\ t \in Int /\ observed <= t
BY TimedAssumption DEF TimedOK, Timestamp, Later

(* The queue, the marks and the registration after a step. *)
KernelKept ==
  /\ QueueOK(waiters, marked)
  /\ registration \in BOOLEAN
  /\ registration <=> tpc = "waiting"
  /\ ~registration => CallerGone(waiters, marked)

LEMMA KernelMeans == TimedInv => KernelKept
BY QueueMeans DEF TimedInv, TimedKept, NoStaleWake, KernelKept, TimedOK

LEMMA KernelSuffices ==
  ASSUME KernelKept', decision' # "illegal"
  PROVE  /\ NoStaleWake' /\ OthersFramed'
         /\ waiters' \in Seq(Sleepers \cup {Caller}) /\ marked' \subseteq Sleepers \cup {Caller}
         /\ registration' \in BOOLEAN
<1>1. (Refused <=> registration \/ ~CallerGone(waiters, marked))'
  BY QueueMeans, PTL
<1>2. (QueueOK(waiters, marked) => OthersFramed)'
  BY QueueMeans, PTL
<1>. QED BY <1>1, <1>2 DEF KernelKept, NoStaleWake, QueueOK, Waiter

LEMMA ObservesKeepsKernel ==
  ASSUME TimedInv, NEW t \in Later, NEW n \in Wakes, Observes(t, n), registration' = registration,
         tpc' = "waiting" <=> tpc = "waiting"
  PROVE  KernelKept' /\ observed' = t
BY KernelMeans, WakeTakes DEF Observes, KernelKept

LEMMA TimedInductive == TimedInv /\ [TimedNext]_timed => TimedInv'
<1> SUFFICES ASSUME TimedInv, [TimedNext]_timed PROVE TimedInv'
  OBVIOUS
<1>1. TimedOK /\ KernelKept /\ VerdictFits /\ Progress
  BY KernelMeans DEF TimedInv, TimedKept
<1>2. /\ Limit \in Nat /\ MaxTries \in Nat /\ budget \in Nat /\ tries \in Int
      /\ start \in Int /\ observed \in Int /\ deadline \in Int /\ stepped \in Int
      /\ \A t \in Later : t \in Timestamp /\ t \in Int /\ observed <= t
  BY <1>1, TimedTypes
<1>3. tpc = "top" \/ tpc = "wait" \/ tpc = "waiting" \/ tpc = "within" => decision = "none"
  BY <1>1 DEF Progress
<1> DEFINE Numbers ==
      /\ tpc' \in {"off", "within", "top", "wait", "waiting", "done"}
      /\ paused' \in BOOLEAN /\ budget' \in Budgets
      /\ start' \in Timestamp /\ observed' \in Timestamp /\ deadline' \in Timestamp
      /\ stepped' \in Timestamp
      /\ tries' \in 0 .. MaxTries
      /\ woke' \in {"none", "mismatch", "wake", "timeout", "spurious"}
      /\ decision' \in {"none", "solved", "expired", "capped", "unrepresentable"}
<1>4. ASSUME Numbers, KernelKept', VerdictFits', Progress' PROVE TimedInv'
  <2>1. decision' # "illegal"
    BY <1>4
  <2>2. /\ NoStaleWake' /\ OthersFramed'
        /\ waiters' \in Seq(Sleepers \cup {Caller}) /\ marked' \subseteq Sleepers \cup {Caller}
        /\ registration' \in BOOLEAN
    BY <1>4, <2>1, KernelSuffices
  <2>. QED BY <1>4, <2>2 DEF TimedInv, TimedOK, TimedKept
<1>5. /\ tpc \in {"off", "within", "top", "wait", "waiting", "done"}
      /\ paused \in BOOLEAN /\ budget \in Budgets
      /\ start \in Timestamp /\ observed \in Timestamp /\ deadline \in Timestamp
      /\ stepped \in Timestamp
      /\ tries \in 0 .. MaxTries
      /\ woke \in {"none", "mismatch", "wake", "timeout", "spurious"}
      /\ decision \in {"none", "solved", "expired", "capped", "unrepresentable"}
  BY <1>1 DEF TimedInv, TimedOK, TimedKept, NoStaleWake
<1>6. CASE Within
  <2>1. PICK t \in Later, n \in Wakes :
          /\ Observes(t, n) /\ start' = t
          /\ IF t + budget < Limit
               THEN deadline' = t + budget /\ tpc' = "top" /\ UNCHANGED decision
               ELSE Decides("unrepresentable") /\ UNCHANGED deadline
    BY <1>6 DEF Within
  <2>2. tpc = "within" /\ UNCHANGED <<paused, budget, tries, registration, woke, stepped>>
    BY <1>6 DEF Within
  <2>3. KernelKept' /\ observed' = t
    BY <2>1, <2>2, ObservesKeepsKernel DEF Decides, TimedInv
  <2>4. Numbers
    BY <1>2, <1>5, <2>1, <2>2, <2>3 DEF Decides, Timestamp
  <2>5. VerdictFits'
    BY <1>1, <1>2, <1>3, <2>1, <2>2, <2>3 DEF VerdictFits, Progress, Decides
  <2>6. Progress'
    BY <1>1, <1>2, <2>1, <2>2 DEF Progress, Decides
  <2>. QED BY <1>4, <2>3, <2>4, <2>5, <2>6
<1>7. CASE Capped
  <2>1. /\ tpc = "top" /\ tries = 0 /\ tpc' = "done" /\ decision' = "capped"
        /\ UNCHANGED <<paused, budget, start, observed, deadline, tries, kernel, woke, stepped>>
    BY <1>7 DEF Capped, Decides
  <2>2. KernelKept'
    BY <1>1, <2>1 DEF KernelKept, kernel
  <2>3. VerdictFits'
    BY <1>1, <1>2, <1>3, <2>1 DEF VerdictFits, Progress
  <2>. QED BY <1>1, <1>4, <1>5, <2>1, <2>2, <2>3 DEF Progress
<1>8. CASE Iterate
  <2>1. PICK t \in Later, n \in Wakes :
          /\ Observes(t, n)
          /\ \/ deadline <= t /\ Decides("expired") /\ UNCHANGED <<tries, stepped>>
             \/ t < deadline /\ Advances(t)
    BY <1>8 DEF Iterate
  <2>2. tpc = "top" /\ tries > 0 /\ UNCHANGED <<paused, budget, start, deadline, registration, woke>>
    BY <1>8 DEF Iterate
  <2>3. KernelKept' /\ observed' = t
    BY <2>1, <2>2, ObservesKeepsKernel DEF Decides, Advances
  <2>4. Numbers /\ VerdictFits' /\ Progress'
    <3>1. CASE deadline <= t /\ tpc' = "done" /\ decision' = "expired" /\ UNCHANGED <<tries, stepped>>
      BY <1>1, <1>2, <1>3, <1>5, <2>2, <2>3, <3>1 DEF VerdictFits, Progress
    <3>2. CASE t < deadline /\ stepped' = t /\ tpc' = "done" /\ decision' = "solved" /\ UNCHANGED tries
      BY <1>1, <1>2, <1>3, <1>5, <2>2, <2>3, <3>2 DEF VerdictFits, Progress
    <3>3. CASE t < deadline /\ stepped' = t /\ tries' = tries - 1 /\ UNCHANGED decision
               /\ tpc' = (IF paused THEN "wait" ELSE "top")
      BY <1>1, <1>2, <1>3, <1>5, <2>2, <2>3, <3>3 DEF VerdictFits, Progress
    <3>. QED BY <2>1, <3>1, <3>2, <3>3 DEF Decides, Advances
  <2>. QED BY <1>4, <2>3, <2>4
<1>9. CASE Pause
  <2>1. /\ tpc = "wait" /\ paused /\ ~registration /\ CallerGone(waiters, marked)
        /\ UNCHANGED <<paused, budget, start, deadline, tries, stepped>>
    BY <1>1, <1>9 DEF Pause, KernelKept, Progress
  <2>2. ~Refused
    BY <2>1, QueueMeans
  <2>3. PICK t \in Later, n \in Wakes : Begins(t, n) /\ UNCHANGED decision
    BY <1>9, <2>2 DEF Pause
  <2>4. CASE /\ Observes(t, n)
             /\ woke' = "mismatch" \/ (deadline <= t /\ woke' = "timeout")
             /\ tpc' = "top"
             /\ UNCHANGED registration
    <3>1. KernelKept' /\ observed' = t
      BY <2>1, <2>4, ObservesKeepsKernel
    <3>. QED BY <1>1, <1>2, <1>3, <1>4, <1>5, <2>1, <2>3, <2>4, <3>1 DEF VerdictFits, Progress
  <2>5. CASE /\ t < deadline
             /\ observed' = t
             /\ waiters' = Append(Unwoken(n), Caller)
             /\ marked' = marked \cup Woken(n)
             /\ registration' = TRUE
             /\ tpc' = "waiting"
             /\ UNCHANGED woke
    <3>1. KernelKept'
      BY <1>1, <2>1, <2>5, WakeTakes, CallerSleeps DEF KernelKept
    <3>. QED BY <1>1, <1>2, <1>3, <1>4, <1>5, <2>1, <2>3, <2>5, <3>1 DEF VerdictFits, Progress
  <2>. QED BY <2>3, <2>4, <2>5 DEF Begins
<1>10. CASE Sleeps
  <2>1. PICK t \in Later, n \in Wakes : Observes(t, n)
    BY <1>10 DEF Sleeps
  <2>2. /\ tpc = "waiting"
        /\ UNCHANGED <<tpc, paused, budget, start, deadline, tries, registration, woke, stepped, decision>>
    BY <1>10 DEF Sleeps
  <2>3. KernelKept' /\ observed' = t
    BY <2>1, <2>2, ObservesKeepsKernel
  <2>. QED BY <1>1, <1>2, <1>3, <1>4, <1>5, <2>2, <2>3 DEF VerdictFits, Progress
<1>11. CASE WaitEnds
  <2>1. /\ tpc = "waiting" /\ tpc' = "top" /\ paused
        /\ waiters' = Unqueued /\ marked' = marked \ {Caller} /\ registration' = FALSE
        /\ UNCHANGED <<paused, budget, start, observed, deadline, tries, stepped, decision>>
    BY <1>1, <1>11 DEF WaitEnds, KernelReleases, Progress
  <2>2. woke' \in {"spurious", "wake"} \/ (woke' = "timeout" /\ deadline <= observed)
    BY <1>11, EnabledMeans DEF WaitEnds
  <2>3. KernelKept'
    BY <1>1, <2>1, CallerLeaves DEF KernelKept
  <2>. QED BY <1>1, <1>2, <1>3, <1>4, <1>5, <2>1, <2>2, <2>3 DEF VerdictFits, Progress
<1>12. CASE UNCHANGED timed
  BY <1>1, <1>4, <1>5, <1>12 DEF timed, kernel, KernelKept, VerdictFits, Progress
<1>. QED BY <1>6, <1>7, <1>8, <1>9, <1>10, <1>11, <1>12 DEF TimedNext

LEMMA TimedInvariant == IoSpec => []TimedInv
<1>1. IoInit => TimedInv
  <2> SUFFICES ASSUME NEW q \in Queues, NEW l \in {"off", "within"}, TimedAt(l, q) PROVE TimedInv
    BY DEF IoInit, PartAt
  <2>1. /\ q \in Seq(Sleepers) /\ Len(q) \in Nat /\ DOMAIN q = 1 .. Len(q)
        /\ \A i \in 1 .. Len(q) : q[i] \in Sleepers
        /\ \A u \in Sleepers : \E i \in 1 .. Len(q) : q[i] = u
        /\ \A i, j \in 1 .. Len(q) : q[i] = q[j] => i = j
    <3>1. Cardinality(Sleepers) \in Nat
      BY TimedAssumption, FS_CardinalityType
    <3>2. /\ q \in [1 .. Cardinality(Sleepers) -> Sleepers]
          /\ \A u \in Sleepers : \E i \in DOMAIN q : q[i] = u
          /\ \A i, j \in DOMAIN q : q[i] = q[j] => i = j
      BY DEF Queues
    <3>. QED BY <3>1, <3>2
  <2>2. waiters = q /\ marked = {} /\ registration = FALSE /\ tpc = l
    BY DEF TimedAt
  <2>3. QueueOK(waiters, marked)
    <3>1. q \in Seq(Waiter)
      BY <2>1 DEF Waiter
    <3>. QED BY <2>1, <2>2, <3>1 DEF QueueOK, InQueue
  <2>4. CallerGone(waiters, marked)
    BY <2>1, <2>2, TimedAssumption DEF CallerGone, InQueue
  <2>5. NoStaleWake /\ OthersFramed
    BY <2>2, <2>3, <2>4, QueueMeans DEF NoStaleWake, TimedAt
  <2>6. TimedOK
    <3>1. 0 \in Timestamp /\ MaxTries \in 0 .. MaxTries
      BY TimedAssumption DEF Timestamp
    <3>2. waiters \in Seq(Sleepers \cup {Caller}) /\ marked \subseteq Sleepers \cup {Caller}
      BY <2>3 DEF QueueOK, Waiter
    <3>. QED BY <3>1, <3>2 DEF TimedOK, TimedAt
  <2>7. VerdictFits /\ Progress
    BY TimedAssumption DEF VerdictFits, Progress, TimedAt
  <2>. QED BY <2>5, <2>6, <2>7 DEF TimedInv, TimedKept
<1>2. [IoNext]_io => [TimedNext]_timed
  BY DEF IoNext, io
<1>. QED BY <1>1, <1>2, TimedInductive, PTL DEF IoSpec

(* Kernel.begin, wake and release of TimedSched.lean with the loops of     *)
(* TimedBudget.lean: no wait is refused for a wake of an earlier one, and  *)
(* every verdict fits the clock, whatever is observed when.                *)
THEOREM VerdictsFitTheClock == IoSpec => []TimedKept
<1>1. TimedInv => TimedKept
  BY DEF TimedInv
<1>. QED BY <1>1, TimedInvariant, PTL

(***************************************************************************)
(* Futures.                                                                *)
(***************************************************************************)

OnStack(t, f) == \E i \in 1 .. Len(frames[t]) : frames[t][i] = f
StartsOf(t, f) == fat[t].op \in {"choice", "spawn"} /\ fat[t].of = f
WaitsOf(t, f) == fat[t].op \in {"request", "await", "cancel"} /\ fat[t].of = f

(* What the stop of a thread says of its future. *)
StopsFit ==
  /\ \A t \in Task, f \in Future : StartsOf(t, f) =>
       /\ future[f] = "called" /\ creator[f] = t /\ ~OnStack(t, f) /\ f \notin given
       /\ record[f] = IF fat[t].op = "choice" THEN "none" ELSE "empty"
  /\ \A t \in Task, f \in Future : WaitsOf(t, f) => future[f] = "pending" /\ creator[f] = t
  /\ \A t \in Task : fat[t].op \in {"unborn", "start", "done"} => frames[t] = <<>>

(* What a thread runs itself is its own, and each task once. *)
StacksFit ==
  /\ \A t \in Task, f \in Future : OnStack(t, f) =>
       future[f] = "called" /\ creator[f] = t /\ record[f] \in {"none", "freed"}
  /\ \A t \in Task : \A i, j \in 1 .. Len(frames[t]) : frames[t][i] = frames[t][j] => i = j

(* What a future says of its task, its record and its creator. *)
PhasesFit ==
  \A f \in Future :
    /\ future[f] = "none" => record[f] = "none" /\ f \notin given
    /\ future[f] \in {"none", "called"} => fat[f].op = "unborn" /\ returned[f] = "none"
    /\ future[f] = "called" => StartsOf(creator[f], f) \/ OnStack(creator[f], f)
    /\ future[f] = "pending" =>
         /\ fat[f].op # "unborn"
         /\ IF fat[f].op = "done" THEN record[f] = returned[f] /\ returned[f] # "none"
                                  ELSE record[f] = "empty" /\ returned[f] = "none"
    /\ future[f] = "consumed" => record[f] \in {"none", "freed"} /\ fat[f].op \in {"unborn", "done"}
    /\ future[f] # "none" => creator[f] < f /\ fat[creator[f]].op # "unborn"

(* Who ends owes no join, and main ends last. *)
EndsFit ==
  /\ \A t \in Task : fat[t].op = "done" => Unjoined(t) = {}
  /\ fat[Main].op # "unborn"
  /\ fend = "running" => fat[Main].op # "done"
  /\ fend = "ok" => fat[Main].op = "done"

(* A request was asked for, and an error was requested. *)
RequestsFit ==
  /\ requests \subseteq asked
  /\ \A b \in given : RunBy(b) \in asked

FuturesFit == StopsFit /\ StacksFit /\ PhasesFit /\ EndsFit /\ RequestsFit

(* An error may end the run in the middle of a step. *)
FutureInv ==
  /\ FuturesOK
  /\ RequestIsWaitedFor
  /\ ResultIsItsOwn
  /\ fend # "illegal" => FuturesFit

LEMMA FutureStopMeans ==
  ASSUME FuturesOK, NEW t \in Task
  PROVE  /\ fat[t].op \in {"choice", "spawn", "request", "await", "cancel"} => fat[t].of \in Future
         /\ fat[t].op \in {"unborn", "start", "run", "check", "done", "choice", "spawn", "request",
                           "await", "cancel"}
         /\ fat[t].op = "cancel" => fat[t] = [op |-> "cancel", of |-> fat[t].of]
<1>1. fat[t] \in FutureStops
  BY DEF FuturesOK
<1>. QED BY <1>1 DEF FutureStops

LEMMA TasksAre ==
  /\ Main \in Task /\ Main \notin Future /\ Future \subseteq Task
  /\ Task \subseteq Nat /\ Future \subseteq Nat /\ Task = Future \cup {Main}
BY FutureAssumption DEF Task, Future, Main

(* The task that a thread runs is its own, or one that it made. *)
LEMMA BodyMeans ==
  ASSUME FuturesOK, FuturesFit, NEW t \in Task, fat[t].op \in {"run", "check"}
  PROVE  /\ Body(t) \in Task /\ RunBy(Body(t)) = t
         /\ Body(t) \in Future => future[Body(t)] # "none"
         /\ \A u \in Task, f \in Future : StartsOf(u, f) => Body(t) # f
         /\ frames[t] # <<>> => Body(t) \in Future /\ OnStack(t, Body(t)) /\ Body(t) = frames[t][Len(frames[t])]
         /\ frames[t] = <<>> => Body(t) = t
<1>1. frames[t] \in Seq(Future)
  BY DEF FuturesOK
<1>2. CASE frames[t] = <<>>
  <2>1. Body(t) = t /\ RunBy(t) = t
    BY <1>2 DEF Body, RunBy
  <2>2. t \in Future => future[t] # "none"
    BY DEF FuturesFit, PhasesFit
  <2>3. \A u \in Task, f \in Future : StartsOf(u, f) => t # f
    BY DEF FuturesFit, PhasesFit, StopsFit
  <2>. QED BY <1>2, <2>1, <2>2, <2>3
<1>3. CASE frames[t] # <<>>
  <2>1. /\ Len(frames[t]) \in 1 .. Len(frames[t]) /\ Body(t) = frames[t][Len(frames[t])]
        /\ Body(t) \in Future
    BY <1>1, <1>3 DEF Body
  <2>2. OnStack(t, Body(t))
    BY <2>1 DEF OnStack
  <2>3. future[Body(t)] = "called" /\ creator[Body(t)] = t
    BY <2>1, <2>2 DEF FuturesFit, StacksFit
  <2>4. RunBy(Body(t)) = t
    BY <2>1, <2>3 DEF FuturesFit, PhasesFit, RunBy
  <2>5. \A u \in Task, f \in Future : StartsOf(u, f) => Body(t) # f
    BY <2>2, <2>3 DEF FuturesFit, StopsFit
  <2>. QED BY <1>3, <2>1, <2>2, <2>3, <2>4, <2>5, TasksAre
<1>. QED BY <1>2, <1>3

(* A step of t from one stop to another that neither makes nor consumes a  *)
(* future nor ends a task.                                                 *)
LEMMA MoveKeepsFutures ==
  ASSUME FutureInv, fend = "running", NEW t \in Task, NEW s \in FutureStops,
         fat' = [fat EXCEPT ![t] = s],
         fat[t].op \notin {"unborn", "done", "choice", "spawn"},
         s.op \notin {"unborn", "done", "start", "choice", "spawn"},
         s.op \in {"request", "await", "cancel"} =>
           s.of \in Future /\ future[s.of] = "pending" /\ creator[s.of] = t,
         UNCHANGED <<frames, creator, values, returned, canceling, fend>>,
         requests' \subseteq asked', asked' \subseteq Future, asked \subseteq asked',
         given' = given \/ (given' = given \cup {Body(t)} /\ t \in asked /\ fat[t].op = "check"),
         RequestIsWaitedFor'
  PROVE  FutureInv'
<1> USE DEF values
<1>1. FuturesOK /\ FuturesFit /\ ResultIsItsOwn
  BY DEF FutureInv
<1>2. /\ fat'[t] = s /\ \A u \in Task : u # t => fat'[u] = fat[u]
      /\ fat' \in [Task -> FutureStops]
  BY <1>1 DEF FuturesOK
<1>3. \A u \in Task : /\ fat'[u].op = "unborn" <=> fat[u].op = "unborn"
                      /\ fat'[u].op = "done" <=> fat[u].op = "done"
                      /\ fat'[u].op = "start" => fat[u].op = "start"
  BY <1>2
<1>4. \A u \in Task, f \in Future : /\ StartsOf(u, f) <=> StartsOf(u, f)'
                                    /\ OnStack(u, f) <=> OnStack(u, f)'
  BY <1>2 DEF StartsOf, OnStack
<1>5. given' \subseteq Task
  BY <1>1, BodyMeans DEF FuturesOK
<1>6. FuturesOK'
  BY <1>1, <1>2, <1>5 DEF FuturesOK
<1>7. \A b \in Future : RunBy(b)' = RunBy(b)
  BY <1>3, TasksAre DEF RunBy
<1>8. ResultIsItsOwn'
  BY <1>1, <1>7 DEF ResultIsItsOwn
<1>9. StopsFit'
  <2>1. ASSUME NEW u \in Task, NEW f \in Future, StartsOf(u, f)'
        PROVE  /\ future'[f] = "called" /\ creator'[f] = u /\ ~OnStack(u, f)' /\ f \notin given'
               /\ record'[f] = IF fat'[u].op = "choice" THEN "none" ELSE "empty"
    <3>1. StartsOf(u, f) /\ ~OnStack(u, f)' = ~OnStack(u, f) /\ u # t
      BY <1>2, <1>4, <2>1 DEF StartsOf
    <3>2. f \notin given'
      BY <1>1, <3>1, BodyMeans DEF FuturesFit, StopsFit
    <3>. QED BY <1>1, <1>2, <1>4, <3>1, <3>2 DEF FuturesFit, StopsFit
  <2>2. \A u \in Task, f \in Future : WaitsOf(u, f)' => future'[f] = "pending" /\ creator'[f] = u
    BY <1>1, <1>2 DEF FuturesFit, StopsFit, WaitsOf
  <2>3. \A u \in Task : fat'[u].op \in {"unborn", "start", "done"} => frames'[u] = <<>>
    BY <1>1, <1>2 DEF FuturesFit, StopsFit
  <2>. QED BY <2>1, <2>2, <2>3 DEF StopsFit
<1>10. StacksFit'
  BY <1>1, <1>4 DEF FuturesFit, StacksFit
<1>11. PhasesFit'
  <2> SUFFICES ASSUME NEW f \in Future
        PROVE /\ future[f] = "none" => f \notin given'
              /\ future[f] = "called" => StartsOf(creator[f], f)' \/ OnStack(creator[f], f)'
              /\ future[f] # "none" => fat'[creator[f]].op # "unborn"
    BY <1>1, <1>3, TasksAre DEF FuturesFit, PhasesFit
  <2>1. creator[f] \in Task /\ f \in Task
    BY <1>1, TasksAre DEF FuturesOK
  <2>2. future[f] = "none" => f \notin given'
    BY <1>1, BodyMeans DEF FuturesFit, PhasesFit
  <2>3. future[f] = "called" => StartsOf(creator[f], f)' \/ OnStack(creator[f], f)'
    BY <1>1, <1>4, <2>1 DEF FuturesFit, PhasesFit
  <2>. QED BY <1>1, <1>3, <2>1, <2>2, <2>3 DEF FuturesFit, PhasesFit
<1>12. EndsFit'
  BY <1>1, <1>3, TasksAre DEF FuturesFit, EndsFit, Unjoined
<1>13. RequestsFit'
  <2>1. \A b \in Task : RunBy(b)' = RunBy(b)
    BY <1>3, TasksAre DEF RunBy
  <2>2. given' = given \/ (given' = given \cup {Body(t)} /\ RunBy(Body(t)) \in asked')
    BY <1>1, BodyMeans
  <2>3. given \subseteq Task /\ \A b \in given : RunBy(b) \in asked'
    BY <1>1 DEF FuturesFit, RequestsFit, FuturesOK
  <2>. QED BY <1>5, <2>1, <2>2, <2>3 DEF RequestsFit
<1>. QED BY <1>6, <1>8, <1>9, <1>10, <1>11, <1>12, <1>13 DEF FutureInv, FuturesFit

LEMMA AsyncKeepsFutures ==
  ASSUME FutureInv, NEW t \in Task, NEW f \in Future, AsyncFuture(t, f)
  PROVE  FutureInv'
<1>1. /\ FuturesOK /\ FuturesFit /\ ResultIsItsOwn /\ RequestIsWaitedFor
      /\ fend = "running" /\ fat[t].op = "run"
      /\ \A g \in Future : future[g] = "none" <=> g >= f
      /\ UNCHANGED <<frames, result, record, requests, given, returned, asked, canceling, fend>>
  BY DEF AsyncFuture, Runs, FutureInv
<1> DEFINE s == [op |-> "choice", of |-> f]
<1>2. s \in FutureStops /\ s.op = "choice" /\ s.of = f
  BY DEF FutureStops
<1>3. /\ future' = [future EXCEPT ![f] = "called"] /\ creator' = [creator EXCEPT ![f] = t]
      /\ fat' = [fat EXCEPT ![t] = s]
  BY DEF AsyncFuture, StopsAt
<1> HIDE DEF s
<1>4. /\ fat'[t] = s /\ \A u \in Task : u # t => fat'[u] = fat[u]
      /\ future'[f] = "called" /\ \A g \in Future : g # f => future'[g] = future[g]
      /\ creator'[f] = t /\ \A g \in Future : g # f => creator'[g] = creator[g]
  BY <1>1, <1>3 DEF FuturesOK
<1>5. FuturesOK'
  BY <1>1, <1>2, <1>3 DEF FuturesOK
<1>6. future[f] = "none" /\ fat[f].op = "unborn" /\ f # t /\ f \in Nat
  BY <1>1, TasksAre DEF FuturesFit, PhasesFit
<1>7. t < f
  <2>1. t = Main \/ (t \in Future /\ future[t] # "none")
    BY <1>1, TasksAre DEF FuturesFit, PhasesFit
  <2>2. Main < f /\ f \in Nat /\ t \in Nat
    BY FutureAssumption, TasksAre DEF Future, Main
  <2>3. CASE t \in Future /\ future[t] # "none"
    <3>1. ~(t >= f)
      BY <1>1, <2>3
    <3>. QED BY <2>2, <3>1
  <2>. QED BY <2>1, <2>2, <2>3
<1>8. \A u \in Task : (fat'[u].op = "unborn" <=> fat[u].op = "unborn")
                      /\ (fat'[u].op \in {"done", "start"} <=> fat[u].op \in {"done", "start"})
                      /\ (fat'[u].op = "done" <=> fat[u].op = "done")
  BY <1>1, <1>2, <1>4
<1>9. \A b \in Task : b # f => RunBy(b)' = RunBy(b)
  BY <1>4, <1>8, <1>1, TasksAre DEF RunBy, FuturesFit, EndsFit
<1>10. \A u \in Task, g \in Future : /\ OnStack(u, g)' <=> OnStack(u, g)
                                     /\ StartsOf(u, g)' <=> StartsOf(u, g) \/ (u = t /\ g = f)
                                     /\ WaitsOf(u, g)' <=> WaitsOf(u, g)
  BY <1>1, <1>2, <1>4 DEF OnStack, StartsOf, WaitsOf
<1>11. RequestIsWaitedFor'
  <2> SUFFICES ASSUME NEW g \in requests PROVE fat'[creator'[g]] = [op |-> "cancel", of |-> g]
    BY <1>1 DEF RequestIsWaitedFor
  <2>1. /\ g \in Future /\ creator[g] \in Task /\ fat[creator[g]] = [op |-> "cancel", of |-> g]
    BY <1>1 DEF RequestIsWaitedFor, FuturesOK
  <2>2. WaitsOf(creator[g], g) /\ creator[g] # t
    BY <1>1, <2>1 DEF WaitsOf
  <2>3. g # f
    BY <1>1, <1>6, <2>1, <2>2 DEF FuturesFit, StopsFit
  <2>. QED BY <1>4, <2>1, <2>2, <2>3
<1>12. ResultIsItsOwn'
  BY <1>1, <1>4, <1>6, <1>9, TasksAre DEF ResultIsItsOwn, FuturesFit, PhasesFit
<1>13. StopsFit'
  <2>1. ~OnStack(t, f) /\ f \notin given /\ record[f] = "none"
    BY <1>1, <1>6 DEF FuturesFit, StacksFit, PhasesFit
  <2>2. ASSUME NEW u \in Task, NEW g \in Future, StartsOf(u, g)'
        PROVE  /\ future'[g] = "called" /\ creator'[g] = u /\ ~OnStack(u, g)' /\ g \notin given'
               /\ record'[g] = IF fat'[u].op = "choice" THEN "none" ELSE "empty"
    <3>1. CASE u = t /\ g = f
      BY <1>1, <1>2, <1>4, <1>10, <2>1, <3>1
    <3>2. CASE StartsOf(u, g)
      <4>1. g # f /\ u # t
        BY <1>1, <1>6, <3>2 DEF FuturesFit, StopsFit, StartsOf
      <4>. QED BY <1>1, <1>4, <1>10, <3>2, <4>1 DEF FuturesFit, StopsFit
    <3>. QED BY <1>10, <2>2, <3>1, <3>2
  <2>3. ASSUME NEW u \in Task, NEW g \in Future, WaitsOf(u, g)
        PROVE  future'[g] = "pending" /\ creator'[g] = u
    <3>1. future[g] = "pending" /\ creator[g] = u
      BY <1>1, <2>3 DEF FuturesFit, StopsFit
    <3>. QED BY <1>4, <1>6, <3>1
  <2>4. \A u \in Task : fat'[u].op \in {"unborn", "start", "done"} => frames'[u] = <<>>
    BY <1>1, <1>8 DEF FuturesFit, StopsFit
  <2>. QED BY <1>10, <2>2, <2>3, <2>4 DEF StopsFit
<1>14. StacksFit'
  <2>1. \A u \in Task, g \in Future : OnStack(u, g) => g # f
    BY <1>1, <1>6 DEF FuturesFit, StacksFit
  <2>. QED BY <1>1, <1>4, <1>10, <2>1 DEF FuturesFit, StacksFit
<1>15. PhasesFit'
  <2>1. \A g \in Future : g \in Task /\ creator[g] \in Task
    BY <1>1, TasksAre DEF FuturesOK
  <2>2. ASSUME NEW g \in Future, g # f, future[g] = "called"
        PROVE  StartsOf(creator[g], g)' \/ OnStack(creator[g], g)'
    BY <1>1, <1>4, <1>10, <2>1, <2>2 DEF FuturesFit, PhasesFit
  <2>3. StartsOf(creator[f], f)'
    BY <1>4, <1>10
  <2>4. ASSUME NEW g \in Future, g # f
        PROVE  /\ future'[g] = "none" => record'[g] = "none" /\ g \notin given'
               /\ future'[g] \in {"none", "called"} => fat'[g].op = "unborn" /\ returned'[g] = "none"
               /\ future'[g] = "pending" =>
                    /\ fat'[g].op # "unborn"
                    /\ IF fat'[g].op = "done" THEN record'[g] = returned'[g] /\ returned'[g] # "none"
                                              ELSE record'[g] = "empty" /\ returned'[g] = "none"
               /\ future'[g] = "consumed" => record'[g] \in {"none", "freed"} /\ fat'[g].op \in {"unborn", "done"}
               /\ future'[g] # "none" => creator'[g] < g /\ fat'[creator'[g]].op # "unborn"
    BY <1>1, <1>4, <1>8, <2>1, <2>4 DEF FuturesFit, PhasesFit
  <2>5. fat'[f].op = "unborn" /\ returned'[f] = "none" /\ fat'[t].op # "unborn"
    BY <1>1, <1>2, <1>4, <1>6, <2>1 DEF FuturesFit, PhasesFit
  <2>. QED BY <1>4, <1>7, <2>2, <2>3, <2>4, <2>5 DEF PhasesFit
<1>16. EndsFit'
  <2>1. \A u \in Task : Unjoined(u)' \subseteq Unjoined(u)
    BY <1>4 DEF Unjoined
  <2>. QED BY <1>1, <1>8, <2>1, TasksAre DEF FuturesFit, EndsFit
<1>17. RequestsFit'
  <2>1. \A b \in given : b \in Task /\ b # f /\ RunBy(b) \in asked
    BY <1>1, <1>6 DEF FuturesFit, RequestsFit, PhasesFit, FuturesOK
  <2>2. \A b \in given : RunBy(b)' \in asked
    BY <1>9, <2>1
  <2>. QED BY <1>1, <2>2 DEF FuturesFit, RequestsFit
<1>. QED BY <1>5, <1>11, <1>12, <1>13, <1>14, <1>15, <1>16, <1>17 DEF FutureInv, FuturesFit

LEMMA EagerKeepsFutures ==
  ASSUME FutureInv, NEW t \in Task, EagerReturns(t)
  PROVE  FutureInv'
<1> DEFINE b == Body(t)
<1>1. /\ FuturesOK /\ FuturesFit /\ ResultIsItsOwn /\ RequestIsWaitedFor
      /\ fend = "running" /\ fat[t].op = "run" /\ frames[t] # <<>>
      /\ UNCHANGED <<fat, creator, record, requests, given, asked, canceling, fend>>
  BY DEF EagerReturns, Runs, FutureInv
<1>2. PICK r \in {"result", "canceled"} :
        /\ Returned(b, r) /\ result' = [result EXCEPT ![b] = r] /\ returned' = [returned EXCEPT ![b] = r]
  BY DEF EagerReturns
<1>3. future' = [future EXCEPT ![b] = "consumed"]
      /\ frames' = [frames EXCEPT ![t] = SubSeq(@, 1, Len(@) - 1)]
  BY DEF EagerReturns
<1>4. /\ b \in Future /\ b \in Task /\ RunBy(b) = t /\ OnStack(t, b) /\ b = frames[t][Len(frames[t])]
      /\ \A u \in Task, f \in Future : StartsOf(u, f) => b # f
  BY <1>1, BodyMeans, TasksAre
<1> HIDE DEF b
<1>5. future[b] = "called" /\ creator[b] = t /\ record[b] \in {"none", "freed"} /\ fat[b].op = "unborn"
  BY <1>1, <1>4 DEF FuturesFit, StacksFit, PhasesFit
<1>6. /\ future'[b] = "consumed" /\ result'[b] = r /\ returned'[b] = r
      /\ \A g \in Future : g # b => future'[g] = future[g] /\ result'[g] = result[g] /\ returned'[g] = returned[g]
      /\ \A u \in Task : u # t => frames'[u] = frames[u]
  BY <1>1, <1>2, <1>3, <1>4 DEF FuturesOK
<1>7. /\ frames[t] \in Seq(Future) /\ Len(frames[t]) \in Nat \ {0} /\ frames'[t] \in Seq(Future)
      /\ Len(frames'[t]) = Len(frames[t]) - 1
      /\ \A i \in 1 .. Len(frames'[t]) : i \in 1 .. Len(frames[t]) /\ i < Len(frames[t]) /\ frames'[t][i] = frames[t][i]
  <2>1. frames[t] \in Seq(Future) /\ frames'[t] = SubSeq(frames[t], 1, Len(frames[t]) - 1)
    BY <1>1, <1>3 DEF FuturesOK
  <2>. QED BY <1>1, <2>1
<1>8. FuturesOK'
  <2>1. frames' \in [Task -> Seq(Future)]
    BY <1>1, <1>3, <1>7 DEF FuturesOK
  <2>. QED BY <1>1, <1>2, <1>3, <1>4, <2>1 DEF FuturesOK, Results
<1>9. \A g \in Future : OnStack(t, g)' <=> OnStack(t, g) /\ g # b
  <2>1. ASSUME NEW g \in Future, OnStack(t, g)' PROVE OnStack(t, g) /\ g # b
    BY <1>1, <1>4, <1>7, <2>1 DEF OnStack, FuturesFit, StacksFit
  <2>2. ASSUME NEW g \in Future, NEW i \in 1 .. Len(frames[t]), frames[t][i] = g, g # b PROVE OnStack(t, g)'
    <3>1. i \in 1 .. Len(frames'[t])
      BY <1>4, <1>7, <2>2
    <3>. QED BY <1>7, <2>2, <3>1 DEF OnStack
  <2>. QED BY <2>1, <2>2 DEF OnStack
<1>10. \A u \in Task, g \in Future : /\ OnStack(u, g)' => OnStack(u, g) /\ g # b
                                     /\ OnStack(u, g) /\ g # b => OnStack(u, g)'
                                     /\ StartsOf(u, g)' <=> StartsOf(u, g)
                                     /\ WaitsOf(u, g)' <=> WaitsOf(u, g)
  <2>1. \A u \in Task, g \in Future : /\ StartsOf(u, g)' <=> StartsOf(u, g)
                                      /\ WaitsOf(u, g)' <=> WaitsOf(u, g)
                                      /\ u # t => (OnStack(u, g)' <=> OnStack(u, g))
    BY <1>1, <1>6 DEF OnStack, StartsOf, WaitsOf
  <2>2. \A u \in Task : u # t => ~OnStack(u, b)
    BY <1>1, <1>4, <1>5 DEF FuturesFit, StacksFit
  <2>. QED BY <1>9, <2>1, <2>2
<1>11. RequestIsWaitedFor'
  BY <1>1 DEF RequestIsWaitedFor
<1>12. \A g \in Task : RunBy(g)' = RunBy(g)
  BY <1>1 DEF RunBy
<1>13. ResultIsItsOwn'
  <2>1. r = "canceled" => RunBy(b) \in asked
    BY <1>1, <1>2 DEF Returned, FuturesFit, RequestsFit
  <2>2. \A g \in Future : g \in Task
    BY TasksAre
  <2>. QED BY <1>1, <1>4, <1>6, <1>12, <2>1, <2>2 DEF ResultIsItsOwn
<1>14. StopsFit'
  <2>1. ASSUME NEW u \in Task, NEW g \in Future, StartsOf(u, g)
        PROVE  /\ future'[g] = "called" /\ creator'[g] = u /\ ~OnStack(u, g)' /\ g \notin given'
               /\ record'[g] = IF fat'[u].op = "choice" THEN "none" ELSE "empty"
    BY <1>1, <1>4, <1>6, <1>10, <2>1 DEF FuturesFit, StopsFit
  <2>2. ASSUME NEW u \in Task, NEW g \in Future, WaitsOf(u, g)
        PROVE  future'[g] = "pending" /\ creator'[g] = u
    BY <1>1, <1>5, <1>6, <2>2 DEF FuturesFit, StopsFit
  <2>3. \A u \in Task : fat'[u].op \in {"unborn", "start", "done"} => frames'[u] = <<>>
    BY <1>1, <1>6 DEF FuturesFit, StopsFit
  <2>. QED BY <1>10, <2>1, <2>2, <2>3 DEF StopsFit
<1>15. StacksFit'
  <2>1. \A u \in Task, g \in Future : OnStack(u, g)' =>
          future'[g] = "called" /\ creator'[g] = u /\ record'[g] \in {"none", "freed"}
    BY <1>1, <1>6, <1>10 DEF FuturesFit, StacksFit
  <2>2. ASSUME NEW u \in Task, NEW i \in 1 .. Len(frames'[u]), NEW j \in 1 .. Len(frames'[u]),
               frames'[u][i] = frames'[u][j]
        PROVE  i = j
    <3>1. CASE u = t
      BY <1>1, <1>7, <2>2, <3>1 DEF FuturesFit, StacksFit
    <3>2. CASE u # t
      BY <1>1, <1>6, <2>2, <3>2 DEF FuturesFit, StacksFit
    <3>. QED BY <3>1, <3>2
  <2>. QED BY <2>1, <2>2 DEF StacksFit
<1>16. PhasesFit'
  <2>1. ASSUME NEW g \in Future, g # b, future[g] = "called"
        PROVE  StartsOf(creator[g], g)' \/ OnStack(creator[g], g)'
    <3>1. creator[g] \in Task /\ creator'[g] = creator[g]
      BY <1>1 DEF FuturesOK
    <3>. QED BY <1>1, <1>10, <2>1, <3>1 DEF FuturesFit, PhasesFit
  <2>. QED BY <1>1, <1>5, <1>6, <2>1 DEF FuturesFit, PhasesFit
<1>17. EndsFit'
  <2>1. \A u \in Task : Unjoined(u)' \subseteq Unjoined(u)
    BY <1>1, <1>6 DEF Unjoined
  <2>. QED BY <1>1, <2>1 DEF FuturesFit, EndsFit
<1>18. RequestsFit'
  BY <1>1, <1>12 DEF FuturesFit, RequestsFit, FuturesOK
<1>. QED BY <1>8, <1>11, <1>13, <1>14, <1>15, <1>16, <1>17, <1>18 DEF FutureInv, FuturesFit

LEMMA ReturnKeepsFutures ==
  ASSUME FutureInv, NEW t \in Task, ThreadReturns(t)
  PROVE  FutureInv'
<1>1. /\ FuturesOK /\ FuturesFit /\ ResultIsItsOwn /\ RequestIsWaitedFor
      /\ fend = "running" /\ fat[t].op = "run" /\ frames[t] = <<>>
      /\ UNCHANGED <<frames, creator, future, result, requests, given, asked, canceling>>
  BY DEF ThreadReturns, Runs, FutureInv
<1>2. t \in Future => future[t] = "pending" /\ (t \in given => RunBy(t) \in asked) /\ RunBy(t) = t
  BY <1>1 DEF FuturesOK, FuturesFit, PhasesFit, RequestsFit, RunBy
<1>3. /\ t = Main => UNCHANGED <<record, returned>>
      /\ t # Main => t \in Future /\ \E r \in {"result", "canceled"} :
                       /\ r = "canceled" => t \in given
                       /\ record' = [record EXCEPT ![t] = r] /\ returned' = [returned EXCEPT ![t] = r]
  BY TasksAre DEF ThreadReturns, Returned
<1>4. /\ record' \in [Future -> {"none", "empty", "result", "canceled", "freed"}]
      /\ returned' \in [Future -> Results]
      /\ \A g \in Future : g # t => record'[g] = record[g] /\ returned'[g] = returned[g]
      /\ t \in Future => /\ record'[t] = returned'[t] /\ returned'[t] # "none"
                         /\ returned'[t] = "canceled" => t \in given
  <2>1. CASE t = Main
    BY <1>1, <1>3, <2>1, TasksAre DEF FuturesOK
  <2>2. CASE t # Main
    <3>1. PICK r \in {"result", "canceled"} :
            /\ r = "canceled" => t \in given
            /\ record' = [record EXCEPT ![t] = r] /\ returned' = [returned EXCEPT ![t] = r]
      BY <1>3, <2>2
    <3>2. t \in Future /\ r \in Results
      BY <1>3, <2>2 DEF Results
    <3>. QED BY <1>1, <3>1, <3>2 DEF FuturesOK
  <2>. QED BY <2>1, <2>2
<1>5. ASSUME \A b \in Future : RunBy(b)' = RunBy(b) PROVE ResultIsItsOwn'
  BY <1>1, <1>2, <1>4, <1>5 DEF ResultIsItsOwn
<1>6. CASE Unjoined(t) # {}
  <2>1. fend' = "illegal" /\ UNCHANGED fat
    BY <1>6 DEF ThreadReturns
  <2>2. FuturesOK'
    BY <1>1, <1>4, <2>1 DEF FuturesOK
  <2>3. RequestIsWaitedFor'
    BY <1>1, <2>1 DEF RequestIsWaitedFor
  <2>4. ResultIsItsOwn'
    BY <1>1, <1>5, <2>1 DEF RunBy
  <2>. QED BY <2>1, <2>2, <2>3, <2>4 DEF FutureInv
<1>7. CASE Unjoined(t) = {}
  <2> DEFINE s == [op |-> "done"]
  <2>1. s \in FutureStops /\ s.op = "done"
    BY DEF FutureStops
  <2>2. fat' = [fat EXCEPT ![t] = s] /\ fend' = IF t = Main THEN "ok" ELSE fend
    BY <1>7 DEF ThreadReturns
  <2> HIDE DEF s
  <2>3. fat'[t] = s /\ \A u \in Task : u # t => fat'[u] = fat[u]
    BY <1>1, <2>2 DEF FuturesOK
  <2>4. FuturesOK'
    BY <1>1, <1>4, <2>1, <2>2 DEF FuturesOK
  <2>5. \A u \in Task : /\ fat'[u].op = "unborn" <=> fat[u].op = "unborn"
                        /\ fat'[u].op = "done" <=> fat[u].op = "done" \/ u = t
                        /\ fat'[u].op = "start" <=> fat[u].op = "start"
    BY <1>1, <2>1, <2>3
  <2>6. \A u \in Task, g \in Future : /\ OnStack(u, g)' <=> OnStack(u, g)
                                      /\ StartsOf(u, g)' <=> StartsOf(u, g)
                                      /\ WaitsOf(u, g)' <=> WaitsOf(u, g)
    BY <1>1, <2>1, <2>3 DEF OnStack, StartsOf, WaitsOf
  <2>7. \A b \in Task : RunBy(b)' = RunBy(b)
    BY <1>1, <2>5 DEF RunBy
  <2>8. RequestIsWaitedFor'
    <3> SUFFICES ASSUME NEW g \in requests PROVE fat'[creator[g]] = [op |-> "cancel", of |-> g]
      BY <1>1 DEF RequestIsWaitedFor
    <3>1. creator[g] \in Task /\ fat[creator[g]] = [op |-> "cancel", of |-> g]
      BY <1>1 DEF RequestIsWaitedFor, FuturesOK
    <3>. QED BY <1>1, <2>3, <3>1
  <2>9. ResultIsItsOwn'
    BY <1>5, <2>7, TasksAre
  <2>10. StopsFit'
    <3>1. ASSUME NEW u \in Task, NEW g \in Future, StartsOf(u, g)
          PROVE  /\ future[g] = "called" /\ creator[g] = u /\ ~OnStack(u, g) /\ g \notin given
                 /\ record'[g] = IF fat'[u].op = "choice" THEN "none" ELSE "empty"
      <4>1. u # t /\ g # t
        BY <1>1, <1>2, <3>1 DEF StartsOf, FuturesFit, StopsFit
      <4>. QED BY <1>1, <1>4, <2>3, <3>1, <4>1 DEF FuturesFit, StopsFit
    <3>2. \A u \in Task, g \in Future : WaitsOf(u, g) => future[g] = "pending" /\ creator[g] = u
      BY <1>1 DEF FuturesFit, StopsFit
    <3>3. \A u \in Task : fat'[u].op \in {"unborn", "start", "done"} => frames[u] = <<>>
      BY <1>1, <2>5 DEF FuturesFit, StopsFit
    <3>. QED BY <1>1, <2>6, <3>1, <3>2, <3>3 DEF StopsFit
  <2>11. StacksFit'
    <3>1. \A u \in Task, g \in Future : OnStack(u, g) =>
            future[g] = "called" /\ creator[g] = u /\ record'[g] \in {"none", "freed"}
      BY <1>1, <1>2, <1>4 DEF FuturesFit, StacksFit
    <3>. QED BY <1>1, <2>6, <3>1 DEF FuturesFit, StacksFit
  <2>12. PhasesFit'
    <3> SUFFICES ASSUME NEW g \in Future
        PROVE  /\ future[g] = "none" => record'[g] = "none" /\ g \notin given
               /\ future[g] \in {"none", "called"} => fat'[g].op = "unborn" /\ returned'[g] = "none"
               /\ future[g] = "called" => StartsOf(creator[g], g) \/ OnStack(creator[g], g)
               /\ future[g] = "pending" =>
                    /\ fat'[g].op # "unborn"
                    /\ IF fat'[g].op = "done" THEN record'[g] = returned'[g] /\ returned'[g] # "none"
                                              ELSE record'[g] = "empty" /\ returned'[g] = "none"
               /\ future[g] = "consumed" => record'[g] \in {"none", "freed"} /\ fat'[g].op \in {"unborn", "done"}
               /\ future[g] # "none" => creator[g] < g /\ fat'[creator[g]].op # "unborn"
      <4>1. \A g2 \in Future : creator[g2] \in Task
        BY <1>1 DEF FuturesOK
      <4>. QED BY <1>1, <2>6, <4>1 DEF PhasesFit
    <3>1. creator[g] \in Task /\ g \in Task
      BY <1>1, TasksAre DEF FuturesOK
    <3>2. CASE g = t
      BY <1>1, <1>2, <1>4, <2>5, <3>1, <3>2 DEF FuturesFit, PhasesFit
    <3>3. CASE g # t
      <4>1. record'[g] = record[g] /\ returned'[g] = returned[g] /\ (fat'[g].op = fat[g].op)
        BY <1>4, <2>3, <3>1, <3>3
      <4>. QED BY <1>1, <2>5, <3>1, <4>1 DEF FuturesFit, PhasesFit
    <3>. QED BY <3>2, <3>3
  <2>13. EndsFit'
    <3>1. \A u \in Task : Unjoined(u)' = Unjoined(u)
      BY <1>1 DEF Unjoined
    <3>2. Main # t => fat'[Main].op = fat[Main].op
      BY <2>3, TasksAre
    <3>. QED BY <1>1, <1>7, <2>2, <2>5, <3>1, <3>2, TasksAre DEF FuturesFit, EndsFit
  <2>14. RequestsFit'
    <3>1. \A b \in given : b \in Task /\ RunBy(b) \in asked
      BY <1>1 DEF FuturesFit, RequestsFit, FuturesOK
    <3>. QED BY <1>1, <2>7, <3>1 DEF FuturesFit, RequestsFit
  <2>. QED BY <2>4, <2>8, <2>9, <2>10, <2>11, <2>12, <2>13, <2>14 DEF FutureInv, FuturesFit
<1>. QED BY <1>6, <1>7

(* The caller runs the task itself, and a record made for it is freed. *)
LEMMA PushKeepsFutures ==
  ASSUME FutureInv, fend = "running", NEW t \in Task, NEW f \in Future, StartsOf(t, f),
         RunsItself(t, f), GoesOn(t),
         \/ UNCHANGED record /\ fat[t].op = "choice"
         \/ record' = [record EXCEPT ![f] = "freed"],
         UNCHANGED <<creator, future, result, requests, given, returned, asked, canceling, fend>>
  PROVE  FutureInv'
<1>1. /\ FuturesOK /\ FuturesFit /\ ResultIsItsOwn /\ RequestIsWaitedFor
  BY DEF FutureInv
<1>2. /\ future[f] = "called" /\ creator[f] = t /\ ~OnStack(t, f) /\ f \notin given
      /\ fat[t].op = "choice" => record[f] = "none"
      /\ fat[f].op = "unborn" /\ f # t
  BY <1>1 DEF FuturesFit, StopsFit, PhasesFit, StartsOf
<1> DEFINE s == [op |-> "run"]
<1>3. s \in FutureStops /\ s.op = "run" /\ fat' = [fat EXCEPT ![t] = s]
  BY DEF FutureStops, GoesOn
<1> HIDE DEF s
<1>4. fat'[t] = s /\ \A u \in Task : u # t => fat'[u] = fat[u]
  BY <1>1, <1>3 DEF FuturesOK
<1>5. /\ record' \in [Future -> {"none", "empty", "result", "canceled", "freed"}]
      /\ record'[f] \in {"none", "freed"}
      /\ \A g \in Future : g # f => record'[g] = record[g]
  BY <1>1, <1>2 DEF FuturesOK
<1>6. /\ frames[t] \in Seq(Future) /\ frames' = [frames EXCEPT ![t] = Append(frames[t], f)]
      /\ frames' \in [Task -> Seq(Future)] /\ frames'[t] = Append(frames[t], f)
      /\ \A u \in Task : u # t => frames'[u] = frames[u]
  BY <1>1 DEF FuturesOK, RunsItself
<1>7. /\ Len(frames[t]) \in Nat /\ Len(frames'[t]) = Len(frames[t]) + 1
      /\ frames'[t][Len(frames[t]) + 1] = f
      /\ \A i \in 1 .. Len(frames[t]) : frames'[t][i] = frames[t][i]
      /\ \A i \in 1 .. Len(frames'[t]) : i \in 1 .. Len(frames[t]) \/ i = Len(frames[t]) + 1
  BY <1>6
<1>8. FuturesOK'
  BY <1>1, <1>3, <1>5, <1>6 DEF FuturesOK
<1>9. \A g \in Future : OnStack(t, g)' <=> OnStack(t, g) \/ g = f
  <2>1. ASSUME NEW g \in Future, OnStack(t, g)' PROVE OnStack(t, g) \/ g = f
    BY <1>7, <2>1 DEF OnStack
  <2>2. ASSUME NEW g \in Future, NEW i \in 1 .. Len(frames[t]), frames[t][i] = g PROVE OnStack(t, g)'
    <3>1. i \in 1 .. Len(frames'[t])
      BY <1>7
    <3>. QED BY <1>7, <2>2, <3>1 DEF OnStack
  <2>3. OnStack(t, f)'
    <3>1. Len(frames[t]) + 1 \in 1 .. Len(frames'[t])
      BY <1>7
    <3>. QED BY <1>7, <3>1 DEF OnStack
  <2>. QED BY <2>1, <2>2, <2>3 DEF OnStack
<1>10. \A u \in Task, g \in Future : /\ OnStack(u, g)' <=> OnStack(u, g) \/ (u = t /\ g = f)
                                     /\ StartsOf(u, g)' => StartsOf(u, g) /\ u # t /\ g # f
                                     /\ StartsOf(u, g) /\ g # f => StartsOf(u, g)'
                                     /\ WaitsOf(u, g)' <=> WaitsOf(u, g)
  <2>1. \A u \in Task, g \in Future : u # t => (OnStack(u, g)' <=> OnStack(u, g))
    BY <1>6 DEF OnStack
  <2>2. \A u \in Task, g \in Future : /\ StartsOf(u, g)' => StartsOf(u, g) /\ u # t
                                      /\ StartsOf(u, g) /\ g # f => StartsOf(u, g)'
                                      /\ WaitsOf(u, g)' <=> WaitsOf(u, g)
    BY <1>3, <1>4 DEF StartsOf, WaitsOf
  <2>3. \A u \in Task : StartsOf(u, f) => u = t
    BY <1>1, <1>2 DEF FuturesFit, StopsFit
  <2>. QED BY <1>9, <2>1, <2>2, <2>3
<1>12. \A u \in Task : /\ fat'[u].op = "unborn" <=> fat[u].op = "unborn"
                       /\ fat'[u].op = "done" <=> fat[u].op = "done"
  BY <1>3, <1>4 DEF StartsOf
<1>13. \A b \in Task : RunBy(b)' = RunBy(b)
  BY <1>12 DEF RunBy
<1>14. RequestIsWaitedFor'
  <2> SUFFICES ASSUME NEW g \in requests PROVE fat'[creator[g]] = [op |-> "cancel", of |-> g]
    BY DEF RequestIsWaitedFor
  <2>1. creator[g] \in Task /\ fat[creator[g]] = [op |-> "cancel", of |-> g]
    BY <1>1 DEF RequestIsWaitedFor, FuturesOK
  <2>. QED BY <1>4, <2>1 DEF StartsOf
<1>15. ResultIsItsOwn'
  BY <1>1, <1>13, TasksAre DEF ResultIsItsOwn
<1>16. StopsFit'
  <2>1. ASSUME NEW u \in Task, NEW g \in Future, StartsOf(u, g)'
        PROVE  /\ future[g] = "called" /\ creator[g] = u /\ ~OnStack(u, g)' /\ g \notin given
               /\ record'[g] = IF fat'[u].op = "choice" THEN "none" ELSE "empty"
    <3>1. StartsOf(u, g) /\ u # t /\ g # f
      BY <1>10, <2>1
    <3>. QED BY <1>1, <1>4, <1>5, <1>10, <3>1 DEF FuturesFit, StopsFit
  <2>2. \A u \in Task, g \in Future : WaitsOf(u, g) => future[g] = "pending" /\ creator[g] = u
    BY <1>1 DEF FuturesFit, StopsFit
  <2>3. \A u \in Task : fat'[u].op \in {"unborn", "start", "done"} => frames'[u] = <<>>
    BY <1>1, <1>3, <1>4, <1>6 DEF FuturesFit, StopsFit
  <2>. QED BY <1>10, <2>1, <2>2, <2>3 DEF StopsFit
<1>17. StacksFit'
  <2>1. \A u \in Task, g \in Future : OnStack(u, g)' =>
          future[g] = "called" /\ creator[g] = u /\ record'[g] \in {"none", "freed"}
    BY <1>1, <1>2, <1>5, <1>10 DEF FuturesFit, StacksFit
  <2>2. ASSUME NEW u \in Task, NEW i \in 1 .. Len(frames'[u]), NEW j \in 1 .. Len(frames'[u]),
               frames'[u][i] = frames'[u][j]
        PROVE  i = j
    <3>1. CASE u = t
      <4>1. \A k \in 1 .. Len(frames[t]) : frames[t][k] # f
        BY <1>2 DEF OnStack
      <4>2. \A k, l \in 1 .. Len(frames[t]) : frames[t][k] = frames[t][l] => k = l
        BY <1>1 DEF FuturesFit, StacksFit
      <4>. QED BY <1>7, <2>2, <3>1, <4>1, <4>2
    <3>2. CASE u # t
      BY <1>1, <1>6, <2>2, <3>2 DEF FuturesFit, StacksFit
    <3>. QED BY <3>1, <3>2
  <2>. QED BY <2>1, <2>2 DEF StacksFit
<1>18. PhasesFit'
  <2>1. \A g \in Future : creator[g] \in Task /\ g \in Task
    BY <1>1, TasksAre DEF FuturesOK
  <2>2. ASSUME NEW g \in Future, future[g] = "called"
        PROVE  StartsOf(creator[g], g)' \/ OnStack(creator[g], g)'
    BY <1>1, <1>2, <1>10, <2>1, <2>2 DEF FuturesFit, PhasesFit
  <2>3. \A g \in Future : future[g] # "called" => record'[g] = record[g]
    BY <1>2, <1>5
  <2>. QED BY <1>1, <1>2, <1>12, <2>1, <2>2, <2>3 DEF FuturesFit, PhasesFit
<1>19. EndsFit'
  BY <1>1, <1>12, TasksAre DEF FuturesFit, EndsFit, Unjoined
<1>20. RequestsFit'
  <2>1. \A b \in given : b \in Task /\ RunBy(b) \in asked
    BY <1>1 DEF FuturesFit, RequestsFit, FuturesOK
  <2>. QED BY <1>1, <1>13, <2>1 DEF FuturesFit, RequestsFit
<1>. QED BY <1>8, <1>14, <1>15, <1>16, <1>17, <1>18, <1>19, <1>20 DEF FutureInv, FuturesFit

(* The task gets its record, and then its thread. *)
LEMMA RecordKeepsFutures ==
  ASSUME FutureInv, fend = "running", NEW t \in Task, NEW f \in Future, StartsOf(t, f),
         record' = [record EXCEPT ![f] = "empty"], StopsAt(t, "spawn", f),
         UNCHANGED <<frames, creator, future, result, requests, given, returned, asked, canceling, fend>>
  PROVE  FutureInv'
<1>1. /\ FuturesOK /\ FuturesFit /\ ResultIsItsOwn /\ RequestIsWaitedFor
  BY DEF FutureInv
<1>2. /\ future[f] = "called" /\ creator[f] = t /\ ~OnStack(t, f) /\ f \notin given
      /\ fat[f].op = "unborn" /\ f # t
  BY <1>1 DEF FuturesFit, StopsFit, PhasesFit, StartsOf
<1> DEFINE s == [op |-> "spawn", of |-> f]
<1>3. s \in FutureStops /\ s.op = "spawn" /\ s.of = f /\ fat' = [fat EXCEPT ![t] = s]
  BY DEF FutureStops, StopsAt
<1> HIDE DEF s
<1>4. fat'[t] = s /\ \A u \in Task : u # t => fat'[u] = fat[u]
  BY <1>1, <1>3 DEF FuturesOK
<1>5. record'[f] = "empty" /\ \A g \in Future : g # f => record'[g] = record[g]
  BY <1>1 DEF FuturesOK
<1>6. FuturesOK'
  BY <1>1, <1>3 DEF FuturesOK
<1>7. \A u \in Task, g \in Future : /\ OnStack(u, g)' <=> OnStack(u, g)
                                    /\ StartsOf(u, g)' <=> StartsOf(u, g)
                                    /\ WaitsOf(u, g)' <=> WaitsOf(u, g)
  BY <1>3, <1>4 DEF OnStack, StartsOf, WaitsOf
<1>8. \A u \in Task : /\ fat'[u].op = "unborn" <=> fat[u].op = "unborn"
                      /\ fat'[u].op = "done" <=> fat[u].op = "done"
                      /\ fat'[u].op = "start" <=> fat[u].op = "start"
  BY <1>3, <1>4 DEF StartsOf
<1>9. \A b \in Task : RunBy(b)' = RunBy(b)
  BY <1>8 DEF RunBy
<1>10. RequestIsWaitedFor'
  <2> SUFFICES ASSUME NEW g \in requests PROVE fat'[creator[g]] = [op |-> "cancel", of |-> g]
    BY DEF RequestIsWaitedFor
  <2>1. creator[g] \in Task /\ fat[creator[g]] = [op |-> "cancel", of |-> g]
    BY <1>1 DEF RequestIsWaitedFor, FuturesOK
  <2>. QED BY <1>4, <2>1 DEF StartsOf
<1>11. ResultIsItsOwn'
  BY <1>1, <1>9, TasksAre DEF ResultIsItsOwn
<1>12. StopsFit'
  <2>1. ASSUME NEW u \in Task, NEW g \in Future, StartsOf(u, g)
        PROVE  /\ future[g] = "called" /\ creator[g] = u /\ ~OnStack(u, g) /\ g \notin given
               /\ record'[g] = IF fat'[u].op = "choice" THEN "none" ELSE "empty"
    <3>1. /\ future[g] = "called" /\ creator[g] = u /\ ~OnStack(u, g) /\ g \notin given
          /\ record[g] = IF fat[u].op = "choice" THEN "none" ELSE "empty"
      BY <1>1, <2>1 DEF FuturesFit, StopsFit
    <3>2. CASE u = t
      <4>1. g = f
        BY <2>1, <3>2 DEF StartsOf
      <4>. QED BY <1>3, <1>4, <1>5, <3>1, <3>2, <4>1
    <3>3. CASE u # t
      <4>1. g # f
        BY <1>2, <3>1, <3>3
      <4>. QED BY <1>4, <1>5, <3>1, <3>3, <4>1
    <3>. QED BY <3>2, <3>3
  <2>2. \A u \in Task, g \in Future : WaitsOf(u, g) => future[g] = "pending" /\ creator[g] = u
    BY <1>1 DEF FuturesFit, StopsFit
  <2>3. \A u \in Task : fat'[u].op \in {"unborn", "start", "done"} => frames[u] = <<>>
    BY <1>1, <1>8 DEF FuturesFit, StopsFit
  <2>. QED BY <1>7, <2>1, <2>2, <2>3 DEF StopsFit
<1>13. StacksFit'
  <2>1. \A u \in Task, g \in Future : OnStack(u, g) =>
          future[g] = "called" /\ creator[g] = u /\ record'[g] \in {"none", "freed"}
    BY <1>1, <1>2, <1>5 DEF FuturesFit, StacksFit
  <2>. QED BY <1>1, <1>7, <2>1 DEF FuturesFit, StacksFit
<1>14. PhasesFit'
  <2>1. \A g \in Future : creator[g] \in Task /\ g \in Task
    BY <1>1, TasksAre DEF FuturesOK
  <2>2. \A g \in Future : future[g] # "called" => record'[g] = record[g]
    BY <1>2, <1>5
  <2>3. \A g \in Future : future[g] = "called" => StartsOf(creator[g], g)' \/ OnStack(creator[g], g)'
    BY <1>1, <1>7, <2>1 DEF FuturesFit, PhasesFit
  <2>. QED BY <1>1, <1>8, <2>1, <2>2, <2>3 DEF FuturesFit, PhasesFit
<1>15. EndsFit'
  BY <1>1, <1>8, TasksAre DEF FuturesFit, EndsFit, Unjoined
<1>16. RequestsFit'
  <2>1. \A b \in given : b \in Task /\ RunBy(b) \in asked
    BY <1>1 DEF FuturesFit, RequestsFit, FuturesOK
  <2>. QED BY <1>1, <1>9, <2>1 DEF FuturesFit, RequestsFit
<1>. QED BY <1>6, <1>10, <1>11, <1>12, <1>13, <1>14, <1>15, <1>16 DEF FutureInv, FuturesFit

LEMMA SpawnKeepsFutures ==
  ASSUME FutureInv, NEW t \in Task, FutureSpawns(t)
  PROVE  FutureInv'
<1> DEFINE f == fat[t].of
<1>1. /\ FuturesOK /\ FuturesFit /\ ResultIsItsOwn /\ RequestIsWaitedFor
      /\ fend = "running" /\ fat[t].op = "spawn" /\ f \in Future /\ StartsOf(t, f)
      /\ UNCHANGED <<frames, creator, result, record, requests, given, returned, asked, canceling, fend>>
  BY FutureStopMeans DEF FutureSpawns, TurnAt, FutureInv, StartsOf
<1> DEFINE r == [op |-> "run"]
<1> DEFINE s == [op |-> "start"]
<1>2. /\ r \in FutureStops /\ s \in FutureStops /\ r.op = "run" /\ s.op = "start"
      /\ fat' = [fat EXCEPT ![t] = r, ![f] = s] /\ future' = [future EXCEPT ![f] = "pending"]
  BY DEF FutureStops, FutureSpawns
<1> HIDE DEF f, r, s
<1>3. /\ future[f] = "called" /\ creator[f] = t /\ ~OnStack(t, f) /\ f \notin given
      /\ fat[f].op = "unborn" /\ f # t /\ record[f] = "empty" /\ returned[f] = "none"
      /\ frames[f] = <<>> /\ f \in Task
  BY <1>1, TasksAre DEF FuturesFit, StopsFit, PhasesFit
<1>4. /\ fat'[t] = r /\ fat'[f] = s /\ \A u \in Task : u # t /\ u # f => fat'[u] = fat[u]
      /\ future'[f] = "pending" /\ \A g \in Future : g # f => future'[g] = future[g]
  BY <1>1, <1>2, <1>3 DEF FuturesOK
<1>5. FuturesOK'
  BY <1>1, <1>2 DEF FuturesOK
<1>6. \A u \in Task, g \in Future : /\ OnStack(u, g)' <=> OnStack(u, g)
                                    /\ StartsOf(u, g)' => StartsOf(u, g) /\ u # t /\ g # f /\ u # f
                                    /\ StartsOf(u, g) /\ g # f => StartsOf(u, g)'
                                    /\ WaitsOf(u, g)' => WaitsOf(u, g) /\ g # f
  <2>1. \A u \in Task : /\ StartsOf(u, f) => u = t
                        /\ ~WaitsOf(u, f)
    BY <1>1, <1>3 DEF FuturesFit, StopsFit
  <2>2. \A u \in Task, g \in Future : OnStack(u, g)' <=> OnStack(u, g)
    BY <1>1 DEF OnStack
  <2>3. \A u \in Task, g \in Future : /\ StartsOf(u, g)' => StartsOf(u, g) /\ u # t /\ u # f
                                      /\ WaitsOf(u, g)' => WaitsOf(u, g)
    BY <1>2, <1>4 DEF StartsOf, WaitsOf
  <2>4. \A u \in Task, g \in Future : StartsOf(u, g) /\ g # f => StartsOf(u, g)'
    BY <1>1, <1>3, <1>4 DEF StartsOf
  <2>. QED BY <2>1, <2>2, <2>3, <2>4
<1>7. \A u \in Task : /\ fat'[u].op = "unborn" <=> fat[u].op = "unborn" /\ u # f
                      /\ fat'[u].op = "done" <=> fat[u].op = "done"
                      /\ fat'[u].op = "start" => fat[u].op = "start" \/ u = f
  BY <1>1, <1>2, <1>3, <1>4
<1>8. \A b \in Task : b # f => RunBy(b)' = RunBy(b)
  BY <1>1, <1>7 DEF RunBy
<1>9. RequestIsWaitedFor'
  <2> SUFFICES ASSUME NEW g \in requests PROVE fat'[creator[g]] = [op |-> "cancel", of |-> g]
    BY <1>1 DEF RequestIsWaitedFor
  <2>1. creator[g] \in Task /\ fat[creator[g]] = [op |-> "cancel", of |-> g]
    BY <1>1 DEF RequestIsWaitedFor, FuturesOK
  <2>. QED BY <1>1, <1>3, <1>4, <2>1
<1>10. ResultIsItsOwn'
  <2>1. \A g \in Future : g # f /\ returned[g] = "canceled" => RunBy(g)' \in asked
    BY <1>1, <1>8, TasksAre DEF ResultIsItsOwn
  <2>2. \A g \in Future : future'[g] = "consumed" => future[g] = "consumed"
    BY <1>4
  <2>. QED BY <1>1, <1>3, <2>1, <2>2 DEF ResultIsItsOwn
<1>11. StopsFit'
  <2>1. ASSUME NEW u \in Task, NEW g \in Future, StartsOf(u, g)'
        PROVE  /\ future'[g] = "called" /\ creator[g] = u /\ ~OnStack(u, g) /\ g \notin given
               /\ record[g] = IF fat'[u].op = "choice" THEN "none" ELSE "empty"
    BY <1>1, <1>4, <1>6, <2>1 DEF FuturesFit, StopsFit
  <2>2. \A u \in Task, g \in Future : WaitsOf(u, g)' => future'[g] = "pending" /\ creator[g] = u
    BY <1>1, <1>4, <1>6 DEF FuturesFit, StopsFit
  <2>3. \A u \in Task : fat'[u].op \in {"unborn", "start", "done"} => frames[u] = <<>>
    BY <1>1, <1>3, <1>7 DEF FuturesFit, StopsFit
  <2>. QED BY <1>1, <1>6, <2>1, <2>2, <2>3 DEF StopsFit
<1>12. StacksFit'
  <2>1. \A u \in Task, g \in Future : OnStack(u, g) =>
          future'[g] = "called" /\ creator[g] = u /\ record[g] \in {"none", "freed"}
    BY <1>1, <1>3, <1>4 DEF FuturesFit, StacksFit
  <2>. QED BY <1>1, <1>6, <2>1 DEF FuturesFit, StacksFit
<1>13. PhasesFit'
  <2>1. \A g \in Future : creator[g] \in Task /\ g \in Task
    BY <1>1, TasksAre DEF FuturesOK
  <2>2. \A g \in Future : g # f /\ future[g] = "called" => StartsOf(creator[g], g)' \/ OnStack(creator[g], g)'
    BY <1>1, <1>6, <2>1 DEF FuturesFit, PhasesFit
  <2>3. fat'[f].op = "start" /\ creator[f] < f /\ fat'[creator[f]].op # "unborn"
    BY <1>1, <1>2, <1>3, <1>4 DEF FuturesFit, PhasesFit
  <2>4. ASSUME NEW g \in Future, g # f
        PROVE  /\ future[g] = "none" => record[g] = "none" /\ g \notin given
               /\ future[g] \in {"none", "called"} => fat'[g].op = "unborn" /\ returned[g] = "none"
               /\ future[g] = "pending" =>
                    /\ fat'[g].op # "unborn"
                    /\ IF fat'[g].op = "done" THEN record[g] = returned[g] /\ returned[g] # "none"
                                              ELSE record[g] = "empty" /\ returned[g] = "none"
               /\ future[g] = "consumed" => record[g] \in {"none", "freed"} /\ fat'[g].op \in {"unborn", "done"}
               /\ future[g] # "none" => creator[g] < g /\ fat'[creator[g]].op # "unborn"
    BY <1>1, <1>7, <2>1, <2>4 DEF FuturesFit, PhasesFit
  <2>. QED BY <1>1, <1>3, <1>4, <2>2, <2>3, <2>4 DEF PhasesFit
<1>14. EndsFit'
  <2>1. ASSUME NEW u \in Task, fat'[u].op = "done" PROVE Unjoined(u)' = {}
    <3>1. u # t /\ Unjoined(u) = {}
      BY <1>1, <1>7, <2>1 DEF FuturesFit, EndsFit
    <3>. QED BY <1>1, <1>3, <1>4, <3>1 DEF Unjoined
  <2>. QED BY <1>1, <1>7, <2>1, TasksAre DEF FuturesFit, EndsFit
<1>15. RequestsFit'
  <2>1. \A b \in given : b \in Task /\ RunBy(b) \in asked /\ b # f
    BY <1>1, <1>3 DEF FuturesFit, RequestsFit, FuturesOK
  <2>. QED BY <1>1, <1>8, <2>1 DEF FuturesFit, RequestsFit
<1>. QED BY <1>5, <1>9, <1>10, <1>11, <1>12, <1>13, <1>14, <1>15 DEF FutureInv, FuturesFit

LEMMA ConsumeKeepsFutures ==
  ASSUME FutureInv, NEW t \in Task, Consumes(t)
  PROVE  FutureInv'
<1> DEFINE f == fat[t].of
<1>1. /\ FuturesOK /\ FuturesFit /\ ResultIsItsOwn /\ RequestIsWaitedFor
      /\ fend = "running" /\ fat[t].op \in {"await", "cancel"} /\ f \in Future /\ WaitsOf(t, f)
      /\ fat[f].op = "done"
      /\ UNCHANGED <<frames, creator, given, returned, asked, canceling, fend>>
  BY FutureStopMeans DEF Consumes, TurnAt, CanTurn, FutureInv, WaitsOf
<1>2. fat[t].op = "cancel" => fat[t] = [op |-> "cancel", of |-> f]
  BY <1>1, FutureStopMeans
<1> DEFINE s == [op |-> "run"]
<1>3. /\ s \in FutureStops /\ s.op = "run" /\ fat' = [fat EXCEPT ![t] = s]
      /\ result' = [result EXCEPT ![f] = record[f]]
      /\ record' = [record EXCEPT ![f] = "freed"]
      /\ future' = [future EXCEPT ![f] = "consumed"]
      /\ requests' = IF fat[t].op = "cancel" THEN requests \ {f} ELSE requests
  BY DEF FutureStops, Consumes, Takes, GoesOn
<1> HIDE DEF f, s
<1>4. /\ future[f] = "pending" /\ creator[f] = t /\ f # t /\ f \in Task
      /\ record[f] = returned[f] /\ returned[f] \in {"result", "canceled"}
  <2>1. returned[f] \in Results
    BY <1>1 DEF FuturesOK
  <2>2. f # t /\ f \in Task
    BY <1>1, TasksAre
  <2>. QED BY <1>1, <2>1, <2>2 DEF FuturesFit, StopsFit, PhasesFit, Results
<1>5. /\ fat'[t] = s /\ \A u \in Task : u # t => fat'[u] = fat[u]
      /\ future'[f] = "consumed" /\ record'[f] = "freed" /\ result'[f] = returned[f]
      /\ \A g \in Future : g # f => /\ future'[g] = future[g] /\ record'[g] = record[g]
                                    /\ result'[g] = result[g]
  BY <1>1, <1>3, <1>4 DEF FuturesOK
<1>6. FuturesOK'
  <2>1. record[f] \in Results
    BY <1>4 DEF Results
  <2>2. /\ fat' \in [Task -> FutureStops] /\ result' \in [Future -> Results]
        /\ record' \in [Future -> {"none", "empty", "result", "canceled", "freed"}]
        /\ future' \in [Future -> {"none", "called", "pending", "consumed"}]
        /\ requests' \subseteq Future
    BY <1>1, <1>3, <2>1 DEF FuturesOK
  <2>. QED BY <1>1, <2>2 DEF FuturesOK
<1>7. \A u \in Task, g \in Future : /\ OnStack(u, g)' <=> OnStack(u, g)
                                    /\ StartsOf(u, g)' <=> StartsOf(u, g)
                                    /\ WaitsOf(u, g)' => WaitsOf(u, g) /\ u # t /\ g # f
  <2>1. \A u \in Task : WaitsOf(u, f) => u = t
    BY <1>1, <1>4 DEF FuturesFit, StopsFit
  <2>2. \A u \in Task, g \in Future : /\ OnStack(u, g)' <=> OnStack(u, g)
                                      /\ StartsOf(u, g)' <=> StartsOf(u, g)
                                      /\ WaitsOf(u, g)' => WaitsOf(u, g) /\ u # t
    BY <1>1, <1>3, <1>5 DEF OnStack, StartsOf, WaitsOf
  <2>. QED BY <2>1, <2>2
<1>8. \A u \in Task : /\ fat'[u].op = "unborn" <=> fat[u].op = "unborn"
                      /\ fat'[u].op = "done" <=> fat[u].op = "done"
                      /\ fat'[u].op = "start" <=> fat[u].op = "start"
  BY <1>1, <1>3, <1>5
<1>9. \A b \in Task : RunBy(b)' = RunBy(b)
  BY <1>1, <1>8 DEF RunBy
<1>10. RequestIsWaitedFor'
  <2> SUFFICES ASSUME NEW g \in requests' PROVE fat'[creator[g]] = [op |-> "cancel", of |-> g]
    BY <1>1 DEF RequestIsWaitedFor
  <2>1. g \in requests /\ creator[g] \in Task /\ fat[creator[g]] = [op |-> "cancel", of |-> g]
    BY <1>1, <1>3 DEF RequestIsWaitedFor, FuturesOK
  <2>2. creator[g] # t
    <3> SUFFICES ASSUME creator[g] = t PROVE FALSE
      OBVIOUS
    <3>1. fat[t].op = "cancel" /\ g = f
      BY <2>1 DEF f
    <3>. QED BY <1>3, <3>1
  <2>. QED BY <1>5, <2>1, <2>2
<1>11. ResultIsItsOwn'
  BY <1>1, <1>4, <1>5, <1>9, TasksAre DEF ResultIsItsOwn
<1>12. StopsFit'
  <2>1. ASSUME NEW u \in Task, NEW g \in Future, StartsOf(u, g)
        PROVE  /\ future'[g] = "called" /\ creator[g] = u /\ ~OnStack(u, g) /\ g \notin given
               /\ record'[g] = IF fat'[u].op = "choice" THEN "none" ELSE "empty"
    <3>1. g # f /\ u # t
      BY <1>1, <1>4, <2>1 DEF FuturesFit, StopsFit, StartsOf
    <3>. QED BY <1>1, <1>5, <2>1, <3>1 DEF FuturesFit, StopsFit
  <2>2. \A u \in Task, g \in Future : WaitsOf(u, g)' => future'[g] = "pending" /\ creator[g] = u
    BY <1>1, <1>5, <1>7 DEF FuturesFit, StopsFit
  <2>3. \A u \in Task : fat'[u].op \in {"unborn", "start", "done"} => frames[u] = <<>>
    BY <1>1, <1>8 DEF FuturesFit, StopsFit
  <2>. QED BY <1>1, <1>7, <2>1, <2>2, <2>3 DEF StopsFit
<1>13. StacksFit'
  <2>1. \A u \in Task, g \in Future : OnStack(u, g) =>
          future'[g] = "called" /\ creator[g] = u /\ record'[g] \in {"none", "freed"}
    BY <1>1, <1>4, <1>5 DEF FuturesFit, StacksFit
  <2>. QED BY <1>1, <1>7, <2>1 DEF FuturesFit, StacksFit
<1>14. PhasesFit'
  <2>1. \A g \in Future : creator[g] \in Task /\ g \in Task
    BY <1>1, TasksAre DEF FuturesOK
  <2>2. \A g \in Future : future[g] = "called" => StartsOf(creator[g], g)' \/ OnStack(creator[g], g)'
    BY <1>1, <1>7, <2>1 DEF FuturesFit, PhasesFit
  <2>3. ASSUME NEW g \in Future, g # f
        PROVE  /\ future[g] = "none" => record'[g] = "none" /\ g \notin given
               /\ future[g] \in {"none", "called"} => fat'[g].op = "unborn" /\ returned[g] = "none"
               /\ future[g] = "pending" =>
                    /\ fat'[g].op # "unborn"
                    /\ IF fat'[g].op = "done" THEN record'[g] = returned[g] /\ returned[g] # "none"
                                              ELSE record'[g] = "empty" /\ returned[g] = "none"
               /\ future[g] = "consumed" => record'[g] \in {"none", "freed"} /\ fat'[g].op \in {"unborn", "done"}
               /\ future[g] # "none" => creator[g] < g /\ fat'[creator[g]].op # "unborn"
    BY <1>1, <1>5, <1>8, <2>1, <2>3 DEF FuturesFit, PhasesFit
  <2>4. creator[f] < f /\ fat'[creator[f]].op # "unborn" /\ fat'[f].op = "done"
    BY <1>1, <1>4, <1>8, <2>1 DEF FuturesFit, PhasesFit
  <2>. QED BY <1>1, <1>5, <2>2, <2>3, <2>4 DEF PhasesFit
<1>15. EndsFit'
  <2>1. \A u \in Task : Unjoined(u)' \subseteq Unjoined(u)
    BY <1>1, <1>5 DEF Unjoined
  <2>. QED BY <1>1, <1>8, <2>1, TasksAre DEF FuturesFit, EndsFit
<1>16. RequestsFit'
  <2>1. \A b \in given : b \in Task /\ RunBy(b) \in asked
    BY <1>1 DEF FuturesFit, RequestsFit, FuturesOK
  <2>2. requests' \subseteq asked
    BY <1>1, <1>3 DEF FuturesFit, RequestsFit
  <2>. QED BY <1>1, <1>9, <2>1, <2>2 DEF RequestsFit
<1>. QED BY <1>6, <1>10, <1>11, <1>12, <1>13, <1>14, <1>15, <1>16 DEF FutureInv, FuturesFit

(* A stop of t leaves the requests of the others waited for. *)
LEMMA OthersStillWait ==
  ASSUME FuturesOK, RequestIsWaitedFor, NEW t \in Task, fat[t].op # "cancel", NEW s,
         fat' = [fat EXCEPT ![t] = s], UNCHANGED creator
  PROVE  \A g \in requests : fat'[creator'[g]] = [op |-> "cancel", of |-> g]
<1> SUFFICES ASSUME NEW g \in requests PROVE fat'[creator[g]] = [op |-> "cancel", of |-> g]
  OBVIOUS
<1>1. creator[g] \in Task /\ fat[creator[g]] = [op |-> "cancel", of |-> g]
  BY DEF RequestIsWaitedFor, FuturesOK
<1>2. creator[g] # t
  BY <1>1
<1>. QED BY <1>1, <1>2 DEF FuturesOK

LEMMA MovesKeepFutures ==
  ASSUME FutureInv, NEW t \in Task,
         \/ \E f \in Future : AwaitFuture(t, f) \/ CancelFuture(t, f)
         \/ CheckFuture(t) \/ FutureStarts(t) \/ PointDelivers(t) \/ RequestsCancel(t)
  PROVE  FutureInv'
<1> USE DEF values
<1>1. /\ FuturesOK /\ RequestIsWaitedFor /\ requests \subseteq Future /\ asked \subseteq Future
  BY DEF FutureInv, FuturesOK
<1>2. fend = "running" => requests \subseteq asked /\ FuturesFit
  BY DEF FutureInv, FuturesFit, RequestsFit
<1>3. ASSUME NEW op \in {"await", "request"}, NEW f \in Future, Runs(t), future[f] = "pending", creator[f] = t,
             StopsAt(t, op, f),
             UNCHANGED <<frames, creator, values, requests, given, returned, asked, canceling, fend>>
      PROVE  FutureInv'
  <2> DEFINE s == [op |-> op, of |-> f]
  <2>1. s \in FutureStops /\ s.op = op /\ s.of = f /\ fat' = [fat EXCEPT ![t] = s]
        /\ fend = "running" /\ fat[t].op = "run"
    BY <1>3 DEF FutureStops, StopsAt, Runs
  <2> HIDE DEF s
  <2>2. RequestIsWaitedFor'
    BY <1>1, <1>3, <2>1, OthersStillWait DEF RequestIsWaitedFor
  <2>. QED BY <1>1, <1>2, <1>3, <2>1, <2>2, MoveKeepsFutures
<1>4. CASE \E f \in Future : AwaitFuture(t, f) \/ CancelFuture(t, f)
  BY <1>3, <1>4 DEF AwaitFuture, CancelFuture
<1>5. CASE CheckFuture(t)
  <2> DEFINE s == [op |-> "check"]
  <2>1. s \in FutureStops /\ s.op = "check" /\ fat' = [fat EXCEPT ![t] = s]
        /\ fend = "running" /\ fat[t].op = "run"
        /\ UNCHANGED <<frames, creator, values, requests, given, returned, asked, canceling, fend>>
    BY <1>5 DEF FutureStops, CheckFuture, Runs
  <2> HIDE DEF s
  <2>2. RequestIsWaitedFor'
    BY <1>1, <2>1, OthersStillWait DEF RequestIsWaitedFor
  <2>. QED BY <1>1, <1>2, <2>1, <2>2, MoveKeepsFutures
<1> DEFINE r == [op |-> "run"]
<1>6. r \in FutureStops /\ r.op = "run" /\ (GoesOn(t) <=> fat' = [fat EXCEPT ![t] = r])
  BY DEF FutureStops, GoesOn
<1> HIDE DEF r
<1>7. CASE FutureStarts(t)
  <2>1. fend = "running" /\ fat[t].op = "start" /\ fat' = [fat EXCEPT ![t] = r]
        /\ UNCHANGED <<frames, creator, values, requests, given, returned, asked, canceling, fend>>
    BY <1>6, <1>7 DEF FutureStarts, TurnAt
  <2>2. RequestIsWaitedFor'
    BY <1>1, <2>1, OthersStillWait DEF RequestIsWaitedFor
  <2>. QED BY <1>1, <1>2, <1>6, <2>1, <2>2, MoveKeepsFutures
<1>8. CASE PointDelivers(t)
  <2>1. /\ fend = "running" /\ fat[t].op = "check" /\ fat' = [fat EXCEPT ![t] = r]
        /\ UNCHANGED <<frames, creator, values, returned, asked, canceling, fend>>
        /\ requests' \subseteq requests
        /\ given' = given \/ (given' = given \cup {Body(t)} /\ t \in requests)
    BY <1>6, <1>8 DEF PointDelivers, TurnAt
  <2>2. RequestIsWaitedFor'
    BY <1>1, <2>1, OthersStillWait DEF RequestIsWaitedFor
  <2>3. requests' \subseteq asked' /\ asked' \subseteq Future
    BY <1>1, <1>2, <2>1
  <2>4. given' = given \/ (given' = given \cup {Body(t)} /\ t \in asked /\ fat[t].op = "check")
    BY <1>2, <2>1
  <2>. QED BY <1>6, <2>1, <2>2, <2>3, <2>4, MoveKeepsFutures
<1>9. CASE RequestsCancel(t)
  <2> DEFINE f == fat[t].of
  <2> DEFINE s == [op |-> "cancel", of |-> f]
  <2>1. /\ fend = "running" /\ fat[t].op = "request" /\ f \in Future /\ WaitsOf(t, f)
        /\ requests' = requests \cup {f} /\ asked' = asked \cup {f}
        /\ fat' = [fat EXCEPT ![t] = s]
        /\ UNCHANGED <<frames, creator, values, given, returned, canceling, fend>>
    BY <1>1, <1>9, FutureStopMeans DEF RequestsCancel, TurnAt, StopsAt, WaitsOf
  <2>2. s \in FutureStops /\ s.op = "cancel" /\ s.of = f
    BY <2>1 DEF FutureStops
  <2>3. future[f] = "pending" /\ creator[f] = t
    BY <1>2, <2>1 DEF FuturesFit, StopsFit
  <2>4. fat'[t] = [op |-> "cancel", of |-> f]
    BY <1>1, <2>1 DEF FuturesOK
  <2> HIDE DEF f, s
  <2>5. RequestIsWaitedFor'
    <3>1. \A g \in requests : fat'[creator'[g]] = [op |-> "cancel", of |-> g]
      BY <1>1, <2>1, OthersStillWait
    <3>. QED BY <2>1, <2>3, <2>4, <3>1 DEF RequestIsWaitedFor
  <2>. QED BY <1>1, <1>2, <2>1, <2>2, <2>3, <2>5, MoveKeepsFutures
<1>. QED BY <1>4, <1>5, <1>7, <1>8, <1>9

LEMMA FuturesInductive == FutureInv /\ [FuturesNext]_futures => FutureInv'
<1> SUFFICES ASSUME FutureInv, [FuturesNext]_futures PROVE FutureInv'
  OBVIOUS
<1>1. CASE UNCHANGED futures
  BY <1>1 DEF futures, values, FutureInv, FuturesOK, RequestIsWaitedFor, ResultIsItsOwn, RunBy, FuturesFit,
              StopsFit, StacksFit, PhasesFit, EndsFit, RequestsFit, StartsOf, WaitsOf, OnStack, Unjoined
<1>2. ASSUME NEW t \in Task, NEW f \in Future, ForeignUse(t, f) PROVE FutureInv'
  BY <1>2 DEF ForeignUse, values, FutureInv, FuturesOK, RequestIsWaitedFor, ResultIsItsOwn, RunBy
<1>3. ASSUME NEW t \in Task, AsyncOutcome(t) \/ FutureSpawnFails(t) PROVE FutureInv'
  <2>1. /\ fend = "running" /\ fat[t].of \in Future /\ StartsOf(t, fat[t].of)
        /\ UNCHANGED <<creator, future, result, requests, given, returned, asked, canceling, fend>>
        /\ FutureSpawnFails(t) => fat[t].op = "spawn"
        /\ AsyncOutcome(t) => fat[t].op = "choice"
    BY <1>3, FutureStopMeans DEF AsyncOutcome, FutureSpawnFails, TurnAt, StartsOf, FutureInv
  <2>. QED BY <1>3, <2>1, PushKeepsFutures, RecordKeepsFutures DEF AsyncOutcome, FutureSpawnFails
<1>. QED
  BY <1>1, <1>2, <1>3, AsyncKeepsFutures, EagerKeepsFutures, ReturnKeepsFutures, SpawnKeepsFutures,
     ConsumeKeepsFutures, MovesKeepFutures
  DEF FuturesNext

LEMMA FuturesInvariant == IoSpec => []FutureInv
<1>1. IoInit => FutureInv
  <2> SUFFICES ASSUME NEW l \in {"off", "running"}, FuturesAt(l) PROVE FutureInv
    BY DEF IoInit, PartAt
  <2>1. /\ [op |-> "run"] \in FutureStops /\ [op |-> "unborn"] \in FutureStops
    BY DEF FutureStops
  <2>2. /\ fat = [t \in Task |-> [op |-> IF t = Main THEN "run" ELSE "unborn"]]
        /\ frames = [t \in Task |-> <<>>] /\ creator = [f \in Future |-> Main]
        /\ future = [f \in Future |-> "none"] /\ record = [f \in Future |-> "none"]
        /\ result = [f \in Future |-> "none"]
        /\ returned = [f \in Future |-> "none"]
        /\ requests = {} /\ given = {} /\ asked = {} /\ fend = l /\ canceling \in BOOLEAN
    BY DEF FuturesAt
  <2>3. /\ \A t \in Task : fat[t].op = (IF t = Main THEN "run" ELSE "unborn") /\ fat[t] \in FutureStops
        /\ fat \in [Task -> FutureStops]
    BY <2>1, <2>2
  <2>4. FuturesOK
    BY <2>2, <2>3, TasksAre DEF FuturesOK, Results
  <2>5. RequestIsWaitedFor /\ ResultIsItsOwn
    BY <2>2 DEF RequestIsWaitedFor, ResultIsItsOwn
  <2>6. StopsFit /\ StacksFit
    <3>1. \A t \in Task, f \in Future : ~StartsOf(t, f) /\ ~WaitsOf(t, f)
      BY <2>3 DEF StartsOf, WaitsOf
    <3>2. \A t \in Task : frames[t] = <<>> /\ Len(frames[t]) = 0
      BY <2>2
    <3>3. \A t \in Task, f \in Future : ~OnStack(t, f)
      BY <3>2 DEF OnStack
    <3>. QED BY <3>1, <3>2, <3>3 DEF StopsFit, StacksFit
  <2>7. PhasesFit /\ EndsFit /\ RequestsFit
    BY <2>2, <2>3, TasksAre DEF PhasesFit, EndsFit, RequestsFit, Unjoined
  <2>. QED BY <2>4, <2>5, <2>6, <2>7 DEF FutureInv, FuturesFit
<1>2. [IoNext]_io => [FuturesNext]_futures
  BY DEF IoNext, io
<1>. QED BY <1>1, <1>2, FuturesInductive, PTL DEF IoSpec

(* When main returns, no future is left: the oldest task that nobody       *)
(* consumed would be one of main or of a task that has ended.              *)
LEMMA NothingIsLeft ==
  ASSUME FutureInv, fend = "ok"
  PROVE  \A f \in Future : future[f] \in {"none", "consumed"}
<1>1. FuturesOK /\ FuturesFit
  BY DEF FutureInv
<1> DEFINE Left == {f \in Future : future[f] \in {"called", "pending"}}
<1> DEFINE R == OpToRel(<, Nat)
<1> SUFFICES ASSUME Left # {} PROVE FALSE
  BY <1>1 DEF FuturesOK
<1>2. Left \subseteq Nat
  BY TasksAre
<1>3. PICK f \in Left : \A g \in Left : ~(<<g, f>> \in R)
  <2> HIDE DEF Left, R
  <2>1. IsWellFoundedOn(R, Nat)
    BY NatLessThanWellFounded DEF R
  <2>. QED BY <1>2, <2>1, WFMin
<1>4. \A g \in Left : ~(g < f)
  BY <1>2, <1>3 DEF OpToRel
<1> HIDE DEF R
<1>5. creator[f] \in Task /\ creator[f] < f /\ fat[creator[f]].op # "unborn"
  BY <1>1 DEF FuturesOK, FuturesFit, PhasesFit
<1>6. fat[creator[f]].op = "done"
  <2>1. CASE creator[f] = Main
    BY <1>1, <2>1 DEF FuturesFit, EndsFit
  <2>2. CASE creator[f] \in Future
    <3>1. creator[f] \notin Left
      BY <1>4, <1>5
    <3>2. future[creator[f]] \in {"none", "consumed"}
      BY <1>1, <2>2, <3>1 DEF FuturesOK
    <3>. QED BY <1>1, <1>5, <2>2, <3>2 DEF FuturesFit, PhasesFit
  <2>. QED BY <1>5, <2>1, <2>2, TasksAre
<1>7. future[f] = "called"
  BY <1>1, <1>5, <1>6 DEF FuturesFit, EndsFit, Unjoined
<1>8. frames[creator[f]] = <<>> /\ ~StartsOf(creator[f], f)
  BY <1>1, <1>5, <1>6 DEF FuturesFit, StopsFit, StartsOf
<1>9. ~OnStack(creator[f], f)
  <2>1. Len(frames[creator[f]]) = 0
    BY <1>8
  <2>. QED BY <2>1 DEF OnStack
<1>. QED BY <1>1, <1>7, <1>8, <1>9 DEF FuturesFit, PhasesFit

(* A thread waits for a younger one, so the youngest that has not ended    *)
(* can go on.                                                              *)
LEMMA YoungestGoesOn ==
  ASSUME FutureInv, fend = "running", \A t \in Task : fat[t].op # "run" /\ ~CanTurn(t)
  PROVE  FALSE
<1>1. FuturesOK /\ FuturesFit
  BY DEF FutureInv
<1> DEFINE Stuck == {n \in 0 .. MaxFutures : fat[MaxFutures - n].op \notin {"unborn", "done"}}
<1> DEFINE R == OpToRel(<, Nat)
<1>2. \A t : t \in Task <=> t \in 0 .. MaxFutures
  BY FutureAssumption DEF Task, Future, Main
<1>3. MaxFutures \in Stuck
  <2>1. MaxFutures - MaxFutures = Main /\ MaxFutures \in 0 .. MaxFutures
    BY FutureAssumption DEF Main
  <2>. QED BY <1>1, <2>1 DEF FuturesFit, EndsFit
<1>4. PICK n \in Stuck : \A m \in Stuck : ~(<<m, n>> \in R)
  <2>1. Stuck \subseteq Nat /\ Stuck # {}
    BY <1>3
  <2> HIDE DEF Stuck, R
  <2>2. IsWellFoundedOn(R, Nat)
    BY NatLessThanWellFounded DEF R
  <2>. QED BY <2>1, <2>2, WFMin
<1>5. \A m \in Stuck : ~(m < n)
  <2>1. \A m \in Stuck : m \in Nat
    BY FutureAssumption
  <2> HIDE DEF Stuck
  <2>. QED BY <1>4, <2>1 DEF OpToRel
<1> HIDE DEF R
<1> DEFINE t == MaxFutures - n
<1>6. t \in Task /\ fat[t].op \notin {"unborn", "done"} /\ t \in 0 .. MaxFutures
  BY <1>2, FutureAssumption
<1> DEFINE f == fat[t].of
<1>7. fat[t].op \in {"await", "cancel"} /\ f \in Future /\ fat[f].op # "done"
  BY <1>1, <1>6, FutureStopMeans DEF CanTurn
<1>8. creator[f] = t /\ future[f] = "pending"
  BY <1>1, <1>6, <1>7 DEF FuturesFit, StopsFit, WaitsOf
<1>9. t < f /\ fat[f].op # "unborn" /\ f \in 0 .. MaxFutures
  BY <1>1, <1>2, <1>7, <1>8, TasksAre DEF FuturesFit, PhasesFit
<1>10. MaxFutures - f \in Stuck /\ MaxFutures - f < n
  <2> HIDE DEF f
  <2>1. MaxFutures - f \in 0 .. MaxFutures /\ MaxFutures - (MaxFutures - f) = f /\ MaxFutures - f < n
    BY <1>9, FutureAssumption
  <2>. QED BY <1>7, <1>9, <2>1
<1>. QED BY <1>5, <1>10

(* asyncC, awaitC and cancelC of Future.lean with the spawns of Call.lean: *)
(* a result is its task's, a request ends with its cancel, no record is    *)
(* left or freed early, and no run gets stuck.                             *)
THEOREM FuturesAreKept == IoSpec => []FuturesKept
<1>1. FutureInv => FuturesKept
  <2> SUFFICES ASSUME FutureInv PROVE FuturesKept
    OBVIOUS
  <2>1. FuturesGoOn
    BY YoungestGoesOn DEF FuturesGoOn
  <2>2. ASSUME fend = "running", NEW f \in Future, fat[f].op \notin {"unborn", "done"}
        PROVE  record[f] = "empty"
    BY <2>2 DEF FutureInv, FuturesFit, PhasesFit, FuturesOK
  <2>3. ASSUME fend = "ok", NEW f \in Future
        PROVE  /\ future[f] \in {"none", "consumed"}
               /\ record[f] \in {"none", "freed"}
               /\ fat[f].op \in {"unborn", "done"}
    <3>1. future[f] \in {"none", "consumed"}
      BY <2>3, NothingIsLeft
    <3>. QED BY <2>3, <3>1 DEF FutureInv, FuturesFit, PhasesFit
  <2>. QED BY <2>1, <2>2, <2>3 DEF FuturesKept, RecordsFreed, FutureInv
<1>. QED BY <1>1, FuturesInvariant, PTL

(***************************************************************************)
(* Types.                                                                  *)
(***************************************************************************)

(* The states of the three parts, whatever the bounds. *)
THEOREM IoTypesCorrect == IoSpec => []IoOK
<1>1. TaskInv /\ FutureInv /\ TimedInv => IoOK
  BY DEF TaskInv, FutureInv, TimedInv, IoOK
<1>. QED BY <1>1, TasksInvariant, IoRunsTasks, FuturesInvariant, TimedInvariant, PTL

==============================================================================
