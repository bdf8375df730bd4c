--------------------------- MODULE ThreadsProofs ----------------------------
(***************************************************************************)
(* Proofs about Threads and ThreadsHB, for any set of threads, any program *)
(* and any environment, detached threads and moved handles included.       *)
(* About Threads: its type invariant, that a skipped race scan would have  *)
(* found nothing, that a joined thread has ended and its clock is covered, *)
(* that a join handle is consumed once, that joins never wait in a circle, *)
(* that main ends last and that the spawn budget is kept.  About           *)
(* ThreadsHB: the vector clocks of the code are exactly the happens-before *)
(* order of the run, and the race checks at an access and at the end of a  *)
(* block are exact.                                                        *)
(***************************************************************************)
EXTENDS ThreadsHB, TLAPS, WellFoundedInduction, FiniteSetTheorems

(***************************************************************************)
(* Vector clocks.                                                          *)
(***************************************************************************)

(* A bump is a clock, and is above the clock it starts from. *)
LEMMA BumpGrows ==
  ASSUME NEW c \in Clock, NEW t \in Thread
  PROVE  Bump(c, t) \in Clock /\ ClockLe(c, Bump(c, t))
BY DEF Clock, Bump, ClockLe

(* The merge of two clocks is a clock above both. *)
LEMMA MergeIsAbove ==
  ASSUME NEW a \in Clock, NEW b \in Clock
  PROVE  Merge(a, b) \in Clock /\ ClockLe(a, Merge(a, b)) /\ ClockLe(b, Merge(a, b))
BY DEF Clock, Merge, ClockLe

LEMMA ClockLeRefl == ASSUME NEW a \in Clock PROVE ClockLe(a, a)
BY DEF Clock, ClockLe

LEMMA ClockLeTrans ==
  ASSUME NEW a \in Clock, NEW b \in Clock, NEW c \in Clock, ClockLe(a, b), ClockLe(b, c)
  PROVE  ClockLe(a, c)
<1> SUFFICES ASSUME NEW t \in Thread PROVE a[t] <= c[t]
  BY DEF ClockLe
<1>1. a[t] \in Nat /\ b[t] \in Nat /\ c[t] \in Nat
  BY DEF Clock
<1>2. a[t] <= b[t] /\ b[t] <= c[t]
  BY DEF ClockLe
<1>. QED BY <1>1, <1>2

(***************************************************************************)
(* Type correctness.                                                       *)
(***************************************************************************)

(* The thread ids below size are the born ones; a spawn adds one. *)
LEMMA BornGrows ==
  ASSUME TypeOK, size \in Thread, size' = size + 1
  PROVE  Born' = Born \cup {size} /\ size \notin Born /\ Born' \subseteq Thread
<1>1. size \in Nat
  BY DEF TypeOK
<1>2. \A t \in Thread : t \in Nat /\ (t < size + 1 <=> t < size \/ t = size)
  BY <1>1, ThreadAssumption
<1>3. Born' = {t \in Thread : t < size + 1}
  BY DEF Born
<1>4. {t \in Thread : t < size + 1} = {t \in Thread : t < size} \cup {size}
  BY <1>1, <1>2
<1>5. size \notin {t \in Thread : t < size}
  BY <1>1
<1>6. {t \in Thread : t < size + 1} \subseteq Thread
  OBVIOUS
<1>. QED BY <1>3, <1>4, <1>5, <1>6 DEF Born

LEMMA RecordAccessTypes ==
  ASSUME TypeOK, NEW t \in Thread, NEW l \in Loc, NEW k \in AccessKind,
         RecordAccess(t, l, k)
  PROVE  clocks' \in [Thread -> Clock] /\ footprint' \subseteq Entry
<1> DEFINE c == Bump(clocks[t], t)
<1>1. c \in Clock
  BY BumpGrows DEF TypeOK
<1>2. clocks' \in [Thread -> Clock]
  BY <1>1 DEF TypeOK, RecordAccess
<1>3. [tid |-> t, clock |-> c, loc |-> l, kind |-> k] \in Entry
  BY <1>1 DEF Entry
<1>. QED BY <1>2, <1>3 DEF TypeOK, RecordAccess

LEMMA TypeInductive == TypeOK /\ [Next]_vars => TypeOK'
<1> SUFFICES ASSUME TypeOK, [Next]_vars PROVE TypeOK'
  OBVIOUS
<1>1. CASE UNCHANGED vars
  BY <1>1 DEF vars, TypeOK, Born
<1>3. ASSUME Fail PROVE TypeOK'
  BY <1>3 DEF Fail, TypeOK, Born, table, memory
<1>4. ASSUME NEW t \in Thread, Op(t) PROVE TypeOK'
  <2>1. CASE \E l \in Loc, k \in {"read", "write"} : Access(t, l, k)
    <3> PICK l \in Loc, k \in {"read", "write"} : Access(t, l, k)
      BY <2>1
    <3>1. k \in AccessKind
      BY DEF AccessKind
    <3>2. CASE RecordAccess(t, l, k) /\ UNCHANGED <<table, live, current, pc, target, outcome>>
      <4>1. clocks' \in [Thread -> Clock] /\ footprint' \subseteq Entry
        BY <3>1, <3>2, RecordAccessTypes
      <4>. QED BY <3>2, <4>1 DEF TypeOK, Born, table
    <3>. QED BY <1>3, <3>2 DEF Access
  <2>2. CASE \E l \in Loc : Free(t, l)
    BY <1>3, <2>2 DEF Free, TypeOK, Born, table
  <2>3. CASE \E u \in Thread : Detach(t, u)
    <3> PICK u \in Thread : Detach(t, u)
      BY <2>3
    <3>1. CASE /\ joined' = [joined EXCEPT ![u] = TRUE]
               /\ released' = [released EXCEPT ![u] = TRUE]
               /\ UNCHANGED <<size, owner, memory, current, pc, target, outcome>>
      BY <3>1 DEF TypeOK, Born, memory
    <3>. QED BY <1>3, <3>1 DEF Detach
  <2>4. CASE \E u, v \in Thread : TransferHandle(t, u, v)
    BY <1>3, <2>4 DEF TransferHandle, TypeOK, Born, memory
  <2>5. ASSUME NEW op \in Stops, NEW u \in Thread, StopAt(t, op, u) PROVE TypeOK'
    BY <2>5 DEF StopAt, Running, Stops, TypeOK, Born, table, memory
  <2>6. CASE End(t)
    BY <1>3, <2>6 DEF End, Running, TypeOK, Born, table, memory
  <2>. QED
    BY <1>4, <2>1, <2>2, <2>3, <2>4, <2>5, <2>6, ThreadAssumption
    DEF Op, Yield, StopAtSpawn, StopAtJoin, Stops
<1>5. ASSUME NEW t \in Thread, SchedulerTurn(t) PROVE TypeOK'
  <2>1. CASE Resume(t) \/ SpawnFails(t)
    BY <2>1 DEF Resume, SpawnFails, Turn, TypeOK, Born, table, memory
  <2>2. CASE Spawn(t)
    <3> DEFINE c == Bump(clocks[t], t)
    <3>1. c \in Clock
      BY BumpGrows DEF TypeOK
    <3>2. size \in Thread /\ size' = size + 1
      BY <2>2 DEF Spawn
    <3>3. Born' = Born \cup {size} /\ size \notin Born /\ Born' \subseteq Thread
      BY <3>2, BornGrows
    <3>4. clocks' \in [Thread -> Clock]
      BY <2>2, <3>1 DEF Spawn, TypeOK
    <3>5. t \in Born
      BY <2>2 DEF Spawn, Turn, TypeOK
    <3>6. pc' \in [Thread -> Stops \cup {"unborn", "run", "done"}]
      BY <2>2 DEF Spawn, TypeOK, Stops
    <3>7. \A x \in Thread : pc'[x] = "unborn" <=> x \notin Born'
      BY <2>2, <3>2, <3>3, <3>5 DEF Spawn, TypeOK
    <3>8. owner' \in [Thread -> Thread] /\ \A x \in Thread : owner'[x] \in Born'
      BY <2>2, <3>2, <3>3, <3>5 DEF Spawn, TypeOK
    <3>9. joined' \in [Thread -> BOOLEAN] /\ released' \in [Thread -> BOOLEAN]
      BY <2>2 DEF Spawn, TypeOK
    <3>10. size' \in Nat \ {0} /\ current' \in Thread
      BY <2>2, <3>2 DEF Spawn, Turn, TypeOK
    <3>11. UNCHANGED <<footprint, live, target, outcome>>
      BY <2>2 DEF Spawn
    <3>. QED BY <3>4, <3>6, <3>7, <3>8, <3>9, <3>10, <3>11 DEF TypeOK
  <2>3. CASE Join(t)
    <3>1. clocks' \in [Thread -> Clock]
      <4>1. Merge(Bump(clocks[t], t), clocks[target[t]]) \in Clock
        BY BumpGrows, MergeIsAbove DEF TypeOK
      <4>. QED BY <2>3, <4>1 DEF Join, TypeOK
    <3>. QED BY <2>3, <3>1, ThreadAssumption DEF Join, Turn, TypeOK, Born
  <2>4. CASE JoinFails(t)
    BY <2>4 DEF JoinFails, Turn, TypeOK, Born, table, memory
  <2>. QED BY <1>5, <2>1, <2>2, <2>3, <2>4 DEF SchedulerTurn
<1>. QED BY <1>1, <1>4, <1>5 DEF Next

(* Every state a run reaches is well formed; in particular exactly the     *)
(* threads below size exist and only existing threads own a handle.        *)
THEOREM TypeCorrect == Spec => []TypeOK
<1>1. Init => TypeOK
  BY ThreadAssumption DEF Init, TypeOK, Born, Stops, Clock, ZeroClock, Entry
<1>. QED BY <1>1, TypeInductive, PTL DEF Spec

(***************************************************************************)
(* Covered clocks.  A race scan may be skipped when every other thread's   *)
(* clock is below the clock of the thread that runs.  That is not what the *)
(* code tests (it tests consumed handles), so the invariant says how the   *)
(* two are tied: a join moves a clock up to the joiner, and the joiner is  *)
(* itself open, that is main, joinable or released.                        *)
(***************************************************************************)

Open(u) == u = 0 \/ ~joined[u] \/ released[u]

(* A thread's clock is above all the accesses it recorded. *)
FootprintCovered ==
  \A e \in footprint : e.tid \in Born /\ ClockLe(e.clock, clocks[e.tid])

Cover == TypeOK /\ FootprintCovered /\ JoinedIsCovered

(* Steps that leave the clocks, the footprint and the handles' state alone *)
(* and revive no thread.                                                   *)
LEMMA QuietStepCovers ==
  ASSUME Cover, UNCHANGED <<size, joined, released, clocks, footprint>>,
         \A x \in Thread : pc[x] = "done" => pc'[x] = "done"
  PROVE  FootprintCovered' /\ JoinedIsCovered'
<1>1. Born' = Born /\ Born \subseteq Thread
  BY DEF Born
<1>2. FootprintCovered'
  BY <1>1 DEF Cover, FootprintCovered, ClockLe
<1>3. JoinedIsCovered'
  BY <1>1 DEF Cover, JoinedIsCovered, ClockLe
<1>. QED BY <1>2, <1>3

LEMMA AccessCovers ==
  ASSUME Cover, NEW t \in Thread, NEW l \in Loc, NEW k \in AccessKind,
         Running(t), RecordAccess(t, l, k), UNCHANGED <<table, pc>>
  PROVE  FootprintCovered' /\ JoinedIsCovered'
<1> DEFINE c == Bump(clocks[t], t)
<1> DEFINE new == [tid |-> t, clock |-> c, loc |-> l, kind |-> k]
<1>1. Born' = Born /\ Born \subseteq Thread /\ t \in Born
  BY DEF Born, table, Running, Cover, TypeOK
<1>2. clocks \in [Thread -> Clock] /\ clocks[t] \in Clock /\ c \in Clock /\ ClockLe(clocks[t], c)
  BY BumpGrows DEF Cover, TypeOK
<1>3. clocks' = [clocks EXCEPT ![t] = c] /\ footprint' = footprint \cup {new}
  BY DEF RecordAccess
<1>4. \A x \in Thread : clocks'[x] \in Clock /\ ClockLe(clocks[x], clocks'[x])
  BY <1>2, <1>3, ClockLeRefl
<1>5. FootprintCovered'
  <2> SUFFICES ASSUME NEW e \in footprint' PROVE e.tid \in Born /\ ClockLe(e.clock, clocks'[e.tid])
    BY <1>1 DEF FootprintCovered, ClockLe
  <2>1. CASE e \in footprint
    <3>1. e.clock \in Clock /\ e.tid \in Born /\ ClockLe(e.clock, clocks[e.tid])
      BY <2>1 DEF Cover, TypeOK, Entry, FootprintCovered
    <3>2. e.tid \in Thread /\ clocks[e.tid] \in Clock
      BY <1>1, <1>2, <3>1
    <3>. QED BY <3>1, <3>2, <1>4, ClockLeTrans
  <2>2. CASE e = new
    <3>1. e.tid = t /\ e.clock = c /\ clocks'[t] = c
      BY <2>2, <1>2, <1>3
    <3>. QED BY <3>1, <1>1, <1>2, ClockLeRefl
  <2>. QED BY <2>1, <2>2, <1>3
<1>6. JoinedIsCovered'
  <2> SUFFICES ASSUME NEW x \in Born, joined[x], ~released[x]
               PROVE  /\ x = 0 \/ pc[x] = "done"
                      /\ \E u \in Born : Open(u) /\ ClockLe(clocks'[x], clocks'[u])
    BY <1>1 DEF JoinedIsCovered, table, Open, ClockLe
  <2>1. x = 0 \/ pc[x] = "done"
    BY DEF Cover, JoinedIsCovered
  <2>2. CASE x = 0
    BY <2>2, <1>1, <1>4, ClockLeRefl DEF Open
  <2>3. CASE x # 0
    <3>1. x # t
      BY <2>1, <2>3 DEF Running
    <3>2. PICK u \in Born : Open(u) /\ ClockLe(clocks[x], clocks[u])
      BY DEF Cover, JoinedIsCovered, Open
    <3>3. clocks'[x] = clocks[x] /\ clocks[x] \in Clock /\ clocks[u] \in Clock /\ clocks'[u] \in Clock
      BY <1>1, <1>2, <1>3, <1>4, <3>1
    <3>4. ClockLe(clocks'[x], clocks'[u])
      BY <1>1, <1>4, <3>2, <3>3, ClockLeTrans
    <3>. QED BY <2>1, <3>2, <3>4
  <2>. QED BY <2>1, <2>2, <2>3
<1>. QED BY <1>5, <1>6

(* The child is open, and the parent's clock only grows. *)
LEMMA SpawnCovers ==
  ASSUME Cover, NEW t \in Thread, Spawn(t)
  PROVE  FootprintCovered' /\ JoinedIsCovered'
<1> DEFINE c == Bump(clocks[t], t)
<1>1. /\ Born' = Born \cup {size} /\ size \notin Born /\ Born \subseteq Thread
      /\ size \in Thread /\ t \in Born /\ t # size
  BY BornGrows DEF Spawn, Turn, Cover, TypeOK, Born
<1>2. clocks \in [Thread -> Clock] /\ clocks[t] \in Clock /\ c \in Clock /\ ClockLe(clocks[t], c)
  BY BumpGrows DEF Cover, TypeOK
<1>3. clocks' = [clocks EXCEPT ![t] = c, ![size] = c] /\ footprint' = footprint
  BY DEF Spawn
<1>4. /\ \A x \in Born : clocks'[x] \in Clock /\ ClockLe(clocks[x], clocks'[x])
      /\ \A x \in Born : x # t => clocks'[x] = clocks[x]
  BY <1>1, <1>2, <1>3, ClockLeRefl
<1>5. FootprintCovered'
  <2> SUFFICES ASSUME NEW e \in footprint PROVE e.tid \in Born' /\ ClockLe(e.clock, clocks'[e.tid])
    BY <1>3 DEF FootprintCovered, ClockLe
  <2>1. e.clock \in Clock /\ e.tid \in Born /\ ClockLe(e.clock, clocks[e.tid])
    BY DEF Cover, TypeOK, Entry, FootprintCovered
  <2>2. clocks[e.tid] \in Clock
    BY <1>1, <1>2, <2>1
  <2>. QED BY <2>1, <2>2, <1>1, <1>4, ClockLeTrans
<1>6. JoinedIsCovered'
  <2>0. \A x \in Born : /\ joined'[x] = joined[x]
                        /\ released'[x] = released[x]
                        /\ pc[x] = "done" => pc'[x] = "done"
    BY <1>1 DEF Spawn, Turn, Cover, TypeOK
  <2>1. ~joined'[size]
    BY <1>1 DEF Spawn, Cover, TypeOK
  <2> SUFFICES ASSUME NEW x \in Born', joined'[x], ~released'[x]
               PROVE  /\ x = 0 \/ pc'[x] = "done"
                      /\ \E u \in Born' : (Open(u))' /\ ClockLe(clocks'[x], clocks'[u])
    BY DEF JoinedIsCovered, Open, ClockLe
  <2>2. x \in Born /\ joined[x] /\ ~released[x]
    BY <1>1, <2>0, <2>1
  <2>3. x = 0 \/ pc[x] = "done"
    BY <2>2 DEF Cover, JoinedIsCovered
  <2>4. CASE x = 0
    BY <2>2, <2>4, <1>4, ClockLeRefl DEF Open
  <2>5. CASE x # 0
    <3>1. x # t
      BY <2>3, <2>5 DEF Spawn, Turn
    <3>2. PICK u \in Born : Open(u) /\ ClockLe(clocks[x], clocks[u])
      BY <2>2 DEF Cover, JoinedIsCovered, Open
    <3>3. clocks'[x] = clocks[x] /\ clocks[x] \in Clock /\ clocks[u] \in Clock /\ clocks'[u] \in Clock
      BY <1>1, <1>2, <1>4, <2>2, <3>1
    <3>4. ClockLe(clocks'[x], clocks'[u])
      BY <1>4, <3>2, <3>3, ClockLeTrans
    <3>5. u \in Born' /\ (Open(u))'
      BY <1>1, <2>0, <3>2 DEF Open
    <3>. QED BY <2>0, <2>2, <2>3, <3>4, <3>5
  <2>. QED BY <2>4, <2>5
<1>. QED BY <1>5, <1>6

(* The joined thread had ended, and the joiner, which is open because it   *)
(* runs, takes over all that the joined thread covered.                    *)
LEMMA JoinCovers ==
  ASSUME Cover, NEW t \in Thread, Join(t)
  PROVE  FootprintCovered' /\ JoinedIsCovered'
<1> DEFINE u == target[t]
<1> DEFINE b == Bump(clocks[t], t)
<1> DEFINE c == Merge(b, clocks[u])
<1>1. /\ Born' = Born /\ Born \subseteq Thread /\ t \in Born /\ u \in Born
      /\ pc[u] = "done" /\ pc[t] = "join" /\ t # u
  BY DEF Join, Turn, CanGo, JoinValid, Cover, TypeOK, Born
<1>2. clocks \in [Thread -> Clock] /\ clocks[t] \in Clock /\ clocks[u] \in Clock
  BY <1>1 DEF Cover, TypeOK
<1>3. c \in Clock /\ ClockLe(clocks[t], c) /\ ClockLe(clocks[u], c)
  <2>1. b \in Clock /\ ClockLe(clocks[t], b)
    BY <1>2, BumpGrows
  <2>2. c \in Clock /\ ClockLe(b, c) /\ ClockLe(clocks[u], c)
    BY <1>2, <2>1, MergeIsAbove
  <2>. QED BY <1>2, <2>1, <2>2, ClockLeTrans
<1>4. clocks' = [clocks EXCEPT ![t] = c] /\ footprint' = footprint
  BY DEF Join
<1>5. /\ \A x \in Thread : clocks'[x] \in Clock /\ ClockLe(clocks[x], clocks'[x])
      /\ clocks'[t] = c
      /\ \A x \in Thread : x # t => clocks'[x] = clocks[x]
  BY <1>2, <1>3, <1>4, ClockLeRefl
<1>6. FootprintCovered'
  <2> SUFFICES ASSUME NEW e \in footprint PROVE e.tid \in Born /\ ClockLe(e.clock, clocks'[e.tid])
    BY <1>1, <1>4 DEF FootprintCovered, ClockLe
  <2>1. e.clock \in Clock /\ e.tid \in Born /\ ClockLe(e.clock, clocks[e.tid])
    BY DEF Cover, TypeOK, Entry, FootprintCovered
  <2>2. e.tid \in Thread /\ clocks[e.tid] \in Clock
    BY <1>1, <1>2, <2>1
  <2>. QED BY <2>1, <2>2, <1>5, ClockLeTrans
<1>7. JoinedIsCovered'
  <2>1. /\ joined' = [joined EXCEPT ![u] = TRUE] /\ released' = released
        /\ \A x \in Thread : pc[x] = "done" => pc'[x] = "done"
    BY <1>1 DEF Join, Cover, TypeOK
  <2>2. Open(t) /\ (Open(t))'
    BY <1>1, <2>1 DEF Open, Cover, JoinedIsCovered, TypeOK
  <2>3. \A x \in Born : x # u => joined'[x] = joined[x] /\ released'[x] = released[x]
    BY <1>1, <2>1 DEF Cover, TypeOK
  <2> SUFFICES ASSUME NEW x \in Born, joined'[x], ~released[x]
               PROVE  /\ x = 0 \/ pc'[x] = "done"
                      /\ \E w \in Born : (Open(w))' /\ ClockLe(clocks'[x], clocks'[w])
    BY <1>1, <2>1 DEF JoinedIsCovered, Open, ClockLe
  <2>4. CASE x = u
    BY <2>4, <1>1, <1>3, <1>5, <2>1, <2>2
  <2>5. CASE x = t
    <3>1. joined[x]
      BY <2>5, <1>1, <2>3
    <3>2. x = 0
      BY <2>5, <3>1, <1>1 DEF Cover, JoinedIsCovered
    <3>. QED BY <3>2, <2>2, <2>5, <1>5, ClockLeRefl
  <2>6. CASE x # u /\ x # t
    <3>1. joined[x]
      BY <2>6, <2>3
    <3>2. x = 0 \/ pc'[x] = "done"
      BY <3>1, <1>1, <2>1 DEF Cover, JoinedIsCovered
    <3>3. PICK w \in Born : Open(w) /\ ClockLe(clocks[x], clocks[w])
      BY <3>1 DEF Cover, JoinedIsCovered, Open
    <3>4. clocks'[x] = clocks[x] /\ clocks[x] \in Clock /\ clocks[w] \in Clock
      BY <1>1, <1>2, <1>5, <2>6
    <3>5. CASE w = u
      <4>1. ClockLe(clocks'[x], clocks'[t])
        BY <3>3, <3>4, <3>5, <1>3, <1>5, ClockLeTrans
      <4>. QED BY <4>1, <3>2, <1>1, <2>2
    <3>6. CASE w # u
      <4>1. ClockLe(clocks'[x], clocks'[w])
        BY <3>3, <3>4, <1>1, <1>5, ClockLeTrans
      <4>2. (Open(w))'
        BY <3>3, <3>6, <2>3 DEF Open
      <4>. QED BY <4>1, <4>2, <3>2
    <3>. QED BY <3>5, <3>6
  <2>. QED BY <2>4, <2>5, <2>6
<1>. QED BY <1>6, <1>7

(* A detached thread stays open, so what it covers stays covered. *)
LEMMA DetachCovers ==
  ASSUME Cover, NEW u \in Thread,
         joined' = [joined EXCEPT ![u] = TRUE], released' = [released EXCEPT ![u] = TRUE],
         UNCHANGED <<size, memory, pc>>
  PROVE  FootprintCovered' /\ JoinedIsCovered'
<1>1. Born' = Born /\ Born \subseteq Thread
  BY DEF Born
<1>2. FootprintCovered'
  BY <1>1 DEF Cover, FootprintCovered, ClockLe, memory
<1>3. released'[u] /\ \A x \in Thread : x # u => joined'[x] = joined[x] /\ released'[x] = released[x]
  BY DEF Cover, TypeOK
<1>4. JoinedIsCovered'
  <2> SUFFICES ASSUME NEW x \in Born, joined'[x], ~released'[x]
               PROVE  /\ x = 0 \/ pc[x] = "done"
                      /\ \E w \in Born : (Open(w))' /\ ClockLe(clocks[x], clocks[w])
    BY <1>1 DEF JoinedIsCovered, Open, ClockLe, memory
  <2>1. joined[x] /\ ~released[x]
    BY <1>1, <1>3
  <2>2. PICK w \in Born : Open(w) /\ ClockLe(clocks[x], clocks[w])
    BY <2>1 DEF Cover, JoinedIsCovered, Open
  <2>3. (Open(w))'
    BY <2>2, <1>1, <1>3 DEF Open
  <2>. QED BY <2>1, <2>2, <2>3 DEF Cover, JoinedIsCovered
<1>. QED BY <1>2, <1>4

LEMMA CoverInductive == Cover /\ [Next]_vars => Cover'
<1> SUFFICES ASSUME Cover, [Next]_vars PROVE Cover'
  OBVIOUS
<1> USE DEF table, memory
<1>0. TypeOK'
  BY TypeInductive DEF Cover
<1> SUFFICES FootprintCovered' /\ JoinedIsCovered'
  BY <1>0 DEF Cover
<1>1. CASE UNCHANGED vars
  BY <1>1, QuietStepCovers DEF vars
<1>3. ASSUME Fail PROVE FootprintCovered' /\ JoinedIsCovered'
  BY <1>3, QuietStepCovers DEF Fail
<1>4. ASSUME NEW t \in Thread, Op(t) PROVE FootprintCovered' /\ JoinedIsCovered'
  <2>1. CASE \E l \in Loc, k \in {"read", "write"} : Access(t, l, k)
    BY <1>3, <2>1, AccessCovers DEF Access, AccessKind
  <2>2. CASE \E l \in Loc : Free(t, l)
    BY <1>3, <2>2, QuietStepCovers DEF Free
  <2>3. CASE \E u \in Thread : Detach(t, u)
    BY <1>3, <2>3, DetachCovers DEF Detach
  <2>4. CASE \E u, v \in Thread : TransferHandle(t, u, v)
    BY <1>3, <2>4, QuietStepCovers DEF TransferHandle
  <2>5. ASSUME NEW op \in Stops, NEW u \in Thread, StopAt(t, op, u)
        PROVE  FootprintCovered' /\ JoinedIsCovered'
    <3>1. \A x \in Thread : pc[x] = "done" => pc'[x] = "done"
      BY <2>5 DEF StopAt, Running, Cover, TypeOK
    <3>. QED BY <2>5, <3>1, QuietStepCovers DEF StopAt
  <2>6. CASE End(t) /\ ~OwesJoin(t)
    <3>1. \A x \in Thread : pc[x] = "done" => pc'[x] = "done"
      BY <2>6 DEF End, Cover, TypeOK
    <3>. QED BY <1>3, <2>6, <3>1, QuietStepCovers DEF End
  <2>7. CASE End(t) /\ OwesJoin(t)
    BY <1>3, <2>7 DEF End
  <2>. QED
    BY <1>4, <2>1, <2>2, <2>3, <2>4, <2>5, <2>6, <2>7, ThreadAssumption
    DEF Op, Yield, StopAtSpawn, StopAtJoin, Stops
<1>5. ASSUME NEW t \in Thread, SchedulerTurn(t) PROVE FootprintCovered' /\ JoinedIsCovered'
  <2>1. CASE Resume(t) \/ SpawnFails(t)
    <3>1. \A x \in Thread : pc[x] = "done" => pc'[x] = "done"
      BY <2>1 DEF Resume, SpawnFails, Turn, Cover, TypeOK
    <3>. QED BY <2>1, <3>1, QuietStepCovers DEF Resume, SpawnFails
  <2>2. CASE Spawn(t)
    BY <2>2, SpawnCovers
  <2>3. CASE Join(t)
    BY <2>3, JoinCovers
  <2>4. CASE JoinFails(t)
    BY <2>4, QuietStepCovers DEF JoinFails
  <2>. QED BY <1>5, <2>1, <2>2, <2>3, <2>4 DEF SchedulerTurn
<1>. QED BY <1>1, <1>4, <1>5 DEF Next

LEMMA CoverInitial == Init => Cover
<1> SUFFICES ASSUME Init PROVE Cover
  OBVIOUS
<1>1. TypeOK
  BY ThreadAssumption DEF Init, TypeOK, Born, Stops, Clock, ZeroClock, Entry
<1>2. FootprintCovered
  BY DEF Init, FootprintCovered
<1>3. JoinedIsCovered
  <2> SUFFICES ASSUME NEW x \in Born, joined[x] PROVE x = 0 /\ ClockLe(clocks[x], clocks[0])
    BY DEF JoinedIsCovered
  <2>1. x = 0
    BY DEF Init, Born
  <2>2. clocks[0] \in Clock
    BY <1>1, ThreadAssumption DEF TypeOK
  <2>. QED BY <2>1, <2>2, ClockLeRefl
<1>. QED BY <1>1, <1>2, <1>3 DEF Cover

LEMMA CoverInvariant == Spec => []Cover
BY CoverInitial, CoverInductive, PTL DEF Spec

(* A handle that a join consumed belongs to a thread that has ended and    *)
(* whose clock an open thread covers (Thread.join of Mem/Thread.lean).     *)
THEOREM JoinedCovered == Spec => []JoinedIsCovered
<1>1. Cover => JoinedIsCovered
  BY DEF Cover
<1>. QED BY <1>1, CoverInvariant, PTL

LEMMA CoverSkips == Cover => SoloSkipSound
<1> SUFFICES ASSUME Cover, Solo, NoneReleased, NEW l \in Loc, NEW k \in AccessKind
             PROVE  ~RaceAt(Bump(clocks[0], 0), l, k)
  BY DEF SoloSkipSound
<1>1. 0 \in Thread /\ clocks[0] \in Clock
  BY ThreadAssumption DEF Cover, TypeOK
<1>2. Bump(clocks[0], 0) \in Clock /\ ClockLe(clocks[0], Bump(clocks[0], 0))
  BY <1>1, BumpGrows
<1> SUFFICES ASSUME NEW e \in footprint PROVE ClockLe(e.clock, Bump(clocks[0], 0))
  BY DEF RaceAt, Concurrent
<1>3. e.tid \in Born /\ e.clock \in Clock /\ ClockLe(e.clock, clocks[e.tid])
  BY DEF Cover, TypeOK, Entry, FootprintCovered
<1>4. clocks[e.tid] \in Clock
  BY <1>3 DEF Born, Cover, TypeOK
<1>5. ClockLe(clocks[e.tid], clocks[0])
  BY <1>3 DEF Cover, JoinedIsCovered, Solo, NoneReleased, Born
<1>. QED BY <1>1, <1>2, <1>3, <1>4, <1>5, ClockLeTrans

(* Mem.solo may skip the scan of Mem.raceCheck: as long as no handle was   *)
(* given up without a join, the scan would find nothing.                   *)
THEOREM SoloSkip == Spec => []SoloSkipSound
BY CoverSkips, CoverInvariant, PTL

-----------------------------------------------------------------------------
(***************************************************************************)
(* Join handles: a handle is consumed once and by its owner; joins never   *)
(* wait in a circle; and with neither transfers nor detaches, main ends    *)
(* only after every other thread.                                          *)
(***************************************************************************)

(* The scheduler has lent its turn to one thread. *)
RunIsCurrent == \A t \in Thread : pc[t] = "run" => t = current

(* Main has no handle: nobody joins it. *)
MainHandle == joined[0] /\ ~released[0]

(* The end of main is the end of the run. *)
MainEnds ==
  /\ outcome = "running" => pc[0] # "done"
  /\ outcome = "ok" => pc[0] = "done"

(* A thread is older than the threads that it may join. *)
OwnerIsOlder == ~CanTransfer => \A u \in Born \ {0} : owner[u] < u

(* A thread that ended has consumed all its handles. *)
DoneOwesNothing ==
  ~CanTransfer => \A t, u \in Born : pc[t] = "done" /\ owner[u] = t => joined[u]

Handles ==
  /\ TypeOK
  /\ RunIsCurrent
  /\ MainHandle
  /\ MainEnds
  /\ OwnerIsOlder
  /\ DoneOwesNothing
  /\ ~CanDetach => NoneReleased

LEMMA HandlesInitial == Init => Handles
<1> SUFFICES ASSUME Init PROVE Handles
  OBVIOUS
<1>1. TypeOK
  BY CoverInitial DEF Cover
<1>2. Born = {0}
  <2>1. size = 1 /\ 0 \in Thread /\ \A t \in Thread : t < 1 <=> t = 0
    BY ThreadAssumption DEF Init
  <2>. QED BY <2>1 DEF Born
<1>. QED
  BY <1>1, <1>2, ThreadAssumption
  DEF Init, Handles, RunIsCurrent, MainHandle, MainEnds, OwnerIsOlder, DoneOwesNothing, NoneReleased

(* An error changes nothing but the outcome. *)
LEMMA StopKeepsHandles ==
  ASSUME Handles, TypeOK', UNCHANGED <<table, pc>>, RunIsCurrent',
         outcome' = "illegal"
  PROVE  Handles'
BY DEF Handles, RunIsCurrent, MainHandle, MainEnds, OwnerIsOlder, DoneOwesNothing, NoneReleased,
       Born, table

(* A step that only moves threads that are not done. *)
LEMMA MoveKeepsHandles ==
  ASSUME Handles, TypeOK', UNCHANGED <<table, outcome>>, RunIsCurrent',
         \A x \in Thread : pc[x] = "done" <=> pc'[x] = "done"
  PROVE  Handles'
BY ThreadAssumption
DEF Handles, RunIsCurrent, MainHandle, MainEnds, OwnerIsOlder, DoneOwesNothing, NoneReleased,
    Born, table

LEMMA OpKeepsHandles ==
  ASSUME Handles, TypeOK', NEW t \in Thread, Op(t)
  PROVE  Handles'
<1>1. ASSUME Fail PROVE Handles'
  BY <1>1, StopKeepsHandles DEF Fail, Handles, RunIsCurrent
<1>2. ASSUME UNCHANGED <<table, current, pc, outcome>> PROVE Handles'
  BY <1>2, MoveKeepsHandles DEF Handles, RunIsCurrent
<1>3. CASE \E l \in Loc, k \in {"read", "write"} : Access(t, l, k)
  BY <1>1, <1>2, <1>3 DEF Access
<1>4. CASE \E l \in Loc : Free(t, l)
  BY <1>1, <1>2, <1>4 DEF Free, table
<1>5. CASE \E u \in Thread : Detach(t, u)
  <2> PICK u \in Thread : Detach(t, u)
    BY <1>5
  <2> SUFFICES ASSUME JoinValid(t, u), CanDetach,
                      joined' = [joined EXCEPT ![u] = TRUE],
                      released' = [released EXCEPT ![u] = TRUE],
                      UNCHANGED <<size, owner, current, pc, outcome>>
               PROVE  Handles'
    BY <1>1 DEF Detach
  <2>1. u # 0
    BY DEF JoinValid, Handles, MainHandle
  <2>2. MainHandle'
    BY <2>1, ThreadAssumption DEF Handles, TypeOK, MainHandle
  <2>3. DoneOwesNothing'
    BY DEF Handles, TypeOK, DoneOwesNothing, Born
  <2>. QED BY <2>2, <2>3 DEF Handles, RunIsCurrent, MainEnds, OwnerIsOlder, Born
<1>6. CASE \E u, v \in Thread : TransferHandle(t, u, v)
  <2> PICK u \in Thread, v \in Thread : TransferHandle(t, u, v)
    BY <1>6
  <2> SUFFICES ASSUME CanTransfer,
                      UNCHANGED <<size, joined, released, current, pc, outcome>>
               PROVE  Handles'
    BY <1>1 DEF TransferHandle
  <2>. QED
    BY DEF Handles, RunIsCurrent, MainHandle, MainEnds, OwnerIsOlder, DoneOwesNothing, NoneReleased
<1>7. ASSUME NEW op \in Stops, NEW u \in Thread, StopAt(t, op, u) PROVE Handles'
  <2>1. RunIsCurrent' /\ \A x \in Thread : pc[x] = "done" <=> pc'[x] = "done"
    BY <1>7 DEF StopAt, Running, Stops, Handles, TypeOK, RunIsCurrent
  <2>. QED BY <1>7, <2>1, MoveKeepsHandles DEF StopAt
<1>8. CASE End(t)
  <2> SUFFICES ASSUME ~OwesJoin(t), Running(t),
                      pc' = [pc EXCEPT ![t] = "done"],
                      outcome' = (IF t = 0 THEN "ok" ELSE outcome),
                      UNCHANGED <<table, current>>
               PROVE  Handles'
    BY <1>1, <1>8 DEF End
  <2>1. RunIsCurrent'
    BY DEF Handles, TypeOK, RunIsCurrent
  <2>2. MainEnds'
    BY ThreadAssumption DEF Handles, TypeOK, MainEnds, Running
  <2>3. DoneOwesNothing'
    BY DEF Handles, TypeOK, DoneOwesNothing, OwesJoin, Born, table
  <2>. QED BY <2>1, <2>2, <2>3 DEF Handles, MainHandle, OwnerIsOlder, NoneReleased, Born, table
<1>. QED
  BY <1>3, <1>4, <1>5, <1>6, <1>7, <1>8, ThreadAssumption
  DEF Op, Yield, StopAtSpawn, StopAtJoin, Stops

LEMMA TurnKeepsHandles ==
  ASSUME Handles, TypeOK', NEW t \in Thread, SchedulerTurn(t)
  PROVE  Handles'
<1>1. CASE Resume(t) \/ SpawnFails(t)
  <2>1. RunIsCurrent' /\ \A x \in Thread : pc[x] = "done" <=> pc'[x] = "done"
    BY <1>1 DEF Resume, SpawnFails, Turn, NoneRuns, Handles, TypeOK, RunIsCurrent
  <2>. QED BY <1>1, <2>1, MoveKeepsHandles DEF Resume, SpawnFails
<1>2. CASE Spawn(t)
  <2>1. /\ Born' = Born \cup {size} /\ size \notin Born /\ Born \subseteq Thread
        /\ size \in Thread /\ t \in Born /\ t # size /\ t < size /\ 0 \in Born
    BY <1>2, BornGrows, ThreadAssumption DEF Spawn, Turn, Handles, TypeOK, Born
  <2>2. /\ pc' = [pc EXCEPT ![t] = "run", ![size] = "yield"]
        /\ owner' = [owner EXCEPT ![size] = t]
        /\ joined' = [joined EXCEPT ![size] = FALSE]
        /\ released' = [released EXCEPT ![size] = FALSE]
        /\ pc[t] = "spawn" /\ current' = t /\ outcome' = outcome
        /\ \A x \in Thread : pc[x] # "run"
    BY <1>2 DEF Spawn, Turn, NoneRuns
  <2>a. /\ \A x \in Born : owner'[x] = owner[x]
        /\ owner'[size] = t
    BY <2>1, <2>2 DEF Handles, TypeOK
  <2>b. ASSUME NEW x \in Born PROVE joined'[x] = joined[x]
    <3>1. x \in Thread /\ x # size
      BY <2>1
    <3>2. joined' = [joined EXCEPT ![size] = FALSE] /\ joined \in [Thread -> BOOLEAN]
      BY <2>2 DEF Handles, TypeOK
    <3>. QED BY <3>1, <3>2
  <2>c. /\ pc'[size] # "done" /\ pc'[t] # "done"
        /\ \A x \in Born : pc'[x] = "done" <=> pc[x] = "done"
    BY <2>1, <2>2 DEF Handles, TypeOK
  <2>3. /\ \A x \in Born : owner'[x] = owner[x] /\ joined'[x] = joined[x]
        /\ owner'[size] = t /\ pc'[size] # "done" /\ pc'[t] # "done"
        /\ \A x \in Born : pc'[x] = "done" <=> pc[x] = "done"
    BY <2>a, <2>b, <2>c
  <2>4. RunIsCurrent'
    BY <2>1, <2>2 DEF Handles, TypeOK, RunIsCurrent
  <2>5. MainHandle' /\ MainEnds'
    BY <2>1, <2>2 DEF Handles, TypeOK, MainHandle, MainEnds
  <2>6. OwnerIsOlder'
    BY <2>1, <2>3 DEF Handles, OwnerIsOlder
  <2>7. DoneOwesNothing'
    BY <2>1, <2>3 DEF Handles, DoneOwesNothing
  <2>8. ~CanDetach => NoneReleased'
    BY <2>1, <2>2 DEF Handles, TypeOK, NoneReleased
  <2>. QED BY <2>4, <2>5, <2>6, <2>7, <2>8 DEF Handles
<1>3. CASE Join(t)
  <2>1. /\ joined' = [joined EXCEPT ![target[t]] = TRUE]
        /\ pc' = [pc EXCEPT ![t] = "run"]
        /\ pc[t] = "join" /\ current' = t
        /\ UNCHANGED <<size, owner, released, outcome>>
        /\ \A x \in Thread : pc[x] # "run"
    BY <1>3 DEF Join, Turn, NoneRuns
  <2>2. RunIsCurrent' /\ \A x \in Thread : pc[x] = "done" <=> pc'[x] = "done"
    BY <2>1 DEF Handles, TypeOK, RunIsCurrent
  <2>3. \A x \in Thread : joined[x] => joined'[x]
    BY <2>1 DEF Handles, TypeOK
  <2>4. DoneOwesNothing'
    BY <2>1, <2>2, <2>3 DEF Handles, DoneOwesNothing, Born
  <2>. QED
    BY <2>1, <2>2, <2>3, <2>4, ThreadAssumption
    DEF Handles, MainHandle, MainEnds, OwnerIsOlder, NoneReleased, Born
<1>4. CASE JoinFails(t)
  <2>1. RunIsCurrent'
    BY <1>4 DEF JoinFails, Turn, NoneRuns, RunIsCurrent
  <2>. QED BY <1>4, <2>1, StopKeepsHandles DEF JoinFails
<1>. QED BY <1>1, <1>2, <1>3, <1>4 DEF SchedulerTurn

LEMMA HandlesInductive == Handles /\ [Next]_vars => Handles'
<1> SUFFICES ASSUME Handles, [Next]_vars PROVE Handles'
  OBVIOUS
<1>1. TypeOK'
  BY TypeInductive DEF Handles
<1>2. CASE UNCHANGED vars
  BY <1>1, <1>2, MoveKeepsHandles DEF vars, table, Handles, RunIsCurrent
<1>. QED BY <1>1, <1>2, OpKeepsHandles, TurnKeepsHandles DEF Next

LEMMA HandlesInvariant == Spec => []Handles
BY HandlesInitial, HandlesInductive, PTL DEF Spec

-----------------------------------------------------------------------------
(* Thread.join, detach and transferHandle: only the thread that runs and   *)
(* owns an unconsumed handle changes its record, and a consumed one stays. *)
THEOREM ConsumedOnce == Spec => HandlesConsumedOnce
<1> DEFINE Rec(u) == <<owner[u], joined[u], released[u]>>
<1> DEFINE Step == \A u \in Born : (Rec(u))' # Rec(u) => ~joined[u] /\ owner[u] = current'
<1>1. Handles /\ [Next]_vars => [Step]_vars
  <2> SUFFICES ASSUME Handles, Next, NEW u \in Born, (Rec(u))' # Rec(u)
               PROVE  ~joined[u] /\ owner[u] = current'
    BY DEF Handles
  <2>1. ~UNCHANGED table
    BY DEF table
  <2>2. ~Fail
    BY <2>1 DEF Fail, table
  <2>3. PICK t \in Thread : Op(t) \/ SchedulerTurn(t)
    BY <2>2 DEF Next
  <2>4. CASE Op(t)
    <3>1. PICK w \in Thread : \/ Detach(t, w)
                              \/ \E v \in Thread : TransferHandle(t, w, v)
      BY <2>1, <2>2, <2>4
      DEF Op, Access, Free, Yield, StopAtSpawn, StopAtJoin, StopAt, End, table
    <3>2. /\ JoinValid(t, w) /\ Running(t) /\ current' = current
          /\ \A x \in Thread : x # w => (Rec(x))' = Rec(x)
      BY <2>2, <3>1 DEF Detach, TransferHandle, Handles, TypeOK
    <3>3. u = w
      BY <3>2 DEF Born
    <3>. QED BY <3>2, <3>3 DEF JoinValid, Running, Handles, RunIsCurrent
  <2>5. CASE SchedulerTurn(t)
    <3>1. Spawn(t) \/ Join(t)
      BY <2>1, <2>5 DEF SchedulerTurn, Resume, SpawnFails, JoinFails, table
    <3>2. ~Spawn(t)
      <4> SUFFICES ASSUME Spawn(t) PROVE (Rec(u))' = Rec(u)
        OBVIOUS
      <4>1. size \notin Born /\ u \in Thread /\ u # size
        BY BornGrows DEF Spawn, Handles, Born
      <4>2. owner'[u] = owner[u]
        BY <4>1 DEF Spawn, Handles, TypeOK
      <4>3. joined'[u] = joined[u]
        BY <4>1 DEF Spawn, Handles, TypeOK
      <4>4. released'[u] = released[u]
        BY <4>1 DEF Spawn, Handles, TypeOK
      <4>. QED BY <4>2, <4>3, <4>4
    <3>3. /\ JoinValid(t, target[t]) /\ current' = t
          /\ \A x \in Thread : x # target[t] => (Rec(x))' = Rec(x)
      BY <3>1, <3>2 DEF Join, Turn, Handles, TypeOK
    <3>4. u = target[t]
      BY <3>3 DEF Born
    <3>. QED BY <3>3, <3>4 DEF JoinValid
  <2>. QED BY <2>3, <2>4, <2>5
<1>. QED BY <1>1, HandlesInvariant, PTL DEF Spec, HandlesConsumedOnce

LEMMA BornFinite == ASSUME TypeOK PROVE IsFiniteSet(Born)
<1>1. size \in Nat
  BY DEF TypeOK
<1>2. Born \in SUBSET Nat /\ \A u \in Born : u <= size
  <2>1. \A u \in Born : u \in Nat /\ u < size
    BY ThreadAssumption DEF Born
  <2>. QED BY <1>1, <2>1
<1>. QED BY <1>1, <1>2, FS_BoundedSetOfNaturals

(* State.choose finds a thread: if none could go on, the threads that have *)
(* not ended would each wait for the end of a thread that they own.  Main  *)
(* waits and nobody owns main, so they own fewer threads than they are,    *)
(* and two of them would wait for the same one; but a handle has one owner.*)
THEOREM JoinsNeverDeadlock == Spec => []NoDeadlock
<1>1. Handles => NoDeadlock
  <2> SUFFICES ASSUME Handles, NoneRuns, \A t \in Born : ~CanGo(t) PROVE FALSE
    BY DEF NoDeadlock
  <2> DEFINE Left == {t \in Born : pc[t] # "done"}
  <2> DEFINE wait == [t \in Left |-> target[t]]
  <2>1. 0 \in Left
    BY ThreadAssumption DEF NoneRuns, Handles, TypeOK, MainEnds, Born
  <2>2. ASSUME NEW t \in Left
        PROVE  JoinValid(t, target[t]) /\ target[t] \in Left \ {0}
    <3>1. pc[t] = "join" /\ JoinValid(t, target[t]) /\ pc[target[t]] # "done"
      BY <2>2 DEF NoneRuns, CanGo, Handles, TypeOK, Stops, Born
    <3>. QED BY <3>1 DEF JoinValid, Handles, MainHandle
  <2>3. IsFiniteSet(Left)
    BY BornFinite, FS_Subset DEF Handles
  <2>4. /\ IsFiniteSet(Left \ {0})
        /\ Cardinality(Left \ {0}) < Cardinality(Left)
    <3> HIDE DEF Left
    <3>1. /\ IsFiniteSet(Left \ {0})
          /\ Cardinality(Left \ {0}) = Cardinality(Left) - 1
      BY <2>1, <2>3, FS_RemoveElement
    <3>2. Cardinality(Left) \in Nat
      BY <2>3, FS_CardinalityType
    <3>. QED BY <3>1, <3>2
  <2>5. wait \in [Left -> Left \ {0}]
    BY <2>2
  <2>6. PICK t, u \in Left : t # u /\ wait[t] = wait[u]
    <3> HIDE DEF Left, wait
    <3>. QED BY <2>3, <2>4, <2>5, FS_PigeonHole
  <2>. QED BY <2>2, <2>6 DEF JoinValid
<1>. QED BY <1>1, HandlesInvariant, PTL

(* endThread: with neither transfers nor detaches, the oldest thread that  *)
(* has not ended would be unjoined and its owner has ended owing a join,   *)
(* so a main that ends leaves nobody behind.                               *)
THEOREM MainEndsLast == ~CanTransfer /\ ~CanDetach => (Spec => []OkMeansAllEnded)
<1> SUFFICES ASSUME ~CanTransfer, ~CanDetach PROVE Spec => []OkMeansAllEnded
  OBVIOUS
<1>1. Handles /\ Cover => OkMeansAllEnded
  <2> SUFFICES ASSUME Handles, Cover, outcome = "ok", {t \in Born : pc[t] # "done"} # {}
               PROVE  FALSE
    BY DEF OkMeansAllEnded
  <2> DEFINE Left == {t \in Born : pc[t] # "done"}
  <2> DEFINE R == OpToRel(<, Nat)
  <2>1. Left \subseteq Nat /\ Left # {}
    BY ThreadAssumption DEF Born
  <2>2. PICK x \in Left : \A y \in Left : ~(<<y, x>> \in R)
    <3> HIDE DEF Left, R
    <3>1. IsWellFoundedOn(R, Nat)
      BY NatLessThanWellFounded DEF R
    <3>. QED BY <2>1, <3>1, WFMin
  <2>3. x # 0 /\ x \in Thread
    BY DEF Handles, MainEnds, Born
  <2>4. owner[x] \in Born /\ owner[x] < x /\ owner[x] \in Nat
    BY <2>3, ThreadAssumption DEF Handles, TypeOK, OwnerIsOlder, Born
  <2>5. pc[owner[x]] = "done"
    BY <2>1, <2>2, <2>4 DEF OpToRel
  <2>6. joined[x] /\ ~released[x]
    BY <2>3, <2>4, <2>5 DEF Handles, DoneOwesNothing, NoneReleased
  <2>. QED BY <2>3, <2>6 DEF Cover, JoinedIsCovered
<1>. QED BY <1>1, HandlesInvariant, CoverInvariant, PTL

(***************************************************************************)
(* The spawn budget.                                                       *)
(***************************************************************************)

Children(t) == {u \in Born : owner[u] = t /\ ~joined[u]}

LEMMA ChildrenFinite ==
  ASSUME TypeOK, NEW t \in Thread
  PROVE  IsFiniteSet(Born) /\ IsFiniteSet(Children(t)) /\ LiveChildren(t) \in Nat
<1>1. IsFiniteSet(Born)
  BY BornFinite
<1>2. IsFiniteSet(Children(t))
  BY <1>1, FS_Subset DEF Children
<1>. QED BY <1>1, <1>2, FS_CardinalityType DEF Children, LiveChildren

(* Consuming a handle takes a child from its owner. *)
LEMMA ConsumeKeepsBudget ==
  ASSUME TypeOK, SpawnBudget, NEW u \in Thread, UNCHANGED <<size, owner>>,
         joined' = [joined EXCEPT ![u] = TRUE]
  PROVE  SpawnBudget'
<1> SUFFICES ASSUME Policy = "fallible", NEW t \in Born PROVE LiveChildren(t)' <= SpawnLimit
  BY DEF SpawnBudget, Born
<1>1. t \in Thread
  BY DEF Born
<1>2. Children(t)' \subseteq Children(t)
  BY DEF Children, Born, TypeOK
<1>3. IsFiniteSet(Children(t)) /\ LiveChildren(t) = Cardinality(Children(t)) /\ LiveChildren(t) \in Nat
  BY <1>1, ChildrenFinite DEF LiveChildren, Children
<1>4. LiveChildren(t)' = Cardinality(Children(t)') /\ Cardinality(Children(t)') \in Nat
  BY <1>2, <1>3, FS_Subset, FS_CardinalityType DEF LiveChildren, Children
<1>5. Cardinality(Children(t)') <= Cardinality(Children(t))
  BY <1>2, <1>3, FS_Subset
<1>. QED BY <1>3, <1>4, <1>5, EnvAssumption DEF SpawnBudget

LEMMA SpawnKeepsBudget ==
  ASSUME TypeOK, SpawnBudget, NEW t \in Thread, Spawn(t)
  PROVE  SpawnBudget'
<1> SUFFICES ASSUME Policy = "fallible", NEW x \in Born' PROVE LiveChildren(x)' <= SpawnLimit
  BY DEF SpawnBudget
<1>1. /\ Born' = Born \cup {size} /\ size \notin Born /\ Born \subseteq Thread
      /\ size \in Thread /\ t \in Born /\ t # size
  BY BornGrows DEF Spawn, Turn, TypeOK, Born
<1>2. /\ owner'[size] = t /\ ~joined'[size]
      /\ \A u \in Born : owner'[u] = owner[u] /\ (joined'[u] <=> joined[u])
  <2>1. owner' = [owner EXCEPT ![size] = t] /\ joined' = [joined EXCEPT ![size] = FALSE]
    BY DEF Spawn
  <2>. QED BY <2>1, <1>1 DEF TypeOK
<1>3. Children(t)' = Children(t) \cup {size} /\ size \notin Children(t)
  BY <1>1, <1>2 DEF Children
<1>4. \A u \in Thread : u # t => Children(u)' = Children(u)
  BY <1>1, <1>2 DEF Children
<1>5. Children(size) = {}
  <2>1. \A u \in Born : owner[u] \in Born
    BY <1>1 DEF TypeOK
  <2>. QED BY <2>1, <1>1 DEF Children
<1>6. LiveChildren(t)' = LiveChildren(t) + 1
  BY <1>1, <1>3, ChildrenFinite, FS_AddElement DEF LiveChildren, Children
<1>7. CASE x = t
  <2>1. LiveChildren(t) < SpawnLimit
    BY DEF Spawn, SpawnAdmits
  <2>. QED BY <2>1, <1>1, <1>6, <1>7, ChildrenFinite, EnvAssumption
<1>8. CASE x = size
  <2>1. Children(x)' = {}
    BY <1>1, <1>4, <1>5, <1>8
  <2>2. LiveChildren(x)' = 0
    BY <2>1, FS_EmptySet DEF LiveChildren, Children
  <2>. QED BY <2>2, EnvAssumption
<1>9. CASE x \in Born /\ x # t
  BY <1>1, <1>4, <1>9 DEF LiveChildren, Children, SpawnBudget
<1>. QED BY <1>1, <1>7, <1>8, <1>9

(* Conc.spawnAdmits: under the fallible policy, and without transfers, no  *)
(* thread ever has more unconsumed children than its budget.               *)
THEOREM BudgetKept == ~CanTransfer => (Spec => []SpawnBudget)
<1> SUFFICES ASSUME ~CanTransfer PROVE Spec => []SpawnBudget
  OBVIOUS
<1>1. Init => SpawnBudget
  <2> SUFFICES ASSUME Init, NEW t \in Born PROVE LiveChildren(t) <= SpawnLimit
    BY DEF SpawnBudget
  <2>1. \A u \in Born : joined[u]
    <3>1. \A u \in Born : u = 0 /\ u \in Thread
      BY ThreadAssumption DEF Init, Born
    <3>. QED BY <3>1 DEF Init
  <2>2. {u \in Born : owner[u] = t /\ ~joined[u]} = {}
    BY <2>1
  <2>. QED BY <2>2, FS_EmptySet, EnvAssumption DEF LiveChildren
<1>2. TypeOK /\ SpawnBudget /\ [Next]_vars => SpawnBudget'
  <2> SUFFICES ASSUME TypeOK, SpawnBudget, [Next]_vars PROVE SpawnBudget'
    OBVIOUS
  <2>1. ASSUME UNCHANGED table PROVE SpawnBudget'
    BY <2>1 DEF SpawnBudget, LiveChildren, Born, table
  <2>2. CASE \E t \in Thread : \E u \in Thread : Detach(t, u)
    BY <2>1, <2>2, ConsumeKeepsBudget DEF Detach, Fail
  <2>3. CASE \E t \in Thread : Join(t)
    BY <2>3, ConsumeKeepsBudget DEF Join, TypeOK
  <2>4. ASSUME NEW t \in Thread, Spawn(t) PROVE SpawnBudget'
    BY <2>4, SpawnKeepsBudget
  <2>. QED
    BY <2>1, <2>2, <2>3, <2>4
    DEF Next, vars, table, Op, SchedulerTurn, Access, Free, TransferHandle, Yield,
        StopAtSpawn, StopAtJoin, StopAt, End, Resume, SpawnFails, JoinFails, Fail
<1>. QED BY <1>1, <1>2, TypeCorrect, PTL DEF Spec

-----------------------------------------------------------------------------
(***************************************************************************)
(* The invariant.  A thread's own entry numbers its steps and nobody knows *)
(* more of them than itself, so one entry of a clock decides the order:    *)
(* whoever has reached the number of an access has reached all of it.      *)
(***************************************************************************)

Ids == {Id(e) : e \in footprint}

PastTypes == past \in [Thread -> SUBSET Ids]

(* No thread is ahead of another in the other's own entry. *)
OwnIsAhead == \A t, u \in Thread : clocks[u][t] <= clocks[t][t]

(* Who has reached the number of an access has reached the access. *)
ReachedWhole ==
  \A e \in footprint, t \in Born :
    e.clock[e.tid] <= clocks[t][e.tid] => ClockLe(e.clock, clocks[t])

ClocksArePast ==
  \A e \in footprint, t \in Born : ClockLe(e.clock, clocks[t]) <=> Id(e) \in past[t]

(* Accesses with ordered clocks are ordered in the history. *)
OrderIsRecorded ==
  \A e, f \in footprint :
    e # f /\ ClockLe(e.clock, f.clock) => <<Id(e), Id(f)>> \in order

(* What the scans of the accesses have excluded. *)
NoneConcurrent ==
  NoneReleased =>
    \A e, f \in footprint :
      e.loc = f.loc /\ "write" \in {e.kind, f.kind} /\ e # f => ~Concurrent(e.clock, f.clock)

(* The thread that joined another keeps its handle and covers its clock. *)
OwnerCovers ==
  \A u \in Born \ {0} :
    joined[u] /\ ~released[u] => pc[u] = "done" /\ ClockLe(clocks[u], clocks[owner[u]])

(* What holds of the ids that are not in use yet, and of main. *)
Unborn ==
  /\ \A t \in Thread \ Born : ~released[t] /\ clocks[t] = ZeroClock
  /\ owner[0] = 0

HBInv ==
  /\ Cover
  /\ Handles
  /\ PastTypes
  /\ OwnIsAhead
  /\ ReachedWhole
  /\ ClocksArePast
  /\ OrderIsRecorded
  /\ NoneConcurrent
  /\ OwnerCovers
  /\ Unborn

LEMMA HStepIsStep == HNext => Next
BY ThreadAssumption
DEF HNext, HAccess, HSpawn, HJoin, HQuiet, Next, Op, SchedulerTurn

LEMMA EntryFacts ==
  ASSUME Cover, NEW e \in footprint
  PROVE  /\ e.tid \in Born /\ e.tid \in Thread
         /\ e.clock \in Clock /\ clocks[e.tid] \in Clock
         /\ ClockLe(e.clock, clocks[e.tid])
BY DEF Cover, TypeOK, Entry, FootprintCovered, Born

LEMMA BumpEntries ==
  ASSUME NEW c \in Clock, NEW t \in Thread
  PROVE  Bump(c, t)[t] = c[t] + 1 /\ \A u \in Thread : u # t => Bump(c, t)[u] = c[u]
BY DEF Bump, Clock

(* A recorded access knows no more steps of a thread than the thread. *)
LEMMA AccessNotAhead ==
  ASSUME Cover, OwnIsAhead, NEW e \in footprint, NEW t \in Thread
  PROVE  e.clock[t] <= clocks[t][t]
<1>1. e.clock \in Clock /\ clocks[e.tid] \in Clock /\ clocks[t] \in Clock /\ e.tid \in Thread
  BY EntryFacts DEF Cover, TypeOK
<1>2. e.clock[t] <= clocks[e.tid][t]
  BY EntryFacts DEF ClockLe
<1>3. clocks[e.tid][t] <= clocks[t][t]
  BY <1>1 DEF OwnIsAhead
<1>4. e.clock[t] \in Nat /\ clocks[e.tid][t] \in Nat /\ clocks[t][t] \in Nat
  BY <1>1 DEF Clock
<1>. QED BY <1>2, <1>3, <1>4

(* A step of its own tells a thread nothing of the recorded accesses. *)
LEMMA BumpSeesNoMore ==
  ASSUME Cover, OwnIsAhead, ReachedWhole, NEW e \in footprint, NEW t \in Born
  PROVE  /\ ClockLe(e.clock, Bump(clocks[t], t)) <=> ClockLe(e.clock, clocks[t])
         /\ e.clock[e.tid] <= Bump(clocks[t], t)[e.tid] => ClockLe(e.clock, clocks[t])
<1> DEFINE c == Bump(clocks[t], t)
<1>1. t \in Thread /\ clocks[t] \in Clock /\ e.clock \in Clock /\ e.tid \in Thread
  BY EntryFacts DEF Born, Cover, TypeOK
<1>2. c \in Clock /\ ClockLe(clocks[t], c) /\ \A u \in Thread : u # t => c[u] = clocks[t][u]
  BY <1>1, BumpGrows, BumpEntries
<1>3. e.clock[t] <= clocks[t][t]
  BY <1>1, AccessNotAhead
<1> HIDE DEF c
<1>4. ClockLe(e.clock, c) => ClockLe(e.clock, clocks[t])
  BY <1>2, <1>3 DEF ClockLe
<1>5. ClockLe(e.clock, clocks[t]) => ClockLe(e.clock, c)
  BY <1>1, <1>2, ClockLeTrans
<1>6. e.clock[e.tid] <= c[e.tid] => ClockLe(e.clock, clocks[t])
  BY <1>1, <1>2, <1>3 DEF ReachedWhole
<1>. QED BY <1>4, <1>5, <1>6 DEF c

(***************************************************************************)
(* One lemma per kind of step.                                             *)
(***************************************************************************)

(* Steps that leave the clocks and the history alone, keep the joined      *)
(* handles where they are and revive no thread.                            *)
LEMMA QuietKeepsHB ==
  ASSUME HBInv, Cover', Handles', UNCHANGED <<size, clocks, footprint, past, order>>,
         \A x \in Thread : pc[x] = "done" => pc'[x] = "done",
         \A x \in Thread : released[x] => released'[x],
         \A x \in Thread : x \notin Born => released'[x] = released[x],
         \A x \in Born : joined[x] => joined'[x] /\ owner'[x] = owner[x],
         \A x \in Born : joined'[x] /\ ~joined[x] => released'[x]
  PROVE  HBInv'
<1>1. Born' = Born /\ Born \subseteq Thread /\ Ids' = Ids /\ 0 \in Born
  BY ThreadAssumption DEF Born, Ids, Id, HBInv, Cover, TypeOK
<1>2. PastTypes' /\ OwnIsAhead' /\ ReachedWhole' /\ ClocksArePast' /\ OrderIsRecorded'
  BY <1>1 DEF HBInv, PastTypes, OwnIsAhead, ReachedWhole, ClocksArePast, OrderIsRecorded, ClockLe, Id
<1>3. NoneConcurrent'
  <2>1. NoneReleased' => NoneReleased
    BY DEF NoneReleased
  <2>. QED BY <2>1 DEF HBInv, NoneConcurrent, Concurrent, ClockLe
<1>4. OwnerCovers'
  <2> SUFFICES ASSUME NEW u \in Born \ {0}, joined'[u], ~released'[u]
               PROVE  pc'[u] = "done" /\ ClockLe(clocks'[u], clocks'[owner'[u]])
    BY <1>1 DEF OwnerCovers, ClockLe
  <2>1. joined[u] /\ ~released[u]
    BY <1>1
  <2>2. pc[u] = "done" /\ ClockLe(clocks[u], clocks[owner[u]])
    BY <2>1 DEF HBInv, OwnerCovers
  <2>. QED BY <2>1, <2>2, <1>1
<1>5. Unborn'
  BY <1>1 DEF HBInv, Unborn, Handles, MainHandle
<1>. QED BY <1>2, <1>3, <1>4, <1>5 DEF HBInv

(* The new access has a number that nobody has seen. *)
LEMMA AccessKeepsHB ==
  ASSUME HBInv, Cover', Handles', NEW t \in Thread, NEW l \in Loc, NEW k \in {"read", "write"},
         Running(t), HAccess(t, l, k), RecordAccess(t, l, k), UNCHANGED <<table, live, pc>>
  PROVE  HBInv'
<1> DEFINE c == Bump(clocks[t], t)
<1> DEFINE f == [tid |-> t, clock |-> c, loc |-> l, kind |-> k]
<1>1. /\ Born' = Born /\ Born \subseteq Thread /\ t \in Born /\ 0 \in Born
      /\ Cover /\ TypeOK /\ OwnIsAhead /\ ReachedWhole
      /\ UNCHANGED <<joined, released, owner, pc>>
  BY ThreadAssumption DEF Born, table, Running, HBInv, Cover, TypeOK
<1>2. /\ clocks[t] \in Clock /\ c \in Clock /\ ClockLe(clocks[t], c)
      /\ c[t] = clocks[t][t] + 1 /\ \A u \in Thread : u # t => c[u] = clocks[t][u]
      /\ clocks[t][t] \in Nat
  <2>1. clocks[t] \in Clock
    BY <1>1 DEF TypeOK
  <2>2. clocks[t][t] \in Nat
    BY <2>1 DEF Clock
  <2>. QED BY <2>1, <2>2, BumpGrows, BumpEntries
<1>3. /\ clocks' = [clocks EXCEPT ![t] = c] /\ footprint' = footprint \cup {f}
      /\ clocks \in [Thread -> Clock]
  BY <1>1 DEF RecordAccess, TypeOK
<1>4. clocks'[t] = c /\ \A u \in Thread : u # t => clocks'[u] = clocks[u]
  BY <1>3
<1> HIDE DEF c
<1>5. f.tid = t /\ f.clock = c /\ f.loc = l /\ f.kind = k /\ Id(f) = <<t, c[t]>>
  BY DEF Id
<1> HIDE DEF f
<1>6. ASSUME NEW e \in footprint
      PROVE  /\ e.clock[t] \in Nat /\ e.clock[t] < c[t] /\ e # f /\ Id(e) # Id(f)
             /\ ~ClockLe(f.clock, e.clock)
             /\ (ClockLe(e.clock, c) <=> ClockLe(e.clock, clocks[t]))
             /\ (e.clock[e.tid] <= c[e.tid] => ClockLe(e.clock, clocks[t]))
  <2>1. e.clock \in Clock /\ e.clock[t] \in Nat /\ e.tid \in Thread
    BY <1>1, EntryFacts DEF Clock
  <2>2. e.clock[t] < c[t]
    BY <1>1, <1>2, <2>1, AccessNotAhead
  <2>3. e # f /\ ~ClockLe(f.clock, e.clock)
    BY <1>2, <1>5, <2>1, <2>2 DEF ClockLe
  <2>4. Id(e) # Id(f)
    BY <1>5, <2>2, <2>1, <1>2 DEF Id
  <2>. QED BY <1>1, <2>1, <2>2, <2>3, <2>4, BumpSeesNoMore DEF c
<1>7. f \in footprint' /\ f \notin footprint
  BY <1>3, <1>6
<1>8. /\ past' = [past EXCEPT ![t] = @ \cup {Id(f)}]
      /\ order' = order \cup (past[t] \X {Id(f)})
      /\ past \in [Thread -> SUBSET Ids]
  <2>1. {Id(e) : e \in footprint' \ footprint} = {Id(f)}
    BY <1>3, <1>7
  <2>. QED BY <2>1 DEF HAccess, HBInv, PastTypes
<1>9. /\ past'[t] = past[t] \cup {Id(f)} /\ \A u \in Thread : u # t => past'[u] = past[u]
      /\ Ids' = Ids \cup {Id(f)} /\ Id(f) \notin Ids
  <2>1. Ids' = {Id(e) : e \in footprint'}
    BY DEF Ids, Id
  <2>2. Ids' = Ids \cup {Id(f)}
    BY <2>1, <1>3 DEF Ids
  <2>. QED BY <2>2, <1>6, <1>8 DEF Ids
<1>10. PastTypes'
  <2>1. \A u \in Thread : past'[u] \subseteq Ids'
    BY <1>8, <1>9
  <2>. QED BY <2>1, <1>8 DEF PastTypes
<1>11. OwnIsAhead'
  <2> SUFFICES ASSUME NEW x \in Thread, NEW u \in Thread PROVE clocks'[u][x] <= clocks'[x][x]
    BY DEF OwnIsAhead
  <2>1. clocks[u][x] <= clocks[x][x] /\ clocks[u][x] \in Nat /\ clocks[x][x] \in Nat
    BY <1>1, <1>3 DEF OwnIsAhead, Clock
  <2>. QED BY <2>1, <1>2, <1>4
<1>12. ReachedWhole'
  <2> SUFFICES ASSUME NEW e \in footprint', NEW u \in Born, e.clock[e.tid] <= clocks'[u][e.tid]
               PROVE  ClockLe(e.clock, clocks'[u])
    BY <1>1 DEF ReachedWhole, ClockLe
  <2>1. CASE e \in footprint /\ u = t
    BY <2>1, <1>4, <1>6
  <2>2. CASE e \in footprint /\ u # t
    BY <2>2, <1>1, <1>4 DEF ReachedWhole
  <2>3. CASE e = f /\ u = t
    BY <2>3, <1>2, <1>4, <1>5, ClockLeRefl
  <2>4. CASE e = f /\ u # t
    <3>1. clocks[u][t] <= clocks[t][t] /\ clocks[u][t] \in Nat
      BY <1>1, <1>3 DEF OwnIsAhead, Clock
    <3>. QED BY <3>1, <2>4, <1>1, <1>2, <1>4, <1>5
  <2>. QED BY <2>1, <2>2, <2>3, <2>4, <1>3
<1>13. ClocksArePast'
  <2> SUFFICES ASSUME NEW e \in footprint', NEW u \in Born
               PROVE  ClockLe(e.clock, clocks'[u]) <=> Id(e) \in past'[u]
    BY <1>1 DEF ClocksArePast, ClockLe, Id
  <2>1. CASE e \in footprint /\ u = t
    BY <2>1, <1>1, <1>4, <1>6, <1>9 DEF HBInv, ClocksArePast
  <2>2. CASE e \in footprint /\ u # t
    BY <2>2, <1>1, <1>4, <1>9 DEF HBInv, ClocksArePast
  <2>3. CASE e = f /\ u = t
    BY <2>3, <1>2, <1>4, <1>5, <1>9, ClockLeRefl
  <2>4. CASE e = f /\ u # t
    <3>1. clocks[u][t] <= clocks[t][t] /\ clocks[u][t] \in Nat
      BY <1>1, <1>3 DEF OwnIsAhead, Clock
    <3>2. ~ClockLe(f.clock, clocks'[u])
      BY <3>1, <2>4, <1>1, <1>2, <1>4, <1>5 DEF ClockLe
    <3>3. Id(f) \notin past[u]
      BY <1>1, <1>8, <1>9
    <3>. QED BY <3>2, <3>3, <2>4, <1>1, <1>9
  <2>. QED BY <2>1, <2>2, <2>3, <2>4, <1>3
<1>14. OrderIsRecorded'
  <2> SUFFICES ASSUME NEW e \in footprint', NEW g \in footprint', e # g, ClockLe(e.clock, g.clock)
               PROVE  <<Id(e), Id(g)>> \in order'
    BY DEF OrderIsRecorded, ClockLe, Id
  <2>1. CASE e \in footprint /\ g \in footprint
    BY <2>1, <1>8 DEF HBInv, OrderIsRecorded
  <2>2. CASE e \in footprint /\ g = f
    <3>1. Id(e) \in past[t]
      BY <2>2, <1>1, <1>5, <1>6 DEF HBInv, ClocksArePast
    <3>. QED BY <3>1, <2>2, <1>8
  <2>. QED BY <2>1, <2>2, <1>3, <1>6
<1>15. NoneConcurrent'
  <2> SUFFICES ASSUME NoneReleased', NEW e \in footprint', NEW g \in footprint', e.loc = g.loc,
                      "write" \in {e.kind, g.kind}, e # g
               PROVE  ~Concurrent(e.clock, g.clock)
    BY DEF NoneConcurrent, Concurrent, ClockLe
  <2>1. NoneReleased
    BY <1>1 DEF NoneReleased
  <2>2. ASSUME NEW h \in footprint, h.loc = l, "write" \in {h.kind, k} PROVE ~Concurrent(h.clock, c)
    <3>1. RacePair(h.kind, k)
      BY <2>2 DEF RacePair, IsWrite, IsAtomic
    <3>2. ~RaceAt(c, l, k)
      <4>1. k \in AccessKind
        BY DEF AccessKind
      <4>2. CASE Solo
        <5>1. t = 0
          BY <4>2 DEF Solo, HBInv, Handles, RunIsCurrent, Running
        <5>. QED BY <5>1, <4>1, <4>2, <2>1, <1>1, CoverSkips DEF SoloSkipSound, c
      <4>3. CASE ~Solo
        BY <4>3 DEF RecordAccess, RaceCheck, c
      <4>. QED BY <4>2, <4>3
    <3>. QED BY <2>2, <3>1, <3>2 DEF RaceAt
  <2>3. CASE e \in footprint /\ g \in footprint
    BY <2>1, <2>3 DEF HBInv, NoneConcurrent
  <2>4. CASE e \in footprint /\ g = f
    BY <2>2, <2>4, <1>5
  <2>5. CASE e = f /\ g \in footprint
    BY <2>2, <2>5, <1>5 DEF Concurrent
  <2>. QED BY <2>3, <2>4, <2>5, <1>3
<1>16. OwnerCovers'
  <2> SUFFICES ASSUME NEW u \in Born \ {0}, joined[u], ~released[u]
               PROVE  pc[u] = "done" /\ ClockLe(clocks'[u], clocks'[owner[u]])
    BY <1>1 DEF OwnerCovers, ClockLe
  <2>1. pc[u] = "done" /\ ClockLe(clocks[u], clocks[owner[u]])
    BY DEF HBInv, OwnerCovers
  <2>2. u # t /\ owner[u] \in Thread /\ clocks'[u] = clocks[u] /\ clocks[u] \in Clock
    BY <1>1, <1>3, <1>4, <2>1 DEF Running, TypeOK
  <2>. QED BY <2>1, <2>2, <1>2, <1>3, <1>4, ClockLeTrans
<1>17. Unborn'
  BY <1>1, <1>4 DEF HBInv, Unborn
<1>. QED BY <1>10, <1>11, <1>12, <1>13, <1>14, <1>15, <1>16, <1>17 DEF HBInv

(* The child knows what its parent knows. *)
LEMMA SpawnKeepsHB ==
  ASSUME HBInv, Cover', Handles', NEW t \in Thread, HSpawn(t)
  PROVE  HBInv'
<1> DEFINE c == Bump(clocks[t], t)
<1>1. /\ Born' = Born \cup {size} /\ size \notin Born /\ Born \subseteq Thread
      /\ size \in Thread /\ t \in Born /\ t # size /\ 0 \in Born
      /\ Cover /\ TypeOK /\ OwnIsAhead /\ ReachedWhole /\ Spawn(t)
  BY BornGrows, ThreadAssumption DEF HSpawn, Spawn, Turn, HBInv, Cover, TypeOK, Born
<1>2. /\ clocks[t] \in Clock /\ c \in Clock /\ ClockLe(clocks[t], c)
      /\ c[t] = clocks[t][t] + 1 /\ \A u \in Thread : u # t => c[u] = clocks[t][u]
      /\ clocks[t][t] \in Nat
  <2>1. clocks[t] \in Clock
    BY <1>1 DEF TypeOK
  <2>2. clocks[t][t] \in Nat
    BY <2>1, <1>1 DEF Clock
  <2>. QED BY <2>1, <2>2, <1>1, BumpGrows, BumpEntries
<1>3. /\ clocks' = [clocks EXCEPT ![t] = c, ![size] = c] /\ footprint' = footprint
      /\ clocks \in [Thread -> Clock]
      /\ past' = [past EXCEPT ![size] = past[t]] /\ past \in [Thread -> SUBSET Ids]
      /\ order' = order
  BY <1>1 DEF HSpawn, Spawn, TypeOK, HBInv, PastTypes
<1>4. /\ clocks'[t] = c /\ clocks'[size] = c
      /\ \A u \in Thread : u # t /\ u # size => clocks'[u] = clocks[u]
      /\ past'[size] = past[t] /\ \A u \in Thread : u # size => past'[u] = past[u]
  BY <1>1, <1>3
<1>5. /\ \A x \in Born : joined'[x] = joined[x] /\ released'[x] = released[x] /\ owner'[x] = owner[x]
      /\ ~joined'[size] /\ ~released'[size]
      /\ \A x \in Born : x # t => pc'[x] = pc[x]
      /\ \A x \in Thread : x # size => released'[x] = released[x]
      /\ pc[t] # "done"
  <2>1. /\ joined' = [joined EXCEPT ![size] = FALSE] /\ released' = [released EXCEPT ![size] = FALSE]
        /\ owner' = [owner EXCEPT ![size] = t]
        /\ pc' = [pc EXCEPT ![t] = "run", ![size] = "yield"] /\ pc[t] = "spawn"
    BY <1>1 DEF Spawn, Turn
  <2>2. \A x \in Born : x \in Thread /\ x # size
    BY <1>1
  <2>3. \A x \in Born : owner'[x] = owner[x]
    BY <2>1, <2>2, <1>1 DEF TypeOK
  <2>4. \A x \in Born : joined'[x] = joined[x]
    BY <2>1, <2>2, <1>1 DEF TypeOK
  <2>5. /\ \A x \in Thread : x # size => released'[x] = released[x]
        /\ ~joined'[size] /\ ~released'[size]
    BY <2>1, <1>1 DEF TypeOK
  <2>6. \A x \in Born : x # t => pc'[x] = pc[x]
    BY <2>1, <2>2, <1>1 DEF TypeOK
  <2>. QED BY <2>1, <2>2, <2>3, <2>4, <2>5, <2>6
<1>6. ASSUME NEW e \in footprint
      PROVE  /\ (ClockLe(e.clock, c) <=> ClockLe(e.clock, clocks[t]))
             /\ (e.clock[e.tid] <= c[e.tid] => ClockLe(e.clock, clocks[t]))
  BY <1>1, BumpSeesNoMore
<1>7. Ids' = Ids
  BY <1>3 DEF Ids, Id
<1> HIDE DEF c
<1>8. PastTypes'
  BY <1>3, <1>7, <1>1 DEF PastTypes
<1>9. OwnIsAhead'
  <2> SUFFICES ASSUME NEW x \in Thread, NEW u \in Thread PROVE clocks'[u][x] <= clocks'[x][x]
    BY DEF OwnIsAhead
  <2>1. \A y \in Thread : /\ clocks[y][x] <= clocks[x][x]
                          /\ clocks[y][x] \in Nat /\ clocks[x][x] \in Nat
    BY <1>1, <1>3 DEF OwnIsAhead, Clock
  <2>2. clocks[size][x] = 0 /\ \A y \in Thread : clocks[y][size] = 0
    <3>1. clocks[size] = ZeroClock
      BY <1>1 DEF HBInv, Unborn
    <3>2. clocks[size][x] = 0 /\ clocks[size][size] = 0
      BY <3>1, <1>1 DEF ZeroClock
    <3>3. \A y \in Thread : clocks[y][size] <= 0 /\ clocks[y][size] \in Nat
      BY <3>2, <1>1, <1>3 DEF OwnIsAhead, Clock
    <3>. QED BY <3>2, <3>3
  <2>3. CASE x = t
    BY <2>1, <2>3, <1>1, <1>2, <1>4
  <2>4. CASE x = size
    BY <2>1, <2>2, <2>4, <1>1, <1>2, <1>4
  <2>5. CASE x # t /\ x # size
    BY <2>1, <2>5, <1>1, <1>2, <1>4
  <2>. QED BY <2>3, <2>4, <2>5
<1>10. ReachedWhole'
  <2> SUFFICES ASSUME NEW e \in footprint, NEW u \in Born', e.clock[e.tid] <= clocks'[u][e.tid]
               PROVE  ClockLe(e.clock, clocks'[u])
    BY <1>3 DEF ReachedWhole, ClockLe
  <2>1. CASE u = t \/ u = size
    BY <2>1, <1>4, <1>6
  <2>2. CASE u \in Born /\ u # t /\ u # size
    BY <2>2, <1>1, <1>4 DEF ReachedWhole
  <2>. QED BY <2>1, <2>2, <1>1
<1>11. ClocksArePast'
  <2> SUFFICES ASSUME NEW e \in footprint, NEW u \in Born'
               PROVE  ClockLe(e.clock, clocks'[u]) <=> Id(e) \in past'[u]
    BY <1>3 DEF ClocksArePast, ClockLe, Id
  <2>0. ClockLe(e.clock, c) <=> Id(e) \in past[t]
    BY <1>1, <1>6 DEF HBInv, ClocksArePast
  <2>1. CASE u = t \/ u = size
    BY <2>0, <2>1, <1>1, <1>4
  <2>2. CASE u \in Born /\ u # t /\ u # size
    BY <2>2, <1>1, <1>4 DEF HBInv, ClocksArePast
  <2>. QED BY <2>1, <2>2, <1>1
<1>12. OrderIsRecorded'
  BY <1>3 DEF HBInv, OrderIsRecorded, ClockLe, Id
<1>13. NoneConcurrent'
  <2>1. NoneReleased' => NoneReleased
    BY <1>1, <1>5 DEF NoneReleased, HBInv, Unborn
  <2>. QED BY <2>1, <1>3 DEF HBInv, NoneConcurrent, Concurrent, ClockLe
<1>14. OwnerCovers'
  <2> SUFFICES ASSUME NEW u \in Born' \ {0}, joined'[u], ~released'[u]
               PROVE  pc'[u] = "done" /\ ClockLe(clocks'[u], clocks'[owner'[u]])
    BY DEF OwnerCovers, ClockLe
  <2>1. u \in Born /\ joined[u] /\ ~released[u] /\ owner'[u] = owner[u]
    BY <1>1, <1>5
  <2>2. pc[u] = "done" /\ ClockLe(clocks[u], clocks[owner[u]])
    BY <2>1 DEF HBInv, OwnerCovers
  <2>3. u # t /\ u # size /\ owner[u] \in Born /\ owner[u] # size /\ owner[u] \in Thread
    BY <2>1, <2>2, <1>1, <1>5 DEF TypeOK
  <2>4. clocks'[u] = clocks[u] /\ clocks[u] \in Clock /\ pc'[u] = "done"
    BY <2>1, <2>2, <2>3, <1>1, <1>3, <1>4, <1>5
  <2>5. CASE owner[u] = t
    BY <2>1, <2>2, <2>4, <2>5, <1>2, <1>4, ClockLeTrans
  <2>6. CASE owner[u] # t
    BY <2>1, <2>2, <2>3, <2>4, <2>6, <1>4
  <2>. QED BY <2>5, <2>6
<1>15. Unborn'
  BY <1>1, <1>4, <1>5 DEF HBInv, Unborn
<1>. QED
  BY <1>3, <1>8, <1>9, <1>10, <1>11, <1>12, <1>13, <1>14, <1>15 DEF HBInv

(* The joiner knows what it knew and what the ended thread knew. *)
LEMMA JoinKeepsHB ==
  ASSUME HBInv, Cover', Handles', NEW t \in Thread, HJoin(t)
  PROVE  HBInv'
<1> DEFINE w == target[t]
<1> DEFINE b == Bump(clocks[t], t)
<1> DEFINE c == Merge(b, clocks[w])
<1>1. /\ Born' = Born /\ Born \subseteq Thread /\ t \in Born /\ w \in Born /\ 0 \in Born
      /\ pc[w] = "done" /\ pc[t] = "join" /\ t # w /\ owner[w] = t
      /\ Cover /\ TypeOK /\ OwnIsAhead /\ ReachedWhole /\ Join(t)
  BY ThreadAssumption DEF HJoin, Join, Turn, CanGo, JoinValid, HBInv, Cover, TypeOK, Born
<1>2. /\ clocks[t] \in Clock /\ clocks[w] \in Clock /\ b \in Clock /\ ClockLe(clocks[t], b)
      /\ b[t] = clocks[t][t] + 1 /\ \A u \in Thread : u # t => b[u] = clocks[t][u]
      /\ c \in Clock /\ ClockLe(b, c) /\ ClockLe(clocks[w], c) /\ ClockLe(clocks[t], c)
      /\ \A u \in Thread : c[u] = b[u] \/ c[u] = clocks[w][u]
  <2>1. clocks[t] \in Clock /\ clocks[w] \in Clock
    BY <1>1 DEF TypeOK
  <2>2. /\ b \in Clock /\ ClockLe(clocks[t], b)
        /\ b[t] = clocks[t][t] + 1 /\ \A u \in Thread : u # t => b[u] = clocks[t][u]
    BY <2>1, BumpGrows, BumpEntries
  <2>3. c \in Clock /\ ClockLe(b, c) /\ ClockLe(clocks[w], c)
    BY <2>1, <2>2, MergeIsAbove
  <2>4. ClockLe(clocks[t], c)
    BY <2>1, <2>2, <2>3, ClockLeTrans
  <2>5. \A u \in Thread : c[u] = b[u] \/ c[u] = clocks[w][u]
    BY DEF Merge
  <2>. QED BY <2>1, <2>2, <2>3, <2>4, <2>5
<1>3. /\ clocks' = [clocks EXCEPT ![t] = c] /\ footprint' = footprint
      /\ clocks \in [Thread -> Clock]
      /\ past' = [past EXCEPT ![t] = @ \cup past[w]] /\ past \in [Thread -> SUBSET Ids]
      /\ order' = order
  BY <1>1 DEF HJoin, Join, TypeOK, HBInv, PastTypes
<1>4. /\ clocks'[t] = c /\ \A u \in Thread : u # t => clocks'[u] = clocks[u]
      /\ past'[t] = past[t] \cup past[w] /\ \A u \in Thread : u # t => past'[u] = past[u]
  BY <1>1, <1>3
<1>5. /\ UNCHANGED <<size, owner, released>>
      /\ joined' = [joined EXCEPT ![w] = TRUE]
      /\ \A x \in Thread : x # w => joined'[x] = joined[x]
      /\ \A x \in Thread : pc[x] = "done" => pc'[x] = "done"
  BY <1>1 DEF Join, TypeOK
<1>6. ASSUME NEW e \in footprint
      PROVE  /\ (ClockLe(e.clock, b) <=> ClockLe(e.clock, clocks[t]))
             /\ (e.clock[e.tid] <= b[e.tid] => ClockLe(e.clock, clocks[t]))
  BY <1>1, BumpSeesNoMore
<1> HIDE DEF b
<1>7. ASSUME NEW e \in footprint
      PROVE  /\ e.clock[e.tid] <= c[e.tid] => ClockLe(e.clock, clocks[t]) \/ ClockLe(e.clock, clocks[w])
             /\ ClockLe(e.clock, c) <=> ClockLe(e.clock, clocks[t]) \/ ClockLe(e.clock, clocks[w])
  <2>1. e.clock \in Clock /\ e.tid \in Thread
    BY <1>1, EntryFacts
  <2>2. e.clock[e.tid] <= c[e.tid] => ClockLe(e.clock, clocks[t]) \/ ClockLe(e.clock, clocks[w])
    <3>1. CASE c[e.tid] = b[e.tid]
      BY <3>1, <1>6
    <3>2. CASE c[e.tid] = clocks[w][e.tid]
      BY <3>2, <1>1 DEF ReachedWhole
    <3>. QED BY <3>1, <3>2, <2>1, <1>2
  <2>3. ClockLe(e.clock, c) => e.clock[e.tid] <= c[e.tid]
    BY <2>1 DEF ClockLe
  <2>4. ClockLe(e.clock, clocks[t]) \/ ClockLe(e.clock, clocks[w]) => ClockLe(e.clock, c)
    BY <2>1, <1>2, ClockLeTrans
  <2>. QED BY <2>2, <2>3, <2>4
<1>8. Ids' = Ids
  BY <1>3 DEF Ids, Id
<1> HIDE DEF c, w
<1>9. PastTypes'
  BY <1>1, <1>3, <1>8 DEF PastTypes
<1>10. OwnIsAhead'
  <2> SUFFICES ASSUME NEW x \in Thread, NEW u \in Thread PROVE clocks'[u][x] <= clocks'[x][x]
    BY DEF OwnIsAhead
  <2>1. \A y \in Thread : /\ clocks[y][x] <= clocks[x][x]
                          /\ clocks[y][x] \in Nat /\ clocks[x][x] \in Nat
    BY <1>1, <1>3 DEF OwnIsAhead, Clock
  <2>2. c[x] \in Nat /\ (c[x] <= c[t] \/ x # t)
    BY <1>2 DEF Clock
  <2>3. CASE x = t
    <3>1. b[t] <= c[t] /\ c[t] \in Nat /\ b[t] \in Nat
      BY <1>2 DEF ClockLe, Clock
    <3>. QED BY <3>1, <2>1, <2>3, <1>2, <1>4
  <2>4. CASE x # t
    <3>1. c[x] <= clocks[x][x]
      BY <2>1, <2>4, <1>1, <1>2
    <3>. QED BY <3>1, <2>1, <2>4, <1>4
  <2>. QED BY <2>3, <2>4
<1>11. ReachedWhole'
  <2> SUFFICES ASSUME NEW e \in footprint, NEW u \in Born, e.clock[e.tid] <= clocks'[u][e.tid]
               PROVE  ClockLe(e.clock, clocks'[u])
    BY <1>1, <1>3 DEF ReachedWhole, ClockLe
  <2>1. CASE u = t
    BY <2>1, <1>4, <1>7
  <2>2. CASE u # t
    BY <2>2, <1>1, <1>4 DEF ReachedWhole
  <2>. QED BY <2>1, <2>2
<1>12. ClocksArePast'
  <2> SUFFICES ASSUME NEW e \in footprint, NEW u \in Born
               PROVE  ClockLe(e.clock, clocks'[u]) <=> Id(e) \in past'[u]
    BY <1>1, <1>3 DEF ClocksArePast, ClockLe, Id
  <2>1. \A x \in Born : ClockLe(e.clock, clocks[x]) <=> Id(e) \in past[x]
    BY DEF HBInv, ClocksArePast
  <2>2. CASE u = t
    BY <2>1, <2>2, <1>1, <1>4, <1>7
  <2>3. CASE u # t
    BY <2>1, <2>3, <1>1, <1>4
  <2>. QED BY <2>2, <2>3
<1>13. OrderIsRecorded'
  BY <1>3 DEF HBInv, OrderIsRecorded, ClockLe, Id
<1>14. NoneConcurrent'
  <2>1. NoneReleased' => NoneReleased
    BY <1>5 DEF NoneReleased
  <2>. QED BY <2>1, <1>3 DEF HBInv, NoneConcurrent, Concurrent, ClockLe
<1>15. OwnerCovers'
  <2> SUFFICES ASSUME NEW u \in Born \ {0}, joined'[u], ~released[u]
               PROVE  pc'[u] = "done" /\ ClockLe(clocks'[u], clocks'[owner[u]])
    BY <1>1, <1>5 DEF OwnerCovers, ClockLe
  <2>1. CASE u = w
    <3>1. clocks'[u] = clocks[w] /\ owner[u] = t /\ pc'[u] = "done"
      BY <2>1, <1>1, <1>4, <1>5 DEF w
    <3>. QED BY <3>1, <1>2, <1>4
  <2>2. CASE u # w
    <3>1. joined[u] /\ u \in Thread
      BY <2>2, <1>1, <1>5
    <3>2. pc[u] = "done" /\ ClockLe(clocks[u], clocks[owner[u]])
      BY <3>1 DEF HBInv, OwnerCovers
    <3>3. u # t /\ owner[u] \in Thread /\ clocks'[u] = clocks[u] /\ clocks[u] \in Clock /\ pc'[u] = "done"
      BY <3>1, <3>2, <1>1, <1>3, <1>4, <1>5 DEF TypeOK
    <3>4. CASE owner[u] = t
      BY <3>2, <3>3, <3>4, <1>2, <1>4, ClockLeTrans
    <3>5. CASE owner[u] # t
      BY <3>2, <3>3, <3>5, <1>4
    <3>. QED BY <3>3, <3>4, <3>5
  <2>. QED BY <2>1, <2>2
<1>16. Unborn'
  BY <1>1, <1>4, <1>5 DEF HBInv, Unborn
<1>. QED
  BY <1>9, <1>10, <1>11, <1>12, <1>13, <1>14, <1>15, <1>16 DEF HBInv

LEMMA HQuietKeepsHB ==
  ASSUME HBInv, Cover', Handles', NEW t \in Thread, HQuiet(t)
  PROVE  HBInv'
<1> USE DEF table, memory
<1>1. UNCHANGED <<past, order>> /\ TypeOK /\ Born \subseteq Thread
  BY DEF HQuiet, HBInv, Cover, Born
<1>2. ASSUME UNCHANGED <<table, clocks, footprint>>,
             \A x \in Thread : pc[x] = "done" => pc'[x] = "done"
      PROVE  HBInv'
  BY <1>1, <1>2, QuietKeepsHB
<1>3. ASSUME Fail PROVE HBInv'
  BY <1>2, <1>3 DEF Fail
<1>4. CASE \E l \in Loc : Free(t, l)
  BY <1>2, <1>3, <1>4 DEF Free
<1>5. CASE \E u \in Thread : Detach(t, u)
  <2> PICK u \in Thread : Detach(t, u)
    BY <1>5
  <2> SUFFICES ASSUME JoinValid(t, u),
                      joined' = [joined EXCEPT ![u] = TRUE],
                      released' = [released EXCEPT ![u] = TRUE],
                      UNCHANGED <<size, owner, memory, pc>>
               PROVE  HBInv'
    BY <1>3 DEF Detach
  <2>1. u \in Born /\ released'[u] /\ joined'[u]
    BY <1>1 DEF JoinValid, TypeOK
  <2>2. \A x \in Thread : x # u => joined'[x] = joined[x] /\ released'[x] = released[x]
    BY <1>1 DEF TypeOK
  <2>3. /\ \A x \in Thread : released[x] => released'[x]
        /\ \A x \in Thread : x \notin Born => released'[x] = released[x]
        /\ \A x \in Born : joined[x] => joined'[x] /\ owner'[x] = owner[x]
        /\ \A x \in Born : joined'[x] /\ ~joined[x] => released'[x]
    BY <1>1, <2>1, <2>2
  <2>. QED BY <1>1, <2>3, QuietKeepsHB
<1>6. CASE \E u, v \in Thread : TransferHandle(t, u, v)
  <2> PICK u \in Thread, v \in Thread : TransferHandle(t, u, v)
    BY <1>6
  <2> SUFFICES ASSUME JoinValid(t, u), owner' = [owner EXCEPT ![u] = v],
                      UNCHANGED <<size, joined, released, memory, pc>>
               PROVE  HBInv'
    BY <1>3 DEF TransferHandle
  <2>1. \A x \in Born : joined[x] => joined'[x] /\ owner'[x] = owner[x]
    BY <1>1 DEF JoinValid, TypeOK
  <2>. QED BY <1>1, <2>1, QuietKeepsHB
<1>7. ASSUME NEW op \in Stops, NEW u \in Thread, StopAt(t, op, u) PROVE HBInv'
  <2>1. \A x \in Thread : pc[x] = "done" => pc'[x] = "done"
    BY <1>1, <1>7 DEF StopAt, Running, TypeOK
  <2>. QED BY <1>2, <1>7, <2>1 DEF StopAt
<1>8. CASE End(t) /\ ~OwesJoin(t)
  <2>1. \A x \in Thread : pc[x] = "done" => pc'[x] = "done"
    BY <1>1, <1>8 DEF End, TypeOK
  <2>. QED BY <1>2, <1>3, <1>8, <2>1 DEF End
<1>9. CASE End(t) /\ OwesJoin(t)
  BY <1>3, <1>9 DEF End
<1>10. CASE Resume(t) \/ SpawnFails(t)
  <2>1. \A x \in Thread : pc[x] = "done" => pc'[x] = "done"
    BY <1>1, <1>10 DEF Resume, SpawnFails, Turn, TypeOK
  <2>. QED BY <1>2, <1>10, <2>1 DEF Resume, SpawnFails
<1>11. CASE JoinFails(t)
  BY <1>2, <1>11 DEF JoinFails
<1>. QED
  BY <1>4, <1>5, <1>6, <1>7, <1>8, <1>9, <1>10, <1>11, ThreadAssumption
  DEF HQuiet, Yield, StopAtSpawn, StopAtJoin, Stops

LEMMA HBInitial == HInit => HBInv
<1> SUFFICES ASSUME HInit PROVE HBInv
  OBVIOUS
<1>1. Init /\ Cover /\ Handles /\ TypeOK
  BY CoverInitial, HandlesInitial DEF HInit, Cover
<1>2. \A t \in Thread : clocks[t] = ZeroClock /\ ~released[t] /\ joined[t] = (t = 0)
  BY <1>1 DEF Init
<1>3. PastTypes /\ ReachedWhole /\ ClocksArePast /\ OrderIsRecorded /\ NoneConcurrent
  BY <1>1 DEF HInit, Init, PastTypes, Ids, ReachedWhole, ClocksArePast, OrderIsRecorded, NoneConcurrent
<1>4. OwnIsAhead
  BY <1>2 DEF OwnIsAhead, ZeroClock
<1>5. OwnerCovers
  BY <1>2 DEF OwnerCovers, Born
<1>6. Unborn
  BY <1>1, <1>2, ThreadAssumption DEF Unborn, Init
<1>. QED BY <1>1, <1>3, <1>4, <1>5, <1>6 DEF HBInv

LEMMA HBInductive == HBInv /\ [HNext]_hvars => HBInv'
<1> SUFFICES ASSUME HBInv, [HNext]_hvars PROVE HBInv'
  OBVIOUS
<1>1. Cover' /\ Handles'
  BY HStepIsStep, CoverInductive, HandlesInductive DEF HBInv, hvars
<1>2. CASE UNCHANGED hvars
  BY <1>1, <1>2, QuietKeepsHB DEF hvars, vars
<1>3. CASE \E t \in Thread, l \in Loc, k \in {"read", "write"} : HAccess(t, l, k)
  <2> PICK t \in Thread, l \in Loc, k \in {"read", "write"} : HAccess(t, l, k)
    BY <1>3
  <2>1. CASE RecordAccess(t, l, k) /\ UNCHANGED <<table, live, pc>>
    BY <1>1, <2>1, AccessKeepsHB DEF HAccess, Access
  <2>2. CASE Fail
    <3>1. footprint' = footprint
      BY <2>2 DEF Fail, memory
    <3>2. {Id(e) : e \in footprint' \ footprint} = {}
      BY <3>1
    <3>3. past' = past /\ order' = order
      BY <3>2 DEF HAccess, HBInv, PastTypes
    <3>. QED BY <1>1, <2>2, <3>3, QuietKeepsHB DEF Fail, table, memory
  <2>. QED BY <2>1, <2>2 DEF HAccess, Access
<1>4. ASSUME NEW t \in Thread, HSpawn(t) PROVE HBInv'
  BY <1>1, <1>4, SpawnKeepsHB
<1>5. ASSUME NEW t \in Thread, HJoin(t) PROVE HBInv'
  BY <1>1, <1>5, JoinKeepsHB
<1>6. ASSUME NEW t \in Thread, HQuiet(t) PROVE HBInv'
  BY <1>1, <1>6, HQuietKeepsHB
<1>. QED BY <1>2, <1>3, <1>4, <1>5, <1>6 DEF HNext

LEMMA HBInvariant == HSpec => []HBInv
BY HBInitial, HBInductive, PTL DEF HSpec

(***************************************************************************)
(* What the clocks and the checks mean.                                    *)
(***************************************************************************)

(* VClock.le against the history of Mem/Basic.lean and Conc/Sched.lean: a  *)
(* recorded access is below a thread's clock exactly when program order,   *)
(* spawns and joins put it before the thread's next step.                  *)
THEOREM ClocksAreExact == HSpec => []ClockIsHappensBefore
<1>1. HBInv => ClockIsHappensBefore
  BY DEF HBInv, ClocksArePast, ClockIsHappensBefore
<1>. QED BY <1>1, HBInvariant, PTL

(* Mem.raceCheck and the race rule of a free: no unordered conflicting     *)
(* pair is ever recorded while no handle was given up, and the end of a    *)
(* block fails exactly when an access of another thread is not in the      *)
(* past of the freeing thread; the exemption of joined children hides none.*)
THEOREM RaceChecksExact == HSpec => []RacesExact
<1>1. HBInv => NoRecordedRace
  <2> SUFFICES ASSUME HBInv, NoneReleased, NEW e \in footprint, NEW f \in footprint,
                      e.loc = f.loc, "write" \in {e.kind, f.kind}, e # f
               PROVE  <<Id(e), Id(f)>> \in order \/ <<Id(f), Id(e)>> \in order
    BY DEF NoRecordedRace
  <2>1. ~Concurrent(e.clock, f.clock)
    BY DEF HBInv, NoneConcurrent
  <2>. QED BY <2>1 DEF Concurrent, HBInv, OrderIsRecorded
<1>2. HBInv => FreeRacesExact
  <2> SUFFICES ASSUME HBInv, NEW t \in Thread, NEW l \in Loc, Running(t)
               PROVE  FreeRaces(t, l) <=>
                        \E e \in footprint : e.loc = l /\ e.tid # t /\ Id(e) \notin past[t]
    BY DEF FreeRacesExact
  <2> DEFINE c == Bump(clocks[t], t)
  <2>1. t \in Born /\ Cover /\ TypeOK /\ OwnIsAhead /\ ReachedWhole
    BY DEF Running, HBInv, Cover, TypeOK
  <2>2. clocks[t] \in Clock /\ c \in Clock /\ ClockLe(clocks[t], c)
    BY <2>1, BumpGrows DEF TypeOK
  <2>3. ASSUME NEW e \in footprint, e.tid # t
        PROVE  (/\ ~ClockLe(e.clock, c)
                /\ ~ClockLe(clocks[e.tid], c)
                /\ ~(owner[e.tid] = t /\ joined[e.tid] /\ ~released[e.tid]))
               <=> Id(e) \notin past[t]
    <3>1. /\ e.tid \in Born /\ e.clock \in Clock /\ clocks[e.tid] \in Clock
          /\ ClockLe(e.clock, clocks[e.tid])
      BY <2>1, EntryFacts
    <3>2. ClockLe(e.clock, c) <=> Id(e) \in past[t]
      BY <2>1, BumpSeesNoMore DEF HBInv, ClocksArePast
    <3> HIDE DEF c
    <3>3. ClockLe(clocks[e.tid], c) => ClockLe(e.clock, c)
      BY <2>2, <3>1, ClockLeTrans
    <3>4. ASSUME owner[e.tid] = t, joined[e.tid], ~released[e.tid]
          PROVE  ClockLe(e.clock, c)
      <4>1. e.tid # 0
        BY <2>3, <3>4 DEF HBInv, Unborn
      <4>2. ClockLe(clocks[e.tid], clocks[t])
        BY <3>1, <3>4, <4>1 DEF HBInv, OwnerCovers
      <4>. QED BY <2>2, <3>1, <4>2, ClockLeTrans
    <3>. QED BY <3>2, <3>3, <3>4
  <2>. QED BY <2>3 DEF FreeRaces
<1>. QED BY <1>1, <1>2, HBInvariant, PTL DEF RacesExact

(* The history only watches: a run with it is a run of the scheduler of    *)
(* Conc/Sched.lean, so what is proved of Spec holds here too.              *)
THEOREM HistoryOnlyWatches == HSpec => Spec
<1>1. HInit => Init
  BY DEF HInit
<1>2. [HNext]_hvars => [Next]_vars
  BY HStepIsStep DEF hvars
<1>. QED BY <1>1, <1>2, PTL DEF HSpec, Spec

=============================================================================
