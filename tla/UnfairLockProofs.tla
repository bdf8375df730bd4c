-------------------------- MODULE UnfairLockProofs --------------------------
(***************************************************************************)
(* os_unfair_lock is a mutex for every number of threads and calls: the    *)
(* owner check is exact, no wakeup is lost, and the lock implements        *)
(* AbstractLock.                                                           *)
(*                                                                         *)
(* The invariant reads the state of the lock off the newest message of the *)
(* word: a 1 names the thread inside, values 1 never follow each other,    *)
(* and the release sequence carries every finished critical section.       *)
(***************************************************************************)
EXTENDS UnfairLock, TLAPS

Past == 0 .. finished - 1

(* No message with a 1 is followed by another one. *)
Alternates == \A i \in 1 .. Len(msgs) - 1 : msgs[i].val = 1 => msgs[i + 1].val = 0

(* The newest message tells who is inside. *)
WordIsLock ==
  /\ Newest.val = 0 => Inside = {}
  /\ Newest.val = 1 => Newest.writer \in Thread /\ Inside = {Newest.writer}

(* The newest message and the thread inside know every finished section. *)
PastIsKnown ==
  /\ Newest.rel = Past
  /\ \A t \in Thread : knows[t] \subseteq Past
  /\ Newest.val = 1 => knows[Newest.writer] = Past

LockInv == LockOK /\ Alternates /\ WordIsLock /\ PastIsKnown

-----------------------------------------------------------------------------
(* What an RMW does to the history of the word. *)
LEMMA RmwAppends ==
  ASSUME LockOK, NEW t \in Thread, NEW v \in {0, 1}, NEW rel \in SUBSET Nat, Rmw(t, v, rel)
  PROVE  LET m == [val |-> v, writer |-> t, rel |-> rel \cup Newest.rel]
         IN  /\ m \in Msg
             /\ msgs' \in Seq(Msg)
             /\ Len(msgs') = Len(msgs) + 1
             /\ msgs'[Len(msgs')] = m
             /\ \A i \in 1 .. Len(msgs) : msgs'[i] = msgs[i]
<1> DEFINE m == [val |-> v, writer |-> t, rel |-> rel \cup Newest.rel]
<1>1. Newest \in Msg
  BY DEF LockOK, Newest
<1>2. m \in Msg
  BY <1>1 DEF Msg
<1>3. msgs' = Append(msgs, m) /\ msgs \in Seq(Msg)
  BY DEF Rmw, LockOK
<1> QED
  BY <1>2, <1>3

(* The owner check looks at the newest message only. *)
LEMMA HolderOfNewest ==
  ASSUME LockOK, Alternates
  PROVE  Holder = IF Newest.val = 0 THEN NoWriter ELSE Newest.writer
<1> DEFINE run == {i \in 1 .. Len(msgs) : \A j \in i .. Len(msgs) : msgs[j].val # 0}
<1>0. Len(msgs) \in Nat \ {0} /\ \A i \in 1 .. Len(msgs) : msgs[i] \in Msg
  BY DEF LockOK
<1>1. CASE Newest.val = 0
  <2>1. run = {}
    BY <1>0, <1>1 DEF Newest
  <2> QED
    BY <1>1, <2>1 DEF Holder
<1>2. CASE Newest.val # 0
  <2>1. Len(msgs) \in run
    BY <1>0, <1>2 DEF Newest
  <2>2. \A i \in run : i = Len(msgs)
    <3> SUFFICES ASSUME NEW i \in run, i # Len(msgs) PROVE FALSE
      OBVIOUS
    <3>1. i \in 1 .. Len(msgs) - 1 /\ i + 1 \in i .. Len(msgs) /\ i \in i .. Len(msgs)
      BY <1>0
    <3>2. msgs[i].val # 0 /\ msgs[i + 1].val # 0
      BY <3>1
    <3>3. msgs[i].val \in {0, 1}
      BY <1>0, <3>1 DEF Msg
    <3> QED
      BY <3>1, <3>2, <3>3 DEF Alternates
  <2>3. run = {Len(msgs)}
    BY <2>1, <2>2
  <2>4. (CHOOSE i \in run : \A j \in run : i <= j) = Len(msgs)
    BY <1>0, <2>3
  <2> QED
    BY <1>2, <2>3, <2>4 DEF Holder, Newest
<1> QED
  BY <1>1, <1>2

(* The owner check passes exactly for the thread inside its section. *)
LEMMA HeldMeansInside ==
  ASSUME LockInv, NEW t \in Thread
  PROVE  MutexHeld(t) <=> t \in Inside
<1>1. Newest \in Msg
  BY DEF LockInv, LockOK, Newest
<1>2. Newest.val \in {0, 1}
  BY <1>1 DEF Msg
<1>3. Holder = IF Newest.val = 0 THEN NoWriter ELSE Newest.writer
  BY HolderOfNewest DEF LockInv
<1> QED
  BY <1>2, <1>3, LockAssumption DEF MutexHeld, LockInv, WordIsLock

-----------------------------------------------------------------------------
LEMMA InitLock == LockInit => LockInv
<1> SUFFICES ASSUME LockInit PROVE LockInv
  OBVIOUS
<1>1. Len(msgs) = 1 /\ msgs[1] = [val |-> 0, writer |-> NoWriter, rel |-> {}]
  BY DEF LockInit
<1>2. msgs[1] \in Msg
  BY <1>1 DEF Msg
<1>3. LockOK
  BY <1>1, <1>2, LockAssumption DEF LockInit, LockOK, LockStops
<1> QED
  BY <1>1, <1>3 DEF LockInit, LockInv, Alternates, WordIsLock, PastIsKnown, Past, Newest, Inside

(* A step that leaves the word, the clocks and the insides alone. *)
LEMMA QuietStep ==
  ASSUME LockInv, LockOK', UNCHANGED <<msgs, knows, finished>>, Inside' = Inside
  PROVE  LockInv'
BY DEF LockInv, Alternates, WordIsLock, PastIsKnown, Past, Newest

LEMMA CasSucceedsLock ==
  ASSUME LockInv, NEW t \in Thread, CasSucceeds(t)
  PROVE  LockInv'
<1> DEFINE m == [val |-> 1, writer |-> t, rel |-> {} \cup Newest.rel]
<1>0. LockOK /\ Rmw(t, 1, {}) /\ Newest.val = 0
  BY DEF LockInv, CasSucceeds
<1>1. /\ m \in Msg /\ msgs' \in Seq(Msg) /\ Len(msgs') = Len(msgs) + 1
      /\ msgs'[Len(msgs')] = m /\ \A i \in 1 .. Len(msgs) : msgs'[i] = msgs[i]
  BY <1>0, RmwAppends
<1>2. Len(msgs) \in Nat \ {0} /\ Newest \in Msg
  BY <1>0 DEF LockOK, Newest
<1>3. at' = [at EXCEPT ![t] = "in"] /\ at[t] \in {"lock", "try"}
  BY DEF CasSucceeds, Goes
<1>4. Inside = {} /\ Inside' = {t}
  BY <1>0, <1>3 DEF LockInv, WordIsLock, LockOK, Inside
<1>5. Newest' = m
  BY <1>1 DEF Newest
<1>6. knows' = [knows EXCEPT ![t] = @ \cup Newest.rel] /\ finished' = finished
  BY DEF CasSucceeds
<1>7. LockOK'
  <2>1. Newest.rel \in SUBSET Nat
    BY <1>2 DEF Msg
  <2>2. knows' \in [Thread -> SUBSET Nat]
    BY <1>0, <1>6, <2>1 DEF LockOK
  <2>3. seen' \in [Thread -> Nat] /\ \A u \in Thread : seen'[u] \in 1 .. Len(msgs')
    BY <1>0, <1>1, <1>2 DEF LockOK, Rmw
  <2>4. at' \in [Thread -> LockStops \cup {"out", "in"}]
    BY <1>0, <1>3 DEF LockOK
  <2>5. sleeping' \subseteq {u \in Thread : at'[u] = "wait"} /\ woken' \subseteq {u \in Thread : at'[u] = "wait"} \ sleeping'
    BY <1>0, <1>3 DEF LockOK, CasSucceeds
  <2> QED
    BY <1>0, <1>1, <1>2, <2>2, <2>3, <2>4, <2>5 DEF LockOK, CasSucceeds
<1>8. Alternates'
  BY <1>0, <1>1, <1>2 DEF LockInv, Alternates, Newest
<1>9. WordIsLock'
  BY <1>4, <1>5 DEF WordIsLock
<1>10. PastIsKnown'
  <2>1. Newest.rel = Past /\ Past' = Past /\ \A u \in Thread : knows[u] \subseteq Past
    BY <1>6 DEF LockInv, PastIsKnown, Past
  <2>2. knows'[t] = Past /\ \A u \in Thread : knows'[u] \subseteq Past
    BY <1>0, <1>6, <2>1 DEF LockOK
  <2>3. Newest'.rel = Past /\ Newest'.writer = t
    BY <1>5, <2>1
  <2> QED
    BY <2>1, <2>2, <2>3 DEF PastIsKnown
<1> QED
  BY <1>7, <1>8, <1>9, <1>10 DEF LockInv

LEMMA XchgLock ==
  ASSUME LockInv, NEW t \in Thread, Xchg(t)
  PROVE  LockInv' /\ Inside = {t} /\ Inside' = {} /\ knows' = [knows EXCEPT ![t] = 0 .. finished]
<1> DEFINE rel == knows[t] \cup {finished}
           m == [val |-> 0, writer |-> t, rel |-> rel \cup Newest.rel]
<1>0. LockOK /\ Rmw(t, 0, rel) /\ rel \in SUBSET Nat
  BY DEF LockInv, Xchg, LockOK
<1>1. /\ m \in Msg /\ msgs' \in Seq(Msg) /\ Len(msgs') = Len(msgs) + 1
      /\ msgs'[Len(msgs')] = m /\ \A i \in 1 .. Len(msgs) : msgs'[i] = msgs[i]
  BY <1>0, RmwAppends
<1>2. Len(msgs) \in Nat \ {0} /\ Newest \in Msg
  BY <1>0 DEF LockOK, Newest
<1>3. at' = [at EXCEPT ![t] = "wake"] /\ at[t] = "xchg"
  BY DEF Xchg, Goes
<1>4. t \in Inside
  BY <1>3 DEF Inside
<1>5. Newest.val = 1 /\ Newest.writer = t /\ Inside = {t}
  <2>1. Newest.val \in {0, 1}
    BY <1>2 DEF Msg
  <2> QED
    BY <2>1, <1>4 DEF LockInv, WordIsLock
<1>6. Inside' = {}
  BY <1>0, <1>3, <1>5 DEF LockOK, Inside
<1>7. Newest' = m
  BY <1>1 DEF Newest
<1>8. knows[t] = Past /\ Newest.rel = Past /\ finished \in Nat /\ finished' = finished + 1
  BY <1>5 DEF LockInv, PastIsKnown, LockOK, Xchg
<1>9. rel = 0 .. finished /\ Past' = 0 .. finished
  BY <1>8 DEF Past
<1>10. knows' = [knows EXCEPT ![t] = 0 .. finished]
  BY <1>0, <1>8, <1>9 DEF Xchg, LockOK
<1>11. LockOK'
  <2>1. knows' \in [Thread -> SUBSET Nat]
    BY <1>0, <1>8, <1>10 DEF LockOK
  <2>2. seen' \in [Thread -> Nat] /\ \A u \in Thread : seen'[u] \in 1 .. Len(msgs')
    BY <1>0, <1>1, <1>2 DEF LockOK, Rmw
  <2>3. at' \in [Thread -> LockStops \cup {"out", "in"}]
    BY <1>0, <1>3 DEF LockOK, LockStops
  <2>4. sleeping' \subseteq {u \in Thread : at'[u] = "wait"} /\ woken' \subseteq {u \in Thread : at'[u] = "wait"} \ sleeping'
    BY <1>0, <1>3 DEF LockOK, Xchg
  <2> QED
    BY <1>0, <1>1, <1>2, <1>8, <2>1, <2>2, <2>3, <2>4 DEF LockOK, Xchg
<1>12. Alternates'
  BY <1>0, <1>1, <1>2 DEF LockInv, Alternates, Newest
<1>13. WordIsLock'
  BY <1>6, <1>7 DEF WordIsLock
<1>14. PastIsKnown'
  <2>1. \A u \in Thread : knows'[u] \subseteq Past'
    BY <1>0, <1>8, <1>9, <1>10 DEF LockOK, LockInv, PastIsKnown, Past
  <2>2. Newest'.rel = Past' /\ Newest'.val = 0
    BY <1>7, <1>8, <1>9 DEF Past
  <2> QED
    BY <2>1, <2>2 DEF PastIsKnown
<1> QED
  BY <1>5, <1>6, <1>10, <1>11, <1>12, <1>13, <1>14 DEF LockInv

(* Every other step leaves the word, the clocks and the insides alone. *)
LEMMA OtherStepsQuiet ==
  ASSUME LockInv, NEW t \in Thread,
         \/ Call(t, "lock") \/ Call(t, "try") \/ CasFails(t) \/ Sleep(t) \/ WaitReturns(t)
         \/ Unlock(t) \/ WakeOne(t)
  PROVE  LockInv' /\ Inside' = Inside /\ UNCHANGED <<finished, knows>>
<1>0. LockOK
  BY DEF LockInv
<1> DEFINE Quiet == LockOK' /\ Inside' = Inside /\ UNCHANGED <<msgs, knows, finished>>
<1>1. CASE Call(t, "lock") \/ Call(t, "try")
  <2>1. Quiet
    BY <1>0, <1>1, LockAssumption DEF Call, Goes, LockOK, LockStops, Inside
  <2> QED
    BY <2>1, QuietStep
<1>2. CASE CasFails(t)
  <2>1. Quiet
    BY <1>0, <1>2 DEF CasFails, Goes, LockOK, LockStops, Inside
  <2> QED
    BY <2>1, QuietStep
<1>3. CASE Sleep(t)
  <2>1. Quiet
    BY <1>0, <1>3 DEF Sleep, LockOK, Inside
  <2> QED
    BY <2>1, QuietStep
<1>4. CASE WaitReturns(t)
  <2>1. Quiet
    BY <1>0, <1>4 DEF WaitReturns, Goes, LockOK, LockStops, Inside
  <2> QED
    BY <2>1, QuietStep
<1>5. CASE Unlock(t)
  <2>1. MutexHeld(t) <=> t \in Inside
    BY HeldMeansInside
  <2>2. Quiet
    BY <1>0, <1>5, <2>1 DEF Unlock, Goes, LockOK, LockStops, Inside
  <2> QED
    BY <2>2, QuietStep
<1>6. CASE WakeOne(t)
  <2>1. Quiet
    BY <1>0, <1>6 DEF WakeOne, Goes, LockOK, LockStops, Inside
  <2> QED
    BY <2>1, QuietStep
<1> QED
  BY <1>1, <1>2, <1>3, <1>4, <1>5, <1>6

LEMMA NextLock == LockInv /\ [LockNext]_lockVars => LockInv'
<1> SUFFICES ASSUME LockInv, [LockNext]_lockVars PROVE LockInv'
  OBVIOUS
<1>1. CASE LockNext
  <2>1. PICK t \in Thread : LockStep(t)
    BY <1>1 DEF LockNext
  <2> QED
    BY <2>1, CasSucceedsLock, XchgLock, OtherStepsQuiet DEF LockStep
<1>2. CASE UNCHANGED lockVars
  <2>1. LockOK' /\ Inside' = Inside /\ UNCHANGED <<msgs, knows, finished>>
    BY <1>2 DEF LockInv, LockOK, lockVars, Inside
  <2> QED
    BY <2>1, QuietStep
<1> QED
  BY <1>1, <1>2

LEMMA LockInvariant == LockSpec => []LockInv
BY InitLock, NextLock, PTL DEF LockSpec

(* The types of the lock's state, for every number of threads. *)
THEOREM LockTypeOK == LockSpec => []LockOK
<1>1. LockInv => LockOK
  BY DEF LockInv
<1> QED
  BY <1>1, LockInvariant, PTL

(* For every number of threads, the owner check of unlock passes exactly   *)
(* for the thread inside its critical section.                             *)
THEOREM OwnerCheckIsExact == LockSpec => []OwnerCheckExact
<1>1. LockInv => OwnerCheckExact
  <2> SUFFICES ASSUME LockInv, NEW t \in Thread, at[t] \in {"in", "out"}
               PROVE  MutexHeld(t) <=> at[t] = "in"
    BY DEF OwnerCheckExact
  <2> QED
    BY HeldMeansInside DEF Inside
<1> QED
  BY <1>1, LockInvariant, PTL

(* For every number of threads, a thread sleeps only while somebody still  *)
(* has to unlock, to wake or to try again.                                 *)
THEOREM NoWakeupIsLost == LockSpec => []NoLostWakeup
<1>1. LockInit => NoLostWakeup
  BY DEF LockInit, NoLostWakeup
<1>2. LockInv /\ NoLostWakeup /\ [LockNext]_lockVars => NoLostWakeup'
  <2> SUFFICES ASSUME LockInv, NoLostWakeup, [LockNext]_lockVars
               PROVE  NoLostWakeup'
    OBVIOUS
  <2> DEFINE Awake(t) == at[t] \in {"wake", "lock"} \/ (at[t] = "wait" /\ t \notin sleeping)
  <2> SUFFICES ASSUME sleeping' # {}
               PROVE  Inside' # {} \/ \E t \in Thread : Awake(t)'
    BY DEF NoLostWakeup
  <2>0. LockOK
    BY DEF LockInv
  <2>1. CASE UNCHANGED lockVars
    BY <2>1 DEF NoLostWakeup, Inside, lockVars
  <2>2. CASE LockNext
    <3>0. PICK t \in Thread : LockStep(t)
      BY <2>2 DEF LockNext
    <3>1. CASE Call(t, "lock") \/ Call(t, "try")
      BY <2>0, <3>1 DEF Call, Goes, NoLostWakeup, Inside, LockOK
    <3>2. CASE CasSucceeds(t)
      BY <2>0, <3>2 DEF CasSucceeds, Goes, Inside, LockOK
    <3>3. CASE CasFails(t)
      <4>1. at[t] = "lock" => at'[t] = "wait" /\ t \notin sleeping'
        BY <2>0, <3>3 DEF CasFails, Goes, LockOK
      <4> QED
        BY <2>0, <3>3, <4>1 DEF CasFails, Goes, NoLostWakeup, Inside, LockOK
    <3>4. CASE Sleep(t)
      <4>1. Newest.val = 1 /\ UNCHANGED at
        BY <3>4 DEF Sleep
      <4>2. Inside # {}
        BY <4>1 DEF LockInv, WordIsLock
      <4> QED
        BY <4>1, <4>2 DEF Inside
    <3>5. CASE WaitReturns(t)
      BY <2>0, <3>5 DEF WaitReturns, Goes, LockOK
    <3>6. CASE Unlock(t)
      BY <2>0, <3>6 DEF Unlock, Goes, NoLostWakeup, Inside, LockOK
    <3>7. CASE Xchg(t)
      BY <2>0, <3>7 DEF Xchg, Goes, LockOK
    <3>8. CASE WakeOne(t)
      <4>1. PICK u \in sleeping : sleeping' = sleeping \ {u}
        BY <3>8 DEF WakeOne
      <4>2. at[u] = "wait" /\ u \in Thread /\ u # t
        BY <2>0, <3>8 DEF LockOK, WakeOne
      <4> QED
        BY <2>0, <3>8, <4>1, <4>2 DEF WakeOne, Goes, LockOK
    <3> QED
      BY <3>0, <3>1, <3>2, <3>3, <3>4, <3>5, <3>6, <3>7, <3>8 DEF LockStep
  <2> QED
    BY <2>1, <2>2
<1> QED
  BY <1>1, <1>2, LockInvariant, PTL DEF LockSpec

(* Both: the holder of the lock is known, and a waiter is woken.           *)
THEOREM LockIsKept == LockSpec => []LockKept
BY OwnerCheckIsExact, NoWakeupIsLost, PTL DEF LockKept

(* For every number of threads, os_unfair_lock implements the abstract     *)
(* mutex: sections exclude each other and each knows all earlier ones.     *)
THEOREM UnfairLockImplementsLock == LockSpec => IsALock
<1>1. LockInit => Mutex!Init
  BY DEF LockInit, Mutex!Init, Inside
<1>2. LockInv /\ [LockNext]_lockVars => [Mutex!Next]_<<Inside, finished, knows>>
  <2> SUFFICES ASSUME LockInv, [LockNext]_lockVars
               PROVE  Mutex!Next \/ UNCHANGED <<Inside, finished, knows>>
    OBVIOUS
  <2>1. ASSUME NEW t \in Thread, CasSucceeds(t)
        PROVE  Mutex!Acquire(t)
    <3>1. Newest.val = 0 /\ Newest.rel = Past /\ knows[t] \subseteq Past /\ Inside = {}
      BY <2>1 DEF CasSucceeds, LockInv, PastIsKnown, WordIsLock
    <3>2. knows' = [knows EXCEPT ![t] = 0 .. finished - 1]
      BY <2>1, <3>1 DEF CasSucceeds, Past, LockInv, LockOK
    <3>3. Inside' = {t}
      BY <2>1, <3>1 DEF CasSucceeds, Goes, Inside, LockInv, LockOK
    <3>4. finished' = finished
      BY <2>1 DEF CasSucceeds
    <3> QED
      BY <3>1, <3>2, <3>3, <3>4 DEF Mutex!Acquire
  <2>2. ASSUME NEW t \in Thread, Xchg(t)
        PROVE  Mutex!Release(t)
    <3>1. Inside = {t} /\ Inside' = {} /\ knows' = [knows EXCEPT ![t] = 0 .. finished]
      BY <2>2, XchgLock
    <3>2. finished' = finished + 1
      BY <2>2 DEF Xchg
    <3> QED
      BY <3>1, <3>2 DEF Mutex!Release
  <2>3. CASE LockNext
    <3>1. PICK t \in Thread : LockStep(t)
      BY <2>3 DEF LockNext
    <3> QED
      BY <3>1, <2>1, <2>2, OtherStepsQuiet DEF LockStep, Mutex!Next
  <2>4. CASE UNCHANGED lockVars
    BY <2>4 DEF lockVars, Inside
  <2> QED
    BY <2>3, <2>4
<1> QED
  BY <1>1, <1>2, LockInvariant, PTL DEF LockSpec, IsALock, Mutex!Spec

=============================================================================
