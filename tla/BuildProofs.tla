----------------------------- MODULE BuildProofs ------------------------------
(***************************************************************************)
(* What builds and checks share, for any number of processes and jobs.     *)
(*                                                                         *)
(* The build cache: visible entries are complete, locked builds happen     *)
(* once and a collection stops at the cap, with failures and kills         *)
(* anywhere.  The invariant says what a process holds at each of its       *)
(* stops: the key's lock, a stage that is complete before the rename, the  *)
(* collector's lock.                                                       *)
(*                                                                         *)
(* The cache of kernel replays: a replay that passes is backed by checks   *)
(* of its own build, and concurrent replays check no module twice.         *)
(* Versions never return, so what an audit recorded of a library or a      *)
(* toolchain that is still the same cannot have been otherwise in between. *)
(*                                                                         *)
(* The parallel runner: what it admits fits the budget, and what it prints *)
(* is the output of the jobs in the order of their numbers, each byte      *)
(* once.  The chunks of a job are numbered; those it sent were printed,    *)
(* are kept in its spool or are still in its pipe, in this order.          *)
(***************************************************************************)
EXTENDS Cas, Replay, ParRun, TLAPS, FiniteSetTheorems, SequenceTheorems, WellFoundedInduction

-----------------------------------------------------------------------------
(* The build cache.                                                        *)

Building == {"build", "rename", "collided"}
Collecting == {"clean", "total", "evict", "bury"}

(* A command works on a key until it ends. *)
Wanting ==
  \A p \in Proc : pc[p] \in {"lookup", "lock", "locked", "touch", "use"} \cup Building => want[p] \in Key

(* Who holds a lock works on its key; who builds under a lock holds it. *)
Locking ==
  /\ \A k \in Key : lock[k] # Nobody => /\ want[lock[k]] = k
                                        /\ pc[lock[k]] \in {"locked", "touch"} \cup Building
  /\ \A p \in Proc : pc[p] \in {"lock", "locked"} => Locked(want[p])
  /\ \A p \in Proc : pc[p] \in {"locked"} \cup Building /\ Locked(want[p]) => lock[want[p]] = p

(* Nothing is published while a process builds the key under its lock. *)
Absent == \A p \in Proc : pc[p] \in {"build", "rename"} /\ Locked(want[p]) => ~Present(want[p])

(* A stage has its output before the rename. *)
Staging ==
  \A s \in tmp : s.by # Nobody => /\ pc[s.by] \in Building \cup {"bury"}
                                  /\ pc[s.by] \in {"rename", "collided"} => s.built

(* One process collects, and what it still frees is above the cap. *)
Count == Cardinality({k \in Key : Present(k)})
Holding == \A p \in Proc : pc[p] \in Collecting => gcLock = p
Measured == \A p \in Proc : pc[p] \in {"evict", "bury"} => excess <= Count - Cap

CasInv == TypeOK /\ Wanting /\ Locking /\ Absent /\ Staging /\ EntriesComplete /\ Holding

-----------------------------------------------------------------------------
(* What the helpers of the actions do. *)

LEMMA GotoMoves ==
  ASSUME TypeOK, NEW p \in Proc, NEW l \in Stops, Goto(p, l)
  PROVE  /\ pc' \in [Proc -> Stops] /\ want' \in [Proc -> Key \cup {NoKey}]
         /\ pc'[p] = l
         /\ want'[p] = IF l = "idle" THEN NoKey ELSE want[p]
         /\ \A q \in Proc \ {p} : pc'[q] = pc[q] /\ want'[q] = want[q]
BY DEF TypeOK, Goto

LEMMA UnlockedFrees ==
  ASSUME TypeOK, NEW p \in Proc
  PROVE  /\ Unlocked(p) \in [Key -> Proc \cup {Nobody}]
         /\ \A k \in Key : Unlocked(p)[k] # Nobody => Unlocked(p)[k] = lock[k] /\ lock[k] # p
         /\ \A k \in Key : lock[k] # p => Unlocked(p)[k] = lock[k]
BY CasAssumption DEF TypeOK, Unlocked

LEMMA AbandonedIsNobodys ==
  ASSUME TypeOK, NEW p \in Proc
  PROVE  /\ Abandoned(p) \subseteq Stage
         /\ \A s \in Abandoned(p) : s.by # Nobody => s \in tmp /\ s.by # p
BY CasAssumption DEF TypeOK, Abandoned, StagesOf, Stage

LEMMA NewStageTyped ==
  ASSUME TypeOK, NEW p \in Proc, NEW k \in Key
  PROVE  /\ NewStage(p, k) \in Stage /\ NewStage(p, k).by = p
         /\ BuiltStage(p, k) \in Stage /\ BuiltStage(p, k).by = p /\ BuiltStage(p, k).built
BY DEF TypeOK, NewStage, BuiltStage, Stage

LEMMA BuildsStage ==
  ASSUME TypeOK, NEW p \in Proc, want[p] \in Key, Builds(p)
  PROVE  /\ tmp' \subseteq Stage
         /\ \A s \in tmp' : s.by # Nobody => (s.by = p /\ s.built) \/ (s \in tmp /\ s.by # p)
<1>1. tmp' \subseteq Stage
  BY NewStageTyped DEF Builds, TypeOK
<1>2. ASSUME NEW s \in tmp' PROVE (s.by = p /\ s.built) \/ (s \in tmp /\ s.by # p)
  <2>1. CASE s = BuiltStage(p, want[p])
    <3>1. BuiltStage(p, want[p]).by = p /\ BuiltStage(p, want[p]).built
      BY NewStageTyped, Zenon
    <3> QED
      BY <2>1, <3>1, Zenon
  <2>2. CASE s # BuiltStage(p, want[p])
    <3>1. s \in tmp /\ s.by # p
      BY <2>2 DEF Builds, StagesOf
    <3> QED
      BY <3>1, Zenon
  <2> QED
    BY <2>1, <2>2, Zenon
<1> QED
  BY <1>1, <1>2, Zenon

LEMMA PresentCounts ==
  /\ IsFiniteSet({k \in Key : Present(k)})
  /\ Count \in Nat
BY CasAssumption, FS_Subset, FS_CardinalityType DEF Count

-----------------------------------------------------------------------------
LEMMA CasInvInit == Init => CasInv
BY CasAssumption DEF Init, CasInv, TypeOK, Wanting, Locking, Absent, Staging, EntriesComplete, Holding,
  Building, Collecting, Present, Stops

LEMMA CasInvStep == CasInv /\ [Next]_vars => CasInv'
<1> SUFFICES ASSUME CasInv, [Next]_vars PROVE CasInv'
  OBVIOUS
<1> USE CasAssumption
<1>0. \A s \in tmp : s.by # Nobody => s.by \in Proc
  BY DEF CasInv, TypeOK, Stage
<1> USE <1>0 DEF CasInv, TypeOK, Wanting, Locking, Absent, Staging, EntriesComplete, Holding, Building, Collecting
<1>1. ASSUME NEW p \in Proc, NEW k \in Key, Start(p, k) PROVE CasInv'
  BY <1>1 DEF Start, Present, Stops, Locked, gc
<1>2. ASSUME NEW p \in Proc, Lock(p) PROVE CasInv'
  BY <1>2, GotoMoves DEF Lock, Present, Stops, Locked, gc, store
<1>3. ASSUME NEW p \in Proc, Finds(p) PROVE CasInv'
  BY <1>3, GotoMoves DEF Finds, Present, Stops, Locked, gc, store
<1>4. ASSUME NEW p \in Proc, Touch(p) PROVE CasInv'
  <2> USE <1>4 DEF Touch
  <2>1. /\ pc' \in [Proc -> Stops] /\ want' \in [Proc -> Key \cup {NoKey}]
        /\ pc'[p] = "use"
        /\ want'[p] = want[p]
        /\ \A q \in Proc \ {p} : pc'[q] = pc[q] /\ want'[q] = want[q]
    BY GotoMoves DEF Stops
  <2>2. TypeOK'
    BY <2>1, UnlockedFrees DEF gc, Locked, Present
  <2>3. Wanting'
    BY <2>1
  <2>4. Locking'
    BY <2>1, UnlockedFrees DEF Locked
  <2>5. Absent'
    BY <2>1 DEF Present, Locked
  <2>6. Staging'
    BY <2>1
  <2>7. EntriesComplete'
    BY <2>1
  <2>8. Holding'
    BY <2>1 DEF gc
  <2> QED
    BY <2>2, <2>3, <2>4, <2>5, <2>6, <2>7, <2>8
<1>5. ASSUME NEW p \in Proc, Misses(p) PROVE CasInv'
  <2> USE <1>5 DEF Misses
  <2>1. /\ pc' \in [Proc -> Stops] /\ want' = want
        /\ \A q \in Proc \ {p} : pc'[q] = pc[q]
    BY DEF Goto, Stops
  <2>2. \/ /\ pc[p] = "lookup" /\ Locked(want[p])
           /\ pc'[p] = "lock" /\ tmp' = tmp
        \/ /\ pc[p] = "locked" \/ ~Locked(want[p])
           /\ pc'[p] = "build" /\ tmp' = tmp \cup {NewStage(p, want[p])}
    BY DEF Goto
  <2>3. NewStage(p, want[p]) \in Stage /\ NewStage(p, want[p]).by = p
    BY NewStageTyped
  <2>4. TypeOK'
    BY <2>1, <2>2, <2>3 DEF gc, Locked
  <2>5. Wanting'
    BY <2>1, <2>2, <2>3
  <2>6. Locking'
    BY <2>1, <2>2, <2>3 DEF Locked
  <2>7. Absent'
    BY <2>1, <2>2, <2>3 DEF Present, Locked
  <2>8. Staging'
    BY <2>1, <2>2, <2>3
  <2>9. EntriesComplete'
    BY <2>1, <2>2, <2>3
  <2>10. Holding'
    BY <2>1, <2>2, <2>3 DEF gc
  <2> QED
    BY <2>4, <2>5, <2>6, <2>7, <2>8, <2>9, <2>10
<1>6. ASSUME NEW p \in Proc, Builds(p) PROVE CasInv'
  <2> USE <1>6 DEF Builds
  <2>1. /\ pc' \in [Proc -> Stops] /\ want' \in [Proc -> Key \cup {NoKey}]
        /\ pc'[p] = "rename"
        /\ want'[p] = want[p]
        /\ \A q \in Proc \ {p} : pc'[q] = pc[q] /\ want'[q] = want[q]
    BY GotoMoves DEF Stops
  <2>2. /\ tmp' \subseteq Stage
        /\ \A s \in tmp' : s.by # Nobody => (s.by = p /\ s.built) \/ (s \in tmp /\ s.by # p)
    BY BuildsStage
  <2>3. TypeOK'
    BY <2>1, <2>2 DEF gc, Locked
  <2>4. Wanting'
    BY <2>1, <2>2
  <2>5. Locking'
    BY <2>1, <2>2 DEF Locked
  <2>6. Absent'
    BY <2>1, <2>2 DEF Present, Locked
  <2>7. Staging'
    BY <2>1, <2>2
  <2>8. EntriesComplete'
    BY <2>1, <2>2
  <2>9. Holding'
    BY <2>1, <2>2 DEF gc
  <2> QED
    BY <2>3, <2>4, <2>5, <2>6, <2>7, <2>8, <2>9
<1>7. ASSUME NEW p \in Proc, BuildFails(p) PROVE CasInv'
  <2>1. /\ pc' \in [Proc -> Stops] /\ want' \in [Proc -> Key \cup {NoKey}]
        /\ pc'[p] = "idle"
        /\ want'[p] = NoKey
        /\ \A q \in Proc \ {p} : pc'[q] = pc[q] /\ want'[q] = want[q]
        /\ pc[p] = "build" /\ lock' = Unlocked(p) /\ UNCHANGED <<now, entry, used, gc, starts>>
    BY <1>7, GotoMoves DEF BuildFails, Stops
  <2>2. /\ tmp' \subseteq Stage
        /\ \A s \in tmp' : s.by # Nobody => s \in tmp /\ s.by # p
    BY <1>7, AbandonedIsNobodys DEF BuildFails, StagesOf
  <2>3. TypeOK'
    BY <2>1, <2>2, UnlockedFrees DEF gc, Locked
  <2>4. Wanting'
    BY <2>1, <2>2
  <2>5. Locking'
    <3>1. \A k \in Key : lock'[k] # Nobody => /\ want'[lock'[k]] = k
                                             /\ pc'[lock'[k]] \in {"locked", "touch"} \cup Building
      BY <2>1, UnlockedFrees
    <3>2. \A q \in Proc : pc'[q] \in {"locked"} \cup Building /\ Locked(want'[q]) => lock'[want'[q]] = q
      BY <2>1, UnlockedFrees
    <3>3. \A q \in Proc : pc'[q] \in {"lock", "locked"} => Locked(want'[q])
      BY <2>1
    <3> QED
      BY <3>1, <3>2, <3>3 DEF Locked
  <2>6. Absent'
    BY <2>1, <2>2 DEF Present, Locked
  <2>7. Staging'
    BY <2>1, <2>2
  <2>8. EntriesComplete'
    BY <2>1, <2>2
  <2>9. Holding'
    BY <2>1, <2>2 DEF gc
  <2> QED
    BY <2>3, <2>4, <2>5, <2>6, <2>7, <2>8, <2>9
<1>8. ASSUME NEW p \in Proc, Publish(p) PROVE CasInv'
  <2>1. /\ pc' \in [Proc -> Stops] /\ want' \in [Proc -> Key \cup {NoKey}]
        /\ \/ pc'[p] = "idle"
           \/ pc'[p] = "use" /\ want'[p] = want[p]
        /\ \A q \in Proc \ {p} : pc'[q] = pc[q] /\ want'[q] = want[q]
        /\ pc[p] = "rename" /\ lock' = Unlocked(p) /\ UNCHANGED <<now, gc, starts>>
    BY <1>8, GotoMoves DEF Publish, Stops, AfterPublish
  <2>2. /\ want[p] \in Key
        /\ entry' = [entry EXCEPT ![want[p]] = "complete"]
        /\ used' \in [Key -> Nat]
    <3>1. PICK s \in StagesOf(p) :
            /\ entry' = [entry EXCEPT ![want[p]] = IF s.built THEN "complete" ELSE "partial"]
            /\ used' = [used EXCEPT ![want[p]] = s.time]
      BY <1>8 DEF Publish
    <3>2. s \in tmp /\ s.by = p /\ s.time \in Nat
      BY DEF StagesOf, Stage
    <3>3. s.built
      BY <2>1, <3>2
    <3> QED
      BY <2>1, <3>1, <3>2, <3>3
  <2>3. /\ tmp' \subseteq tmp
        /\ \A s \in tmp' : s.by # p
    BY <1>8 DEF Publish, StagesOf
  <2>4. TypeOK'
    BY <2>1, <2>2, <2>3, UnlockedFrees DEF gc, Locked
  <2>5. Wanting'
    BY <2>1, <2>2, <2>3
  <2>6. Locking'
    <3>1. \A k \in Key : lock'[k] # Nobody => /\ want'[lock'[k]] = k
                                             /\ pc'[lock'[k]] \in {"locked", "touch"} \cup Building
      BY <2>1, UnlockedFrees
    <3>2. \A q \in Proc : pc'[q] \in {"locked"} \cup Building /\ Locked(want'[q]) => lock'[want'[q]] = q
      BY <2>1, UnlockedFrees
    <3>3. \A q \in Proc : pc'[q] \in {"lock", "locked"} => Locked(want'[q])
      BY <2>1
    <3> QED
      BY <3>1, <3>2, <3>3 DEF Locked
  <2>7. Absent'
    BY <2>1, <2>2, <2>3 DEF Present, Locked
  <2>8. Staging'
    BY <2>1, <2>2, <2>3
  <2>9. EntriesComplete'
    BY <2>1, <2>2, <2>3
  <2>10. Holding'
    BY <2>1, <2>2, <2>3 DEF gc
  <2> QED
    BY <2>4, <2>5, <2>6, <2>7, <2>8, <2>9, <2>10
<1>9. ASSUME NEW p \in Proc, Collides(p) PROVE CasInv'
  BY <1>9, GotoMoves DEF Collides, Present, Stops, Locked, gc, store
<1>10. ASSUME NEW p \in Proc, AfterCollision(p) PROVE CasInv'
  <2> USE <1>10 DEF AfterCollision
  <2>1. /\ pc' \in [Proc -> Stops] /\ want' \in [Proc -> Key \cup {NoKey}]
        /\ \/ pc'[p] = "idle"
           \/ pc'[p] = "use" /\ want'[p] = want[p]
        /\ \A q \in Proc \ {p} : pc'[q] = pc[q] /\ want'[q] = want[q]
    BY GotoMoves DEF Stops, AfterPublish
  <2>2. /\ tmp' \subseteq Stage
        /\ \A s \in tmp' : s.by # Nobody => s \in tmp /\ s.by # p
    BY AbandonedIsNobodys DEF StagesOf
  <2>3. TypeOK'
    BY <2>1, <2>2, UnlockedFrees DEF gc, Locked
  <2>4. Wanting'
    BY <2>1, <2>2
  <2>5. Locking'
    <3>1. /\ lock' = Unlocked(p)
          /\ \A k \in Key : lock'[k] # Nobody => lock'[k] = lock[k] /\ lock[k] # p /\ lock[k] \in Proc
          /\ \A k \in Key : lock[k] # p => lock'[k] = lock[k]
      BY UnlockedFrees
    <3>2. \A k \in Key : lock'[k] # Nobody => /\ want'[lock'[k]] = k
                                             /\ pc'[lock'[k]] \in {"locked", "touch"} \cup Building
      BY <2>1, <3>1
    <3>3. \A q \in Proc : pc'[q] \in {"lock", "locked"} => Locked(want'[q])
      BY <2>1
    <3>4. \A q \in Proc : pc'[q] \in {"locked"} \cup Building /\ Locked(want'[q]) => lock'[want'[q]] = q
      BY <2>1, <3>1
    <3> QED
      BY <3>2, <3>3, <3>4 DEF Locked
  <2>6. Absent'
    BY <2>1, <2>2 DEF Present, Locked
  <2>7. Staging'
    BY <2>1, <2>2
  <2>8. EntriesComplete'
    BY <2>1, <2>2
  <2>9. Holding'
    BY <2>1, <2>2 DEF gc
  <2> QED
    BY <2>3, <2>4, <2>5, <2>6, <2>7, <2>8, <2>9
<1>11. ASSUME NEW p \in Proc, Use(p) PROVE CasInv'
  BY <1>11, GotoMoves DEF Use, Present, Stops, Locked, gc, store
<1>12. ASSUME NEW p \in Proc, GcStart(p) PROVE CasInv'
  BY <1>12, GotoMoves DEF GcStart, Present, Stops, Locked, store
<1>13. ASSUME NEW p \in Proc, GcScan(p) PROVE CasInv'
  BY <1>13, GotoMoves DEF GcScan, Present, Stops, Locked, Never
<1>14. ASSUME NEW p \in Proc, GcTotal(p) PROVE CasInv'
  BY <1>14, GotoMoves, PresentCounts DEF GcTotal, Present, Stops, Locked, store, Count
<1>15. ASSUME NEW p \in Proc, NEW k \in Key, GcEvict(p, k) PROVE CasInv'
  <2> USE <1>15 DEF GcEvict
  <2>1. /\ pc' \in [Proc -> Stops] /\ want' \in [Proc -> Key \cup {NoKey}]
        /\ pc'[p] = "bury"
        /\ want'[p] = want[p]
        /\ \A q \in Proc \ {p} : pc'[q] = pc[q] /\ want'[q] = want[q]
    BY GotoMoves DEF Stops
  <2>2. /\ tmp' \subseteq Stage
        /\ \A s \in tmp' : s.by # Nobody => s.by = p \/ s \in tmp
    BY NewStageTyped
  <2>3. TypeOK'
    BY <2>1, <2>2 DEF Never, Locked
  <2>4. Wanting'
    BY <2>1, <2>2
  <2>5. Locking'
    BY <2>1, <2>2 DEF Locked
  <2>6. Absent'
    BY <2>1, <2>2 DEF Present, Locked
  <2>7. Staging'
    BY <2>1, <2>2
  <2>8. EntriesComplete'
    BY <2>1, <2>2
  <2>9. Holding'
    BY <2>1, <2>2 DEF gc
  <2> QED
    BY <2>3, <2>4, <2>5, <2>6, <2>7, <2>8, <2>9
<1>16. ASSUME NEW p \in Proc, GcBury(p) PROVE CasInv'
  BY <1>16, GotoMoves DEF GcBury, Present, Stops, Locked, gc, StagesOf
<1>17. ASSUME NEW p \in Proc, GcEnd(p) PROVE CasInv'
  BY <1>17, GotoMoves DEF GcEnd, Present, Stops, Locked, store, Never
<1>18. ASSUME NEW p \in Proc, Crash(p) PROVE CasInv'
  <2> USE <1>18 DEF Crash
  <2>1. /\ pc' \in [Proc -> Stops] /\ want' \in [Proc -> Key \cup {NoKey}]
        /\ pc'[p] = "idle"
        /\ want'[p] = NoKey
        /\ \A q \in Proc \ {p} : pc'[q] = pc[q] /\ want'[q] = want[q]
    BY GotoMoves DEF Stops
  <2>2. /\ tmp' \subseteq Stage
        /\ \A s \in tmp' : s.by # Nobody => s \in tmp /\ s.by # p
    BY AbandonedIsNobodys
  <2>3. TypeOK'
    BY <2>1, <2>2, UnlockedFrees DEF gc, Locked, Never
  <2>4. Wanting'
    BY <2>1, <2>2
  <2>5. Locking'
    BY <2>1, <2>2, UnlockedFrees DEF Locked
  <2>6. Absent'
    BY <2>1, <2>2 DEF Present, Locked
  <2>7. Staging'
    BY <2>1, <2>2
  <2>8. EntriesComplete'
    BY <2>1, <2>2
  <2>9. Holding'
    BY <2>1, <2>2 DEF gc
  <2> QED
    BY <2>3, <2>4, <2>5, <2>6, <2>7, <2>8, <2>9
<1>19. CASE Tick
  BY <1>19 DEF Tick, Present, Locked, store, gc
<1>20. CASE UNCHANGED vars
  BY <1>20 DEF vars, Present, Locked, store, gc
<1> QED
  BY <1>1, <1>2, <1>3, <1>4, <1>5, <1>6, <1>7, <1>8, <1>9, <1>10, <1>11, <1>12, <1>13, <1>14, <1>15,
     <1>16, <1>17, <1>18, <1>19, <1>20 DEF Next, Step, Command

LEMMA CasInvariant == Spec => []CasInv
BY CasInvInit, CasInvStep, PTL DEF Spec

(* A process that publishes adds an entry, so what there is to free only   *)
(* grows while the collector works.                                        *)
LEMMA MeasuredStep == CasInv /\ Measured /\ [Next]_vars => Measured'
<1> SUFFICES ASSUME CasInv, Measured, [Next]_vars PROVE Measured'
  OBVIOUS
<1> USE CasAssumption, PresentCounts DEF CasInv
<1>0. excess \in Int /\ Count \in Nat /\ Cap \in Nat
  BY DEF TypeOK
<1>1. CASE \E p \in Proc : Publish(p)
  <2>1. PICK p \in Proc : Publish(p)
    BY <1>1
  <2>2. want[p] \in Key /\ {k \in Key : Present(k)}' = {k \in Key : Present(k)} \cup {want[p]}
    BY <2>1 DEF Publish, TypeOK, Wanting, Building, Present
  <2>3. Count' >= Count /\ Count' \in Nat
    <3>1. Count' = Cardinality({k \in Key : Present(k)} \cup {want[p]})
      BY <2>2 DEF Count
    <3>2. Cardinality({k \in Key : Present(k)} \cup {want[p]}) \in {Count, Count + 1}
      <4> DEFINE S == {k \in Key : Present(k)}
      <4>1. IsFiniteSet(S) /\ Count = Cardinality(S)
        BY DEF Count
      <4> HIDE DEF S
      <4>2. Cardinality(S \cup {want[p]}) \in {Count, Count + 1}
        BY <4>1, FS_AddElement
      <4> QED
        BY <4>2 DEF S
    <3> QED
      BY <1>0, <3>1, <3>2
  <2>4. \A q \in Proc : pc'[q] \in {"evict", "bury"} => pc[q] \in {"evict", "bury"}
    BY <2>1 DEF Publish, AfterPublish, Goto, TypeOK
  <2> QED
    BY <1>0, <2>1, <2>3, <2>4 DEF Measured, Publish, gc
<1>2. CASE \E p \in Proc, k \in Key : GcEvict(p, k)
  <2>1. PICK p \in Proc, k \in Key : GcEvict(p, k)
    BY <1>2
  <2>2. {j \in Key : Present(j)}' = {j \in Key : Present(j)} \ {k}
    BY <2>1 DEF GcEvict, TypeOK, Present
  <2>3. Count' >= Count - 1 /\ Count' \in Nat
    <3>1. Count' = Cardinality({j \in Key : Present(j)} \ {k})
      BY <2>2 DEF Count
    <3>2. Cardinality({j \in Key : Present(j)} \ {k}) \in {Count, Count - 1}
      <4> DEFINE S == {j \in Key : Present(j)}
      <4>1. IsFiniteSet(S) /\ Count = Cardinality(S)
        BY DEF Count
      <4> HIDE DEF S
      <4>2. Cardinality(S \ {k}) \in {Count, Count - 1}
        BY <4>1, FS_RemoveElement
      <4> QED
        BY <4>2 DEF S
    <3>3. Count' \in Nat
      BY <2>2, <3>1, FS_RemoveElement, FS_CardinalityType, FS_Subset
    <3> QED
      BY <1>0, <3>1, <3>2, <3>3
  <2>4. excess <= Count - Cap /\ excess' = excess - 1
    BY <2>1 DEF GcEvict, Measured
  <2>5. excess' <= Count' - Cap
    <3>1. \A c \in Nat : c >= Count - 1 => excess - 1 <= c - Cap
      BY <1>0, <2>4
    <3> QED
      BY <2>3, <2>4, <3>1
  <2> QED
    BY <2>5 DEF Measured
<1>3. CASE \E p \in Proc : GcTotal(p)
  <2>1. PICK p \in Proc : GcTotal(p)
    BY <1>3
  <2>2. entry' = entry /\ excess' = Count - Cap
    BY <2>1 DEF GcTotal, store, Count
  <2>3. Count' = Count
    BY <2>2 DEF Count, Present
  <2> QED
    BY <1>0, <2>2, <2>3 DEF Measured
<1>4. CASE /\ entry' = entry
           /\ \A q \in Proc : pc'[q] \in {"evict", "bury"} => pc[q] \in {"evict", "bury"} /\ excess' = excess
  <2>1. Count' = Count
    BY <1>4 DEF Count, Present
  <2> QED
    BY <1>4, <2>1 DEF Measured
<1>5. ASSUME NEW p \in Proc, Step(p) \/ Command(p) \/ Crash(p),
             ~Publish(p), \A k \in Key : ~GcEvict(p, k), ~GcTotal(p)
      PROVE  Measured'
  <2>1. entry' = entry
    BY <1>5 DEF Step, Command, Start, Lock, Finds, Touch, Misses, Builds, BuildFails, Collides, AfterCollision,
      Use, GcStart, GcScan, GcBury, GcEnd, Crash, store, gc
  <2>2. ASSUME NEW q \in Proc, pc'[q] \in {"evict", "bury"}
        PROVE  pc[q] \in {"evict", "bury"} /\ excess' = excess
    <3>1. pc[q] \in {"evict", "bury"}
      BY <1>5, <2>2 DEF TypeOK, Step, Command, Start, Lock, Finds, Touch, Misses, Builds, BuildFails,
        Collides, AfterCollision, AfterPublish, Use, GcStart, GcScan, GcBury, GcEnd, Crash, Goto
    <3>2. gcLock = q
      BY <3>1 DEF Holding, Collecting
    <3>3. excess' = excess
      BY <1>5, <2>2, <3>2 DEF TypeOK, Holding, Collecting, Step, Command, Start, Lock, Finds, Touch,
        Misses, Builds, BuildFails, Collides, AfterCollision, Use, GcStart, GcScan, GcBury, GcEnd, Crash, Goto, gc
    <3> QED
      BY <3>1, <3>3
  <2> QED
    BY <1>4, <2>1, <2>2
<1>6. CASE Tick \/ UNCHANGED vars
  BY <1>4, <1>6 DEF Tick, vars, store, gc
<1> QED
  BY <1>1, <1>2, <1>3, <1>5, <1>6 DEF Next

-----------------------------------------------------------------------------
(* Every reachable state is well typed: who holds a lock works on its key, *)
(* and who owns a stage is at a stop of a build or of an eviction.         *)
THEOREM CasTypeOK == Spec => []TypeOK
BY CasInvariant, PTL DEF CasInv

(* A visible entry is complete, whatever fails or is killed.               *)
THEOREM VisibleIsComplete == Spec => []EntriesComplete
BY CasInvariant, PTL DEF CasInv

LEMMA CasInvKept == CasInv => StoreKept
BY CasAssumption DEF CasInv, TypeOK, Wanting, Locking, Absent, BuildsOnce, Building, StoreKept

(* Concurrent misses of a compiler or a native build build once.           *)
THEOREM OneBuildPerMiss == Spec => []BuildsOnce
BY CasInvKept, CasInvariant, PTL DEF StoreKept

(* Both: what a command finds in the store can be used.                    *)
THEOREM StoreIsKept == Spec => []StoreKept
BY CasInvKept, CasInvariant, PTL

LEMMA EvictsOverCap == Init /\ [][Next]_vars => GcKeepsCap
<1>1. Init => Measured
  BY DEF Init, Measured
<1>2. CasInv /\ Measured /\ [Next]_vars
        => [(\E k \in Key : Present(k) /\ ~Present(k)') => Count > Cap]_vars
  <2> SUFFICES ASSUME CasInv, Measured, Next, NEW k \in Key, Present(k), ~Present(k)'
               PROVE  Count > Cap
    OBVIOUS
  <2>1. PICK p \in Proc, j \in Key : GcEvict(p, j)
    BY DEF CasInv, TypeOK, Wanting, Building, Next, Step, Command, Start, Lock, Finds, Touch, Misses, Builds, BuildFails,
      Publish, Collides, AfterCollision, Use, GcStart, GcScan, GcTotal, GcBury, GcEnd, Crash, Tick, store, gc, Present
  <2>2. excess > 0 /\ excess <= Count - Cap
    BY <2>1 DEF GcEvict, MayEvict, Measured
  <2> QED
    BY <2>2, PresentCounts, CasAssumption DEF CasInv, TypeOK
<1> QED
  BY <1>1, <1>2, CasInvInit, CasInvStep, MeasuredStep, PTL DEF GcKeepsCap, Count

(* A collection never goes below the cap, whatever is published or stamped *)
(* while it works.                                                         *)
THEOREM CollectionStopsAtCap == Spec => GcKeepsCap
BY EvictsOverCap, PTL DEF Spec

-----------------------------------------------------------------------------
(* The cache of kernel replays.                                            *)

Pass == [module : Module, digest : 0..MaxChanges]
Contents == [toolchain : 0..MaxChanges, inputs : Library, passed : SUBSET Pass]
Check == [module : Module, inputs : Library, toolchain : 0..MaxChanges]

Typed ==
  /\ ReplayOK
  /\ cache \subseteq Contents
  /\ merging \subseteq SUBSET Pass
  /\ checked \subseteq Check

(* No recorded version is newer than the present one. *)
Older ==
  /\ \A a \in Audit : toolchain[a] <= runtime
  /\ \A a \in Audit, m \in Module : bound[a][m] <= olean[m] /\ digests[a][m] <= olean[m]
  /\ \A c \in cache : c.toolchain <= runtime
  /\ \A c \in cache, m \in Module : c.inputs[m] <= olean[m]
  /\ \A c \in cache : \A p \in c.passed : p.digest <= olean[p.module]
  /\ \A l \in merging : \A p \in l : p.digest <= olean[p.module]

(* An audit replays nothing before it is bound, and its digests are older  *)
(* than what it is bound to.                                               *)
Ordered ==
  /\ \A a \in Audit : apc[a] \in {"extract", "digest", "bind"} =>
       \A m \in Module : task[a][m] = "wait"
  /\ \A a \in Audit : apc[a] \notin {"off", "extract", "digest", "bind"} =>
       \A m \in Module : digests[a][m] <= bound[a][m]

(* The checker passed the module in the build the audit is bound to. *)
Backs(a, m) == [module |-> m, inputs |-> bound[a], toolchain |-> toolchain[a]] \in checked

PassBacked ==
  \A a \in Audit, m \in Module :
    task[a][m] = "pass" /\ olean = bound[a] /\ runtime = toolchain[a] => Backs(a, m)
MergedBacked ==
  \A a \in Audit, m \in Module :
    task[a][m] \in {"merge", "reused", "passed"} /\ runtime = toolchain[a] => Backs(a, m)
CacheBacked ==
  \A c \in cache : runtime = c.toolchain => \A p \in c.passed :
    [module |-> p.module, inputs |-> c.inputs, toolchain |-> c.toolchain] \in checked
LoadedBacked ==
  \A a \in Audit, m \in Module :
    Claims(a, m) /\ task[a][m] = "merge" /\ runtime = toolchain[a] =>
      \A l \in merging : \A p \in l : Backs(a, p.module)
CloseBacked ==
  \A a \in Audit : apc[a] = "close" => \A m \in Scope[a] : task[a][m] = "rejected" \/ Backs(a, m)

AllBacked == PassBacked /\ MergedBacked /\ CacheBacked /\ LoadedBacked /\ CloseBacked /\ PassedAsBound

Bound == Typed /\ Older /\ Ordered /\ AllBacked

-----------------------------------------------------------------------------
(* One claim of a module and one merge at a time; while nothing changes    *)
(* and nobody is killed, a check is under its claim or in the cache.       *)
Exclusive ==
  /\ \A a \in Audit, m \in Module : Claims(a, m) => m \in Scope[a]
  /\ \A a, b \in Audit, m \in Module : Claims(a, m) /\ Claims(b, m) => a = b
  /\ \A a, b \in Audit, m, n \in Module :
       /\ Claims(a, m) /\ task[a][m] = "merge"
       /\ Claims(b, n) /\ task[b][n] = "merge"
       => a = b /\ m = n

Calm == Unchanged /\ \A a \in Audit : apc[a] # "killed"

Cached(m) == \E c \in cache : \E p \in c.passed : p.module = m

Once ==
  /\ \A a \in Audit : apc[a] # "raise" /\ \A m \in Module : task[a][m] # "raised"
  /\ \A c \in checked :
       Cached(c.module) \/ \E a \in Audit : Claims(a, c.module) /\ task[a][c.module] \in {"pass", "merge"}
  /\ \A a \in Audit, m \in Module : Claims(a, m) /\ task[a][m] = "missed" => ~Cached(m)
  /\ \A a \in Audit, m \in Module : Claims(a, m) /\ task[a][m] = "merge" =>
       merging = {UNION {c.passed : c \in cache}}

ReplayInv == Bound /\ Exclusive /\ (Calm => Once)
-----------------------------------------------------------------------------
(* Helpers. *)

AuditStops ==
  {"off", "extract", "digest", "bind", "replay", "close", "raise", "passed", "failed", "error", "killed"}
TaskStops ==
  {"wait", "claimed", "missed", "pass", "merge", "reused", "passed", "rejected", "raised"}

LEMMA TasksMove ==
  ASSUME Typed, NEW a \in Audit, NEW m \in Module, NEW from, NEW to \in TaskStops, Tasks(a, m, from, to)
  PROVE  /\ apc[a] = "replay" /\ task[a][m] = from
         /\ task' \in [Audit -> [Module -> TaskStops]]
         /\ task'[a][m] = to
         /\ \A b \in Audit, n \in Module : b # a \/ n # m => task'[b][n] = task[b][n]
BY DEF Typed, ReplayOK, Tasks, TaskStops

LEMMA AuditsMove ==
  ASSUME Typed, NEW a \in Audit, NEW from, NEW to \in AuditStops, Audits(a, from, to)
  PROVE  /\ apc[a] = from /\ apc'[a] = to
         /\ apc' \in [Audit -> AuditStops]
         /\ \A b \in Audit : b # a => apc'[b] = apc[b]
BY DEF Typed, ReplayOK, Audits, AuditStops

LEMMA OwnTyped ==
  ASSUME Typed, NEW a \in Audit, NEW m \in Module
  PROVE  Own(a, m) \in Pass /\ Own(a, m).module = m /\ Own(a, m).digest = digests[a][m]
BY DEF Typed, ReplayOK, Own, Pass, Library

(* What an audit loads are passes of the build it is bound to. *)
LEMMA LoadedIsBound ==
  ASSUME Typed, NEW a \in Audit
  PROVE  /\ Loaded(a) \subseteq Pass
         /\ \A p \in Loaded(a) :
              \E c \in cache : p \in c.passed /\ c.inputs = bound[a] /\ c.toolchain = toolchain[a]
BY DEF Loaded, Typed, Contents

(* The values of a typed state. *)
LEMMA Values ==
  ASSUME Typed
  PROVE  /\ \A a \in Audit : apc[a] \in AuditStops /\ toolchain[a] \in Nat
         /\ \A a \in Audit, m \in Module : bound[a][m] \in Nat /\ digests[a][m] \in Nat /\ olean[m] \in Nat
         /\ \A a \in Audit, m \in Module : task[a][m] \in TaskStops
         /\ \A c \in cache : c.toolchain \in Nat /\ c.inputs \in Library /\ c.passed \subseteq Pass
         /\ \A c \in cache, m \in Module : c.inputs[m] \in Nat
         /\ runtime \in Nat
         /\ \A p \in Pass : p.module \in Module /\ p.digest \in Nat
         /\ \A l \in merging : l \subseteq Pass
BY ReplayAssumption DEF Typed, ReplayOK, Library, Pass, Contents, AuditStops, TaskStops

(* A check stays one of the build while the audit's bindings stay. *)
LEMMA BacksStays ==
  ASSUME UNCHANGED <<bound, toolchain>>, checked \subseteq checked'
  PROVE  \A a \in Audit, m \in Module : Backs(a, m) => Backs(a, m)'
BY DEF Backs

LEMMA StartsBound ==
  ASSUME NEW l \in {"off", "extract"}, ReplayAt(l)
  PROVE  Bound
BY ReplayAssumption DEF ReplayAt, Bound, Typed, ReplayOK, Library, Older, Ordered,
  AllBacked,
  PassBacked, MergedBacked, CacheBacked, LoadedBacked, CloseBacked, PassedAsBound, Claims

-----------------------------------------------------------------------------
(* Every step keeps what an audit may rely on. *)

LEMMA StepTyped == Typed /\ [ReplayNext]_replay => Typed'
<1> SUFFICES ASSUME Typed, [ReplayNext]_replay PROVE Typed'
  OBVIOUS
<1>1. ASSUME NEW a \in Audit, Extract(a) PROVE Typed'
  BY <1>1, AuditsMove, Values DEF Extract, world, Typed, ReplayOK, Library, AuditStops, TaskStops,
    Pass, Contents, Check
<1>2. ASSUME NEW a \in Audit, Digest(a) PROVE Typed'
  BY <1>2, AuditsMove, Values DEF Digest, world, Typed, ReplayOK, Library, AuditStops, TaskStops,
    Pass, Contents, Check
<1>3. ASSUME NEW a \in Audit, Bind(a) PROVE Typed'
  BY <1>3, AuditsMove, Values DEF Bind, world, Typed, ReplayOK, Library, AuditStops, TaskStops,
    Pass, Contents, Check
<1>4. ASSUME NEW a \in Audit, Collect(a) PROVE Typed'
  BY <1>4, AuditsMove, Values DEF Collect, world, Typed, ReplayOK, Library, AuditStops, TaskStops,
    Pass, Contents, Check
<1>5. ASSUME NEW a \in Audit, Close(a) PROVE Typed'
  BY <1>5, AuditsMove, Values DEF Close, world, Typed, ReplayOK, Library, AuditStops, TaskStops,
    Pass, Contents, Check
<1>6. ASSUME NEW a \in Audit, Withdraw(a) PROVE Typed'
  BY <1>6, AuditsMove, Values DEF Withdraw, world, Typed, ReplayOK, Library, AuditStops, TaskStops,
    Pass, Contents, Check
<1>7. ASSUME NEW a \in Audit, KillAudit(a) PROVE Typed'
  BY <1>7, Values DEF KillAudit, world, Typed, ReplayOK, Library, AuditStops, TaskStops, Pass,
    Contents, Check
<1>8. ASSUME NEW a \in Audit, NEW m \in Module, Claim(a, m) PROVE Typed'
  BY <1>8, TasksMove, Values DEF Claim, world, Typed, ReplayOK, Library, AuditStops, TaskStops,
    Pass, Contents, Check
<1>9. ASSUME NEW a \in Audit, NEW m \in Module, Look(a, m) PROVE Typed'
  BY <1>9, TasksMove, Values DEF Look, world, Typed, ReplayOK, Library, AuditStops, TaskStops,
    Pass, Contents, Check
<1>10. ASSUME NEW a \in Audit, NEW m \in Module, RunChecker(a, m) PROVE Typed'
  BY <1>10, TasksMove, Values DEF RunChecker, world, Typed, ReplayOK, Library, AuditStops,
    TaskStops, Pass, Contents, Check
<1>11. ASSUME NEW a \in Audit, NEW m \in Module, Merge(a, m) PROVE Typed'
  BY <1>11, TasksMove, LoadedIsBound DEF Merge, world, Typed, ReplayOK, Library, AuditStops,
    TaskStops, Pass, Contents, Check
<1>12. ASSUME NEW a \in Audit, NEW m \in Module, WriteCache(a, m) PROVE Typed'
  BY <1>12, TasksMove, OwnTyped DEF WriteCache, world, Typed, ReplayOK, Library, AuditStops,
    TaskStops, Pass, Contents, Check
<1>13. ASSUME NEW m \in Module, Rebuild(m) PROVE Typed'
  BY <1>13, Values DEF Rebuild, IsNew, audits, Typed, ReplayOK, Library, AuditStops, TaskStops,
    Pass, Contents, Check
<1>14. ASSUME Upgrade PROVE Typed'
  BY <1>14, Values DEF Upgrade, IsNew, audits, Typed, ReplayOK, Library, AuditStops, TaskStops,
    Pass, Contents, Check
<1>15. ASSUME UNCHANGED replay PROVE Typed'
  BY <1>15 DEF replay, audits, world, Typed, ReplayOK, Library, AuditStops, TaskStops, Pass,
    Contents, Check
<1> QED
  BY <1>1, <1>2, <1>3, <1>4, <1>5, <1>6, <1>7, <1>8, <1>9, <1>10, <1>11, <1>12, <1>13, <1>14,
    <1>15 DEF ReplayNext, ReplayRuns, AuditStep

LEMMA StepOlder == Typed /\ Older /\ [ReplayNext]_replay => Older'
<1> SUFFICES ASSUME Typed, Older, [ReplayNext]_replay PROVE Older'
  OBVIOUS
<1>1. ASSUME NEW a \in Audit, Extract(a) PROVE Older'
  BY <1>1, AuditsMove, Values DEF Extract, world, AuditStops, TaskStops, Older
<1>2. ASSUME NEW a \in Audit, Digest(a) PROVE Older'
  BY <1>2, AuditsMove, Values DEF Digest, world, AuditStops, TaskStops, Older
<1>3. ASSUME NEW a \in Audit, Bind(a) PROVE Older'
  BY <1>3, AuditsMove, Values DEF Bind, world, AuditStops, TaskStops, Older
<1>4. ASSUME NEW a \in Audit, Collect(a) PROVE Older'
  BY <1>4, AuditsMove, Values DEF Collect, world, AuditStops, TaskStops, Older
<1>5. ASSUME NEW a \in Audit, Close(a) PROVE Older'
  BY <1>5, AuditsMove, Values DEF Close, world, AuditStops, TaskStops, Older
<1>6. ASSUME NEW a \in Audit, Withdraw(a) PROVE Older'
  BY <1>6, AuditsMove, Values DEF Withdraw, world, AuditStops, TaskStops, Older
<1>7. ASSUME NEW a \in Audit, KillAudit(a) PROVE Older'
  BY <1>7, Values DEF KillAudit, world, AuditStops, TaskStops, Older
<1>8. ASSUME NEW a \in Audit, NEW m \in Module, Claim(a, m) PROVE Older'
  BY <1>8, TasksMove, Values DEF Claim, world, AuditStops, TaskStops, Older
<1>9. ASSUME NEW a \in Audit, NEW m \in Module, Look(a, m) PROVE Older'
  BY <1>9, TasksMove, Values DEF Look, world, AuditStops, TaskStops, Older
<1>10. ASSUME NEW a \in Audit, NEW m \in Module, RunChecker(a, m) PROVE Older'
  BY <1>10, TasksMove, Values DEF RunChecker, world, AuditStops, TaskStops, Older
<1>11. ASSUME NEW a \in Audit, NEW m \in Module, Merge(a, m) PROVE Older'
  <2>1. \A l \in merging' : l \in merging \/ l = Loaded(a)
    BY <1>11 DEF Merge
  <2>2. \A p \in Loaded(a) : p.digest <= olean[p.module]
    BY LoadedIsBound DEF Older
  <2> QED
    BY <2>1, <2>2, <1>11 DEF Merge, world, Older
<1>12. ASSUME NEW a \in Audit, NEW m \in Module, WriteCache(a, m) PROVE Older'
  <2>1. \A c \in cache' : /\ c.toolchain = toolchain[a] /\ c.inputs = bound[a]
                           /\ \A p \in c.passed : p = Own(a, m) \/ \E l \in merging : p \in l
    BY <1>12 DEF WriteCache
  <2>2. merging' = {} /\ UNCHANGED <<toolchain, bound, digests, olean, runtime>>
    BY <1>12 DEF WriteCache, world
  <2> QED
    BY <2>1, <2>2, OwnTyped DEF Older
<1>13. ASSUME NEW m \in Module, Rebuild(m) PROVE Older'
  <2>1. \A n \in Module : olean[n] <= olean'[n] /\ {olean[n], olean'[n]} \subseteq Int
    BY <1>13, Values DEF Rebuild, IsNew, Typed, ReplayOK, Library
  <2>2. UNCHANGED <<toolchain, bound, digests, runtime, cache, merging>>
    BY <1>13 DEF Rebuild, audits
  <2>3. \A a \in Audit, n \in Module : bound[a][n] <= olean'[n] /\ digests[a][n] <= olean'[n]
    BY <2>1, Values DEF Older
  <2>4. \A c \in cache, n \in Module : c.inputs[n] <= olean'[n]
    BY <2>1, Values DEF Older, Library
  <2>5. \A p \in Pass : p.digest <= olean[p.module] => p.digest <= olean'[p.module]
    BY <2>1, Values DEF Typed, ReplayOK, Library, Pass
  <2> QED
    BY <2>2, <2>3, <2>4, <2>5, Values DEF Older
<1>14. ASSUME Upgrade PROVE Older'
  BY <1>14, Values DEF Upgrade, IsNew, audits, AuditStops, TaskStops, Older
<1>15. ASSUME UNCHANGED replay PROVE Older'
  BY <1>15 DEF replay, audits, world, AuditStops, TaskStops, Older
<1> QED
  BY <1>1, <1>2, <1>3, <1>4, <1>5, <1>6, <1>7, <1>8, <1>9, <1>10, <1>11, <1>12, <1>13, <1>14,
    <1>15 DEF ReplayNext, ReplayRuns, AuditStep

LEMMA StepOrdered == Typed /\ Older /\ Ordered /\ [ReplayNext]_replay => Ordered'
<1> SUFFICES ASSUME Typed, Older, Ordered, [ReplayNext]_replay PROVE Ordered'
  OBVIOUS
<1>1. ASSUME NEW a \in Audit, Extract(a) PROVE Ordered'
  BY <1>1, AuditsMove, Values DEF Extract, world, AuditStops, TaskStops, Older, Ordered
<1>2. ASSUME NEW a \in Audit, Digest(a) PROVE Ordered'
  BY <1>2, AuditsMove, Values DEF Digest, world, AuditStops, TaskStops, Older, Ordered
<1>3. ASSUME NEW a \in Audit, Bind(a) PROVE Ordered'
  <2>1. /\ bound'[a] = olean
        /\ \A b \in Audit : b # a => bound'[b] = bound[b]
        /\ UNCHANGED <<digests, task>>
    BY <1>3 DEF Bind, Typed, ReplayOK
  <2>2. apc'[a] \in {"replay", "error"} /\ \A b \in Audit : b # a => apc'[b] = apc[b]
    BY <1>3, AuditsMove DEF Bind, AuditStops
  <2> QED
    BY <2>1, <2>2 DEF Older, Ordered
<1>4. ASSUME NEW a \in Audit, Collect(a) PROVE Ordered'
  BY <1>4, AuditsMove, Values DEF Collect, world, AuditStops, TaskStops, Older, Ordered
<1>5. ASSUME NEW a \in Audit, Close(a) PROVE Ordered'
  BY <1>5, AuditsMove, Values DEF Close, world, AuditStops, TaskStops, Older, Ordered
<1>6. ASSUME NEW a \in Audit, Withdraw(a) PROVE Ordered'
  BY <1>6, AuditsMove, Values DEF Withdraw, world, AuditStops, TaskStops, Older, Ordered
<1>7. ASSUME NEW a \in Audit, KillAudit(a) PROVE Ordered'
  BY <1>7, Values DEF KillAudit, world, AuditStops, TaskStops, Older, Ordered
<1>8. ASSUME NEW a \in Audit, NEW m \in Module, Claim(a, m) PROVE Ordered'
  BY <1>8, TasksMove, Values DEF Claim, world, AuditStops, TaskStops, Older, Ordered
<1>9. ASSUME NEW a \in Audit, NEW m \in Module, Look(a, m) PROVE Ordered'
  BY <1>9, TasksMove, Values DEF Look, world, AuditStops, TaskStops, Older, Ordered
<1>10. ASSUME NEW a \in Audit, NEW m \in Module, RunChecker(a, m) PROVE Ordered'
  BY <1>10, TasksMove, Values DEF RunChecker, world, AuditStops, TaskStops, Older, Ordered
<1>11. ASSUME NEW a \in Audit, NEW m \in Module, Merge(a, m) PROVE Ordered'
  BY <1>11, TasksMove, Values DEF Merge, world, AuditStops, TaskStops, Older, Ordered
<1>12. ASSUME NEW a \in Audit, NEW m \in Module, WriteCache(a, m) PROVE Ordered'
  BY <1>12, TasksMove DEF WriteCache, TaskStops, Ordered
<1>13. ASSUME NEW m \in Module, Rebuild(m) PROVE Ordered'
  BY <1>13, Values DEF Rebuild, IsNew, audits, AuditStops, TaskStops, Older, Ordered
<1>14. ASSUME Upgrade PROVE Ordered'
  BY <1>14, Values DEF Upgrade, IsNew, audits, AuditStops, TaskStops, Older, Ordered
<1>15. ASSUME UNCHANGED replay PROVE Ordered'
  BY <1>15 DEF replay, audits, world, AuditStops, TaskStops, Older, Ordered
<1> QED
  BY <1>1, <1>2, <1>3, <1>4, <1>5, <1>6, <1>7, <1>8, <1>9, <1>10, <1>11, <1>12, <1>13, <1>14,
    <1>15 DEF ReplayNext, ReplayRuns, AuditStep

LEMMA StepBacked == Typed /\ Older /\ Ordered /\ AllBacked /\ [ReplayNext]_replay => AllBacked'
<1> SUFFICES ASSUME Typed, Older, Ordered, AllBacked, [ReplayNext]_replay PROVE AllBacked'
  OBVIOUS
<1> USE ReplayAssumption, Values DEF AllBacked
<1>1. ASSUME NEW a \in Audit, Extract(a) PROVE AllBacked'
  <2>1. /\ \A b \in Audit : b # a => toolchain'[b] = toolchain[b]
        /\ UNCHANGED <<task, bound, olean, runtime, checked, cache, merging>>
    BY <1>1 DEF Extract, world, Typed, ReplayOK
  <2>2. \A m \in Module : task[a][m] = "wait"
    BY <1>1, AuditsMove DEF Extract, Ordered, AuditStops
  <2>3. apc'[a] = "digest" /\ \A b \in Audit : b # a => apc'[b] = apc[b]
    BY <1>1, AuditsMove DEF Extract, AuditStops
  <2>4. \A b \in Audit, m \in Module : b # a /\ Backs(b, m) => Backs(b, m)'
    BY <2>1 DEF Backs
  <2> QED
    BY <2>1, <2>2, <2>3, <2>4 DEF PassBacked, MergedBacked, CacheBacked, LoadedBacked, CloseBacked,
      PassedAsBound, Claims, Backs
<1>2. ASSUME NEW a \in Audit, Digest(a) PROVE AllBacked'
  <2>1. UNCHANGED <<task, bound, toolchain, olean, runtime, checked, cache, merging>>
    BY <1>2 DEF Digest, world
  <2>2. apc'[a] = "bind" /\ \A b \in Audit : b # a => apc'[b] = apc[b]
    BY <1>2, AuditsMove DEF Digest, AuditStops
  <2> QED
    BY <2>1, <2>2 DEF PassBacked, MergedBacked, CacheBacked, LoadedBacked, CloseBacked,
      PassedAsBound,
      Claims, Backs
<1>3. ASSUME NEW a \in Audit, Bind(a) PROVE AllBacked'
  <2>1. /\ \A b \in Audit : b # a => bound'[b] = bound[b]
        /\ UNCHANGED <<task, toolchain, olean, runtime, checked, cache, merging>>
    BY <1>3 DEF Bind, world, Typed, ReplayOK
  <2>2. \A m \in Module : task[a][m] = "wait"
    BY <1>3, AuditsMove DEF Bind, Ordered, AuditStops
  <2>3. apc'[a] \in {"replay", "error"} /\ \A b \in Audit : b # a => apc'[b] = apc[b]
    BY <1>3, AuditsMove DEF Bind, AuditStops
  <2>4. \A b \in Audit, m \in Module : b # a /\ Backs(b, m) => Backs(b, m)'
    BY <2>1 DEF Backs
  <2> QED
    BY <2>1, <2>2, <2>3, <2>4 DEF PassBacked, MergedBacked, CacheBacked, LoadedBacked, CloseBacked,
      PassedAsBound, Claims, Backs
<1>4. ASSUME NEW a \in Audit, Collect(a) PROVE AllBacked'
  <2>1. UNCHANGED <<task, bound, toolchain, olean, runtime, checked, cache, merging>>
    BY <1>4 DEF Collect, world
  <2>2. /\ apc[a] = "replay" /\ apc'[a] \in {"raise", "close"}
        /\ \A b \in Audit : b # a => apc'[b] = apc[b]
        /\ apc'[a] = "close" => /\ runtime = toolchain[a]
                                /\ \A m \in Scope[a] : task[a][m] \notin {"wait", "raised"}
    BY <1>4, AuditsMove DEF Collect, AuditStops
  <2>3. apc'[a] = "close" => \A m \in Scope[a] : task[a][m] = "rejected" \/ Backs(a, m)
    <3>1. \A m \in Scope[a] : task[a][m] \notin {"claimed", "missed", "pass", "merge"}
      BY <1>4, <2>2 DEF Collect, Claims
    <3> QED
      BY <2>2, <3>1 DEF MergedBacked, TaskStops
  <2> QED
    BY <2>1, <2>2, <2>3 DEF PassBacked, MergedBacked, CacheBacked, LoadedBacked, CloseBacked,
      PassedAsBound, Claims, Backs
<1>5. ASSUME NEW a \in Audit, Close(a) PROVE AllBacked'
  <2>1. UNCHANGED <<task, bound, toolchain, olean, runtime, checked, cache, merging>>
    BY <1>5 DEF Close, world
  <2>2. /\ apc[a] = "close" /\ apc'[a] \in {"raise", "failed", "passed"}
        /\ apc'[a] = "passed" => \A m \in Scope[a] : task[a][m] # "rejected"
        /\ \A b \in Audit : b # a => apc'[b] = apc[b]
    BY <1>5, AuditsMove DEF Close, AuditStops
  <2> QED
    BY <2>1, <2>2 DEF PassBacked, MergedBacked, CacheBacked, LoadedBacked, CloseBacked,
      PassedAsBound,
      Claims, Backs
<1>6. ASSUME NEW a \in Audit, Withdraw(a) PROVE AllBacked'
  <2>1. /\ UNCHANGED <<task, bound, toolchain, olean, runtime, checked, merging>>
        /\ cache' \subseteq cache
    BY <1>6 DEF Withdraw, world
  <2>2. apc'[a] = "error" /\ \A b \in Audit : b # a => apc'[b] = apc[b]
    BY <1>6, AuditsMove DEF Withdraw, AuditStops
  <2> QED
    BY <2>1, <2>2 DEF PassBacked, MergedBacked, CacheBacked, LoadedBacked, CloseBacked,
      PassedAsBound,
      Claims, Backs
<1>7. ASSUME NEW a \in Audit, KillAudit(a) PROVE AllBacked'
  <2>1. /\ UNCHANGED <<task, bound, toolchain, olean, runtime, checked, cache>>
        /\ merging' \subseteq merging
    BY <1>7 DEF KillAudit, world
  <2>2. apc'[a] = "killed" /\ \A b \in Audit : b # a => apc'[b] = apc[b]
    BY <1>7 DEF KillAudit, Typed, ReplayOK
  <2> QED
    BY <2>1, <2>2 DEF PassBacked, MergedBacked, CacheBacked, LoadedBacked, CloseBacked,
      PassedAsBound,
      Claims, Backs
<1>8. ASSUME NEW a \in Audit, NEW m \in Module, Claim(a, m) PROVE AllBacked'
  <2>1. UNCHANGED <<apc, bound, toolchain, olean, runtime, checked, cache, merging>>
    BY <1>8 DEF Claim, world
  <2>2. /\ task'[a][m] = "claimed" /\ apc[a] = "replay"
        /\ \A b \in Audit, n \in Module : b # a \/ n # m => task'[b][n] = task[b][n]
    BY <1>8, TasksMove DEF Claim, TaskStops
  <2> QED
    BY <2>1, <2>2 DEF PassBacked, MergedBacked, CacheBacked, LoadedBacked, CloseBacked,
      PassedAsBound,
      Claims, Backs
<1>9. ASSUME NEW a \in Audit, NEW m \in Module, Look(a, m) PROVE AllBacked'
  <2>1. UNCHANGED <<apc, bound, toolchain, olean, runtime, checked, cache, merging>>
    BY <1>9 DEF Look, world
  <2>2. /\ task'[a][m] \in {"reused", "missed"} /\ apc[a] = "replay"
        /\ task'[a][m] = "reused" => Own(a, m) \in Loaded(a)
        /\ \A b \in Audit, n \in Module : b # a \/ n # m => task'[b][n] = task[b][n]
    BY <1>9, TasksMove DEF Look, TaskStops
  <2>3. Own(a, m) \in Loaded(a) /\ runtime = toolchain[a] => Backs(a, m)
    BY LoadedIsBound, OwnTyped DEF CacheBacked, Backs
  <2> QED
    BY <2>1, <2>2, <2>3 DEF PassBacked, MergedBacked, CacheBacked, LoadedBacked, CloseBacked,
      PassedAsBound, Claims, Backs
<1>10. ASSUME NEW a \in Audit, NEW m \in Module, RunChecker(a, m) PROVE AllBacked'
  <2>1. /\ UNCHANGED <<apc, bound, toolchain, olean, runtime, cache, merging>>
        /\ checked \subseteq checked'
    BY <1>10 DEF RunChecker, world
  <2>2. /\ task'[a][m] \in {"pass", "rejected"} /\ apc[a] = "replay"
        /\ \A b \in Audit, n \in Module : b # a \/ n # m => task'[b][n] = task[b][n]
    BY <1>10, TasksMove DEF RunChecker, TaskStops
  <2>3. task'[a][m] = "pass" => [module |-> m, inputs |-> olean, toolchain |-> runtime] \in checked'
    BY <1>10, TasksMove DEF RunChecker, TaskStops
  <2>4. \A b \in Audit, n \in Module : Backs(b, n) => Backs(b, n)'
    BY <2>1, BacksStays
  <2>5. task'[a][m] = "pass" /\ olean = bound[a] /\ runtime = toolchain[a] => Backs(a, m)'
    BY <2>1, <2>3 DEF Backs
  <2>6. PassBacked' /\ MergedBacked'
    BY <2>1, <2>2, <2>4, <2>5 DEF PassBacked, MergedBacked
  <2>7. CacheBacked'
    BY <2>1 DEF CacheBacked
  <2>8. LoadedBacked'
    BY <2>1, <2>2, <2>4 DEF LoadedBacked, Claims
  <2>9. CloseBacked' /\ PassedAsBound'
    BY <2>1, <2>2, <2>4 DEF CloseBacked, PassedAsBound
  <2> QED
    BY <2>6, <2>7, <2>8, <2>9
<1>11. ASSUME NEW a \in Audit, NEW m \in Module, Merge(a, m) PROVE AllBacked'
  <2>1. UNCHANGED <<apc, bound, toolchain, olean, runtime, checked, cache>>
    BY <1>11 DEF Merge, world
  <2>2. /\ task[a][m] = "pass" /\ apc[a] = "replay"
        /\ task'[a][m] \in {"merge", "raised"}
        /\ task'[a][m] = "merge" => olean = bound[a] /\ merging' = {Loaded(a)}
        /\ \A b \in Audit, n \in Module : b # a \/ n # m => task'[b][n] = task[b][n]
    BY <1>11, TasksMove DEF Merge, TaskStops
  <2>3. \A b \in Audit, n \in Module : ~(Claims(b, n) /\ task[b][n] = "merge")
    BY <1>11 DEF Merge
  <2>4. \A b \in Audit, n \in Module : Backs(b, n)' <=> Backs(b, n)
    BY <2>1 DEF Backs
  <2>5. \A p \in Loaded(a) : runtime = toolchain[a] => Backs(a, p.module)
    BY LoadedIsBound DEF CacheBacked, Backs
  <2>6. PassBacked' /\ MergedBacked'
    BY <2>1, <2>2, <2>4 DEF PassBacked, MergedBacked
  <2>7. CacheBacked'
    BY <2>1 DEF CacheBacked
  <2>8. LoadedBacked'
    <3> SUFFICES ASSUME NEW b \in Audit, NEW n \in Module,
                        Claims(b, n)', task'[b][n] = "merge", runtime' = toolchain'[b],
                        NEW l \in merging', NEW p \in l
                 PROVE  Backs(b, p.module)'
      BY DEF LoadedBacked
    <3>1. b = a /\ n = m
      BY <2>1, <2>2, <2>3 DEF Claims
    <3>2. l = Loaded(a)
      BY <2>2, <3>1
    <3>3. p.module \in Module
      BY <3>2, LoadedIsBound
    <3> QED
      BY <2>1, <2>4, <2>5, <3>1, <3>2, <3>3
  <2>9. CloseBacked' /\ PassedAsBound'
    BY <2>1, <2>2, <2>4 DEF CloseBacked, PassedAsBound
  <2> QED
    BY <2>6, <2>7, <2>8, <2>9
<1>12. ASSUME NEW a \in Audit, NEW m \in Module, WriteCache(a, m) PROVE AllBacked'
  <2>1. UNCHANGED <<apc, bound, toolchain, olean, runtime, checked>> /\ merging' = {}
    BY <1>12 DEF WriteCache, world
  <2>2. /\ task[a][m] = "merge" /\ apc[a] = "replay"
        /\ task'[a][m] = "passed"
        /\ \A b \in Audit, n \in Module : b # a \/ n # m => task'[b][n] = task[b][n]
    BY <1>12, TasksMove DEF WriteCache, TaskStops
  <2>3. \A b \in Audit, n \in Module : Backs(b, n)' <=> Backs(b, n)
    BY <2>1 DEF Backs
  <2>4. \A c \in cache' : /\ c.toolchain = toolchain[a] /\ c.inputs = bound[a]
                          /\ \A p \in c.passed : p = Own(a, m) \/ \E l \in merging : p \in l
    BY <1>12 DEF WriteCache
  <2>5. runtime = toolchain[a] => Backs(a, m) /\ \A l \in merging : \A p \in l : Backs(a, p.module)
    BY <2>2 DEF MergedBacked, LoadedBacked, Claims
  <2>6. PassBacked' /\ MergedBacked'
    BY <2>1, <2>2, <2>3 DEF PassBacked, MergedBacked
  <2>7. CacheBacked'
    BY <2>1, <2>4, <2>5, OwnTyped DEF CacheBacked, Backs
  <2>8. LoadedBacked'
    BY <2>1 DEF LoadedBacked
  <2>9. CloseBacked' /\ PassedAsBound'
    BY <2>1, <2>2, <2>3 DEF CloseBacked, PassedAsBound
  <2> QED
    BY <2>6, <2>7, <2>8, <2>9
<1>13. ASSUME NEW m \in Module, Rebuild(m) PROVE AllBacked'
  <2>1. UNCHANGED <<audits, runtime, checked, cache, merging>>
    BY <1>13 DEF Rebuild
  <2>2. \A a \in Audit : olean' # bound[a]
    <3>1. \A a \in Audit : bound[a][m] < olean'[m]
      BY <1>13 DEF Rebuild, IsNew, Older, Typed, ReplayOK, Library
    <3> QED
      BY <3>1, <1>13 DEF Rebuild, IsNew, Typed, ReplayOK, Library
  <2> QED
    BY <2>1, <2>2 DEF PassBacked, MergedBacked, CacheBacked, LoadedBacked, CloseBacked,
      PassedAsBound,
      Claims, Backs, audits
<1>14. ASSUME Upgrade PROVE AllBacked'
  <2>1. UNCHANGED <<audits, olean, checked, cache, merging>>
    BY <1>14 DEF Upgrade
  <2>2. runtime' > runtime /\ runtime' \in Int
    BY <1>14 DEF Upgrade, IsNew
  <2>3. /\ \A a \in Audit : runtime' # toolchain[a]
        /\ \A c \in cache : runtime' # c.toolchain
    BY <2>2 DEF Older
  <2> QED
    BY <2>1, <2>3 DEF PassBacked, MergedBacked, CacheBacked, LoadedBacked, CloseBacked,
      PassedAsBound,
      Claims, Backs, audits
<1>15. ASSUME UNCHANGED replay PROVE AllBacked'
  BY <1>15 DEF replay, audits, world, PassBacked, MergedBacked, CacheBacked, LoadedBacked,
    CloseBacked,
    PassedAsBound, Claims, Backs
<1> QED
  BY <1>1, <1>2, <1>3, <1>4, <1>5, <1>6, <1>7, <1>8, <1>9, <1>10, <1>11, <1>12, <1>13, <1>14, <1>15
    DEF ReplayNext, ReplayRuns, AuditStep

LEMMA StepBound == Bound /\ [ReplayNext]_replay => Bound'
BY StepTyped, StepOlder, StepOrdered, StepBacked DEF Bound

LEMMA BoundBacks == Bound => PassedAsBound /\ AcceptedIsChecked
<1> SUFFICES ASSUME Bound, NEW a \in Audit, Accepted(a), NEW m \in Scope[a]
             PROVE  \E c \in checked :
                      /\ c.module = m /\ c.toolchain = toolchain[a]
                      /\ \A n \in Scope[a] : c.inputs[n] = digests[a][n]
  BY DEF Bound, AllBacked, AcceptedIsChecked
<1> Scope[a] \subseteq Module
  BY ReplayAssumption
<1>1. [module |-> m, inputs |-> bound[a], toolchain |-> toolchain[a]] \in checked
  BY DEF Accepted, Bound, AllBacked, PassedAsBound
<1>2. \A n \in Module : digests[a][n] <= bound[a][n] /\ bound[a][n] <= olean[n]
  BY DEF Accepted, Bound, Older, Ordered
<1>3. \A n \in Scope[a] : olean[n] = digests[a][n]
  BY DEF Accepted
<1>4. \A n \in Module : bound[a][n] \in Int /\ digests[a][n] \in Int /\ olean[n] \in Int
  BY Values DEF Bound
<1>5. \A n \in Scope[a] : bound[a][n] = digests[a][n]
  BY <1>2, <1>3, <1>4
<1> QED
  BY <1>1, <1>5

(* A replay that passes is backed by checks of the very library and        *)
(* toolchain it is bound to, whatever changed in between, and a report     *)
(* that is accepted by checks of the bytes it names: the safety part of    *)
(* ReplayKept, for every number of audits, modules and changes.            *)
THEOREM PassesAreBacked == ReplaySpec => [](PassedAsBound /\ AcceptedIsChecked)
<1>1. ReplayInit => Bound
  BY StartsBound DEF ReplayInit
<1> QED
  BY <1>1, StepBound, BoundBacks, PTL DEF ReplaySpec

-----------------------------------------------------------------------------
(* Claims exclude one another. *)

(* A step takes at most one claim, and begins at most one merge. *)
LEMMA StepClaims ==
  ASSUME Bound, [ReplayNext]_replay, NEW b \in Audit, NEW n \in Module, Claims(b, n)'
  PROVE  \/ Claims(b, n)
         \/ Claim(b, n) /\ task'[b][n] = "claimed"
<1> USE DEF Bound
<1>1. ASSUME NEW a \in Audit, Extract(a) \/ Digest(a) \/ Bind(a) \/ Collect(a) \/ Close(a) \/ Withdraw(a)
      PROVE  Claims(b, n)
  <2>1. apc' = [apc EXCEPT ![a] = apc'[a]] /\ task' = task /\ (apc'[a] = "replay" => apc[a] = "bind")
    BY <1>1, Values DEF Extract, Digest, Bind, Collect, Close, Withdraw, Audits, Typed, ReplayOK
  <2> QED
    BY <2>1 DEF Claims, Ordered, Typed, ReplayOK
<1>2. ASSUME NEW a \in Audit, KillAudit(a) PROVE Claims(b, n)
  BY <1>2 DEF KillAudit, Claims, Typed, ReplayOK
<1>3. ASSUME NEW a \in Audit, NEW m \in Module,
             Look(a, m) \/ RunChecker(a, m) \/ Merge(a, m) \/ WriteCache(a, m)
      PROVE  Claims(b, n)
  <2>1. /\ apc' = apc /\ apc[a] = "replay" /\ task[a][m] \in {"claimed", "missed", "pass", "merge"}
        /\ \A c \in Audit, k \in Module : c # a \/ k # m => task'[c][k] = task[c][k]
    BY <1>3 DEF Look, RunChecker, Merge, WriteCache, Tasks, Typed, ReplayOK
  <2> QED
    BY <2>1 DEF Claims
<1>4. ASSUME NEW a \in Audit, NEW m \in Module, Claim(a, m)
      PROVE  Claims(b, n) \/ (Claim(b, n) /\ task'[b][n] = "claimed")
  <2>1. /\ apc' = apc /\ task'[a][m] = "claimed"
        /\ \A c \in Audit, k \in Module : c # a \/ k # m => task'[c][k] = task[c][k]
    BY <1>4 DEF Claim, Tasks, Typed, ReplayOK
  <2> QED
    BY <2>1, <1>4 DEF Claims
<1>5. CASE Upgrade \/ (\E m \in Module : Rebuild(m)) \/ UNCHANGED replay
  BY <1>5 DEF Upgrade, Rebuild, replay, audits, Claims
<1> QED
  BY <1>1, <1>2, <1>3, <1>4, <1>5 DEF ReplayNext, ReplayRuns, AuditStep


LEMMA StepMerges ==
  ASSUME Bound, [ReplayNext]_replay, NEW b \in Audit, NEW n \in Module,
         Claims(b, n)', task'[b][n] = "merge"
  PROVE  \/ Claims(b, n) /\ task[b][n] = "merge"
         \/ Merge(b, n)
<1> USE DEF Bound
<1>1. ~(Claim(b, n) /\ task'[b][n] = "claimed")
  OBVIOUS
<1>2. Claims(b, n)
  BY <1>1, StepClaims
<1>3. task[b][n] = "merge" \/ Merge(b, n)
  <2>1. ASSUME NEW a \in Audit, NEW m \in Module,
               Claim(a, m) \/ Look(a, m) \/ RunChecker(a, m) \/ WriteCache(a, m)
        PROVE  task[b][n] = "merge"
    <3>1. /\ task'[a][m] # "merge"
          /\ \A c \in Audit, k \in Module : c # a \/ k # m => task'[c][k] = task[c][k]
      BY <2>1 DEF Claim, Look, RunChecker, WriteCache, Tasks, Typed, ReplayOK
    <3> QED
      BY <3>1
  <2>2. ASSUME NEW a \in Audit, NEW m \in Module, Merge(a, m)
        PROVE  task[b][n] = "merge" \/ Merge(b, n)
    <3>1. \A c \in Audit, k \in Module : c # a \/ k # m => task'[c][k] = task[c][k]
      BY <2>2 DEF Merge, Tasks, Typed, ReplayOK
    <3> QED
      BY <3>1, <2>2
  <2>3. ASSUME task' = task PROVE task[b][n] = "merge"
    BY <2>3
  <2> QED
    BY <2>1, <2>2, <2>3 DEF ReplayNext, ReplayRuns, AuditStep, Extract, Digest, Bind, Collect,
      Close,
      Withdraw, KillAudit, Upgrade, Rebuild, replay, audits
<1> QED
  BY <1>2, <1>3

LEMMA StepExclusive ==
  ASSUME Bound, Exclusive, [ReplayNext]_replay
  PROVE  Exclusive'
<1>1. ASSUME NEW a \in Audit, NEW m \in Module, Claims(a, m)' PROVE m \in Scope[a]
  BY <1>1, StepClaims DEF Exclusive, Claim
<1>2. ASSUME NEW a \in Audit, NEW b \in Audit, NEW m \in Module, Claims(a, m)', Claims(b, m)'
      PROVE  a = b
  <2>1. (Claims(a, m) \/ Claim(a, m)) /\ (Claims(b, m) \/ Claim(b, m))
    BY <1>2, StepClaims
  <2>2. CASE Claims(a, m) /\ Claims(b, m)
    BY <2>2 DEF Exclusive
  <2>3. CASE Claim(a, m) /\ Claim(b, m)
    BY <2>3 DEF Claim, Tasks, Bound, Typed, ReplayOK
  <2> QED
    BY <2>1, <2>2, <2>3 DEF Claim
<1>3. ASSUME NEW a \in Audit, NEW b \in Audit, NEW m \in Module, NEW n \in Module,
             Claims(a, m)', task'[a][m] = "merge", Claims(b, n)', task'[b][n] = "merge"
      PROVE  a = b /\ m = n
  <2>1. /\ (Claims(a, m) /\ task[a][m] = "merge") \/ Merge(a, m)
        /\ (Claims(b, n) /\ task[b][n] = "merge") \/ Merge(b, n)
    BY <1>3, StepMerges
  <2>2. CASE Merge(a, m) /\ Merge(b, n)
    BY <2>2, <1>3 DEF Merge, Tasks, Bound, Typed, ReplayOK
  <2>3. CASE ~Merge(a, m) /\ ~Merge(b, n)
    BY <2>1, <2>3 DEF Exclusive
  <2> QED
    BY <2>1, <2>2, <2>3 DEF Merge
<1> QED
  BY <1>1, <1>2, <1>3 DEF Exclusive

-----------------------------------------------------------------------------
(* No module is checked twice while nothing changes. *)

LEMMA CalmBindings ==
  ASSUME Bound, Calm, NEW a \in Audit
  PROVE  /\ toolchain[a] = 0 /\ bound[a] = olean /\ runtime = 0
         /\ Loaded(a) = UNION {c.passed : c \in cache}
         /\ \A m \in Module : Own(a, m) \in Loaded(a) <=> Cached(m)
<1> USE Values DEF Bound, Calm, Unchanged
<1>1. toolchain[a] = 0 /\ runtime = 0 /\ \A m \in Module : bound[a][m] = 0 /\ digests[a][m] = 0
  BY DEF Older
<1>2. bound[a] = olean
  BY <1>1 DEF Typed, ReplayOK, Library
<1>3. \A c \in cache : c.toolchain = 0 /\ c.inputs = olean
  <2>1. \A c \in cache : c.toolchain = 0 /\ \A m \in Module : c.inputs[m] = 0
    BY DEF Older
  <2> QED
    BY <2>1 DEF Typed, ReplayOK, Library
<1>4. \A c \in cache : \A p \in c.passed : p \in Pass /\ p.digest = 0
  BY DEF Older
<1>5. Loaded(a) = UNION {c.passed : c \in cache}
  <2>1. {d \in cache : d.inputs = bound[a] /\ d.toolchain = toolchain[a]} = cache
    BY <1>1, <1>2, <1>3
  <2>2. \A c \in cache : \A q \in c.passed : q.module \in Scope[a] => q.digest = digests[a][q.module]
    BY <1>1, <1>4
  <2> QED
    BY <2>1, <2>2 DEF Loaded
<1>6. ASSUME NEW m \in Module PROVE Own(a, m) \in Loaded(a) <=> Cached(m)
  <2>1. Own(a, m) = [module |-> m, digest |-> 0]
    BY <1>1 DEF Own
  <2>2. \A p \in Pass : p.module = m /\ p.digest = 0 => p = [module |-> m, digest |-> 0]
    BY DEF Pass
  <2> QED
    BY <1>4, <1>5, <2>1, <2>2 DEF Cached
<1> QED
  BY <1>1, <1>2, <1>5, <1>6

LEMMA CalmWas == Bound /\ [ReplayNext]_replay /\ Calm' => Calm /\ olean' = olean /\ runtime' = runtime
<1> SUFFICES ASSUME Bound, [ReplayNext]_replay, Calm' PROVE Calm /\ olean' = olean /\ runtime' = runtime
  OBVIOUS
<1> USE DEF Bound, Calm, Unchanged
<1>1. ~Upgrade /\ \A m \in Module : ~Rebuild(m)
  BY ReplayAssumption DEF Upgrade, Rebuild, Typed, ReplayOK, Library
<1>2. UNCHANGED world
  BY <1>1 DEF ReplayNext, ReplayRuns, AuditStep, replay, Extract, Digest, Bind, Collect, Close,
    Withdraw,
    KillAudit, Claim, Look, RunChecker, Merge, WriteCache
<1>3. \A a \in Audit : apc[a] # "killed"
  BY <1>1, Values DEF ReplayNext, ReplayRuns, AuditStep, replay, audits, Extract, Digest, Bind,
    Collect,
    Close, Withdraw, KillAudit, Claim, Look, RunChecker, Merge, WriteCache, Audits, Tasks, Typed, ReplayOK
<1> QED
  BY <1>2, <1>3 DEF world

LEMMA CheckedTyped == Typed => \A c \in checked : c.module \in Module
BY DEF Typed, Check

LEMMA StepOnce ==
  ASSUME Bound, Exclusive, Calm => Once, [ReplayNext]_replay, Calm'
  PROVE  Once'
<1> USE Values DEF Bound
<1>0. Calm /\ Once
  BY CalmWas
<1> USE <1>0, CalmBindings
<1>1. ASSUME NEW a \in Audit, Extract(a) \/ Digest(a) \/ Bind(a) PROVE Once'
  <2>1. /\ UNCHANGED <<task, cache, merging, checked>>
        /\ apc[a] \in {"extract", "digest", "bind"} /\ apc'[a] # "raise"
        /\ \A b \in Audit : b # a => apc'[b] = apc[b]
    BY <1>1, AuditsMove DEF Extract, Digest, Bind, AuditStops
  <2>2. \A b \in Audit, n \in Module : Claims(b, n)' <=> Claims(b, n)
    BY <2>1 DEF Claims, Ordered
  <2>3. \A n : Cached(n)' <=> Cached(n)
    BY <2>1 DEF Cached
  <2> QED
    BY <2>1, <2>2, <2>3, CheckedTyped DEF Once
<1>2. ASSUME NEW a \in Audit, Collect(a) \/ Close(a) \/ Withdraw(a) PROVE Once'
  <2>1. ~Withdraw(a)
    BY AuditsMove DEF Withdraw, Once, AuditStops
  <2>2. UNCHANGED <<task, cache, merging, checked>>
    BY <1>2, <2>1 DEF Collect, Close
  <2>3. /\ apc[a] \in {"replay", "close"} /\ apc'[a] \in {"close", "failed", "passed"}
        /\ \A b \in Audit : b # a => apc'[b] = apc[b]
    BY <1>2, <2>1, ReplayAssumption, AuditsMove DEF Collect, Close, Once, AuditStops
  <2>4. \A n \in Module : ~Claims(a, n)
    BY <1>2, <2>1 DEF Collect, Close, Audits, Exclusive, Claims
  <2>5. \A b \in Audit, n \in Module : Claims(b, n)' <=> Claims(b, n)
    BY <2>2, <2>3, <2>4 DEF Claims
  <2>6. \A n : Cached(n)' <=> Cached(n)
    BY <2>2 DEF Cached
  <2> QED
    BY <2>2, <2>3, <2>5, <2>6, CheckedTyped DEF Once
<1>3. ASSUME NEW a \in Audit, KillAudit(a) PROVE Once'
  BY <1>3 DEF KillAudit, Calm, Typed, ReplayOK
<1>4. ASSUME NEW a \in Audit, NEW m \in Module, Claim(a, m) PROVE Once'
  <2>1. /\ UNCHANGED <<apc, cache, merging, checked>>
        /\ apc[a] = "replay" /\ task[a][m] = "wait" /\ task'[a][m] = "claimed"
        /\ \A b \in Audit, n \in Module : b # a \/ n # m => task'[b][n] = task[b][n]
    BY <1>4, TasksMove DEF Claim, TaskStops
  <2>2. \A n : Cached(n)' <=> Cached(n)
    BY <2>1 DEF Cached
  <2>3. \A b \in Audit, n \in Module : b # a \/ n # m => (Claims(b, n)' <=> Claims(b, n))
    BY <2>1 DEF Claims
  <2> QED
    BY <2>1, <2>2, <2>3, CheckedTyped DEF Once, Claims
<1>5. ASSUME NEW a \in Audit, NEW m \in Module, Look(a, m) PROVE Once'
  <2>1. /\ UNCHANGED <<apc, cache, merging, checked>>
        /\ apc[a] = "replay" /\ task[a][m] = "claimed" /\ task'[a][m] \in {"reused", "missed"}
        /\ task'[a][m] = "missed" => ~Cached(m)
        /\ \A b \in Audit, n \in Module : b # a \/ n # m => task'[b][n] = task[b][n]
    BY <1>5, TasksMove DEF Look, TaskStops
  <2>2. \A n : Cached(n)' <=> Cached(n)
    BY <2>1 DEF Cached
  <2>3. \A b \in Audit, n \in Module : b # a \/ n # m => (Claims(b, n)' <=> Claims(b, n))
    BY <2>1 DEF Claims
  <2> QED
    BY <2>1, <2>2, <2>3, CheckedTyped DEF Once, Claims
<1>6. ASSUME NEW a \in Audit, NEW m \in Module, RunChecker(a, m) PROVE Once'
  <2>1. /\ UNCHANGED <<apc, cache, merging>>
        /\ apc[a] = "replay" /\ task[a][m] = "missed" /\ task'[a][m] \in {"pass", "rejected"}
        /\ \A b \in Audit, n \in Module : b # a \/ n # m => task'[b][n] = task[b][n]
    BY <1>6, TasksMove DEF RunChecker, TaskStops
  <2>2. \A c \in checked' : c \in checked \/ (c.module = m /\ task'[a][m] = "pass")
    BY <1>6, TasksMove DEF RunChecker, TaskStops
  <2>3. \A b \in Audit, n \in Module : Claims(b, n) /\ task[b][n] \in {"pass", "merge"} =>
          Claims(b, n)' /\ task'[b][n] \in {"pass", "merge"}
    BY <2>1 DEF Claims
  <2>4. task'[a][m] = "pass" => Claims(a, m)'
    BY <2>1 DEF Claims
  <2>5. \A c \in checked' :
          Cached(c.module)' \/ \E b \in Audit : Claims(b, c.module)' /\ task'[b][c.module] \in {"pass", "merge"}
    <3>1. ASSUME NEW c \in checked, ~Cached(c.module)
          PROVE  \E b \in Audit : Claims(b, c.module)' /\ task'[b][c.module] \in {"pass", "merge"}
      BY <2>3, <3>1 DEF Once, Typed, Check
    <3> QED
      BY <2>1, <2>2, <2>4, <3>1 DEF Cached
  <2> QED
    BY <2>1, <2>5 DEF Once, Cached, Claims
<1>7. ASSUME NEW a \in Audit, NEW m \in Module, Merge(a, m) PROVE Once'
  <2>1. /\ UNCHANGED <<apc, cache, checked>>
        /\ apc[a] = "replay" /\ task[a][m] = "pass" /\ task'[a][m] = "merge"
        /\ merging' = {UNION {c.passed : c \in cache}}
        /\ \A b \in Audit, n \in Module : b # a \/ n # m => task'[b][n] = task[b][n]
    <3>1. bound[a] = olean /\ Loaded(a) = UNION {c.passed : c \in cache}
      OBVIOUS
    <3> QED
      BY <1>7, <3>1, TasksMove DEF Merge, TaskStops
  <2>2. \A n : Cached(n)' <=> Cached(n)
    BY <2>1 DEF Cached
  <2>3. \A b \in Audit, n \in Module : b # a \/ n # m => (Claims(b, n)' <=> Claims(b, n))
    BY <2>1 DEF Claims
  <2> QED
    BY <2>1, <2>2, <2>3, CheckedTyped DEF Once, Claims
<1>8. ASSUME NEW a \in Audit, NEW m \in Module, WriteCache(a, m) PROVE Once'
  <2>1. /\ UNCHANGED <<apc, checked>>
        /\ apc[a] = "replay" /\ task[a][m] = "merge" /\ task'[a][m] = "passed"
        /\ \A b \in Audit, n \in Module : b # a \/ n # m => task'[b][n] = task[b][n]
    BY <1>8, TasksMove DEF WriteCache, TaskStops
  <2>2. Claims(a, m)
    BY <2>1 DEF Claims
  <2> DEFINE All == UNION {c.passed : c \in cache}
  <2>3. merging = {All}
    BY <2>1, <2>2 DEF Once
  <2>4. \A n : Cached(n) <=> \E p \in All : p.module = n
    BY DEF Cached
  <2> HIDE DEF All
  <2>5. \A n \in Module : Cached(n)' <=> Cached(n) \/ n = m
    <3> DEFINE Written(l) == [toolchain |-> toolchain[a], inputs |-> bound[a], passed |-> l \cup {Own(a, m)}]
    <3>1. cache' = {Written(l) : l \in merging}
      BY <1>8 DEF WriteCache
    <3>2. \A l : Written(l).passed = l \cup {Own(a, m)}
      OBVIOUS
    <3> HIDE DEF Written
    <3>3. cache' = {Written(All)}
      BY <2>3, <3>1
    <3>4. \A n : Cached(n)' <=> \E p \in All \cup {Own(a, m)} : p.module = n
      BY <3>2, <3>3 DEF Cached
    <3>5. Own(a, m).module = m
      BY OwnTyped
    <3> QED
      BY <2>4, <3>4, <3>5
  <2>6. \A b \in Audit, n \in Module : Claims(b, n)' <=> Claims(b, n) /\ (b # a \/ n # m)
    BY <2>1 DEF Claims
  <2>7. \A b \in Audit, n \in Module : ~(Claims(b, n)' /\ task'[b][n] = "merge")
    BY <2>1, <2>2, <2>6 DEF Exclusive
  <2>8. \A b \in Audit, n \in Module : Claims(b, n)' /\ task'[b][n] = "missed" => ~Cached(n)'
    BY <2>1, <2>2, <2>5, <2>6 DEF Exclusive, Once
  <2>9. \A c \in checked' :
          Cached(c.module)' \/ \E b \in Audit : Claims(b, c.module)' /\ task'[b][c.module] \in {"pass", "merge"}
    <3>1. \A c \in checked : c.module \in Module
      BY DEF Typed, Check
    <3> QED
      BY <2>1, <2>5, <2>6, <3>1 DEF Once
  <2> QED
    BY <2>1, <2>7, <2>8, <2>9 DEF Once
<1>9. CASE Upgrade \/ (\E m \in Module : Rebuild(m)) \/ UNCHANGED replay
  BY <1>9 DEF Upgrade, Rebuild, replay, audits, Once, Cached, Claims
<1> QED
  BY <1>1, <1>2, <1>3, <1>4, <1>5, <1>6, <1>7, <1>8, <1>9 DEF ReplayNext, ReplayRuns, AuditStep

LEMMA ReplayStarts ==
  ASSUME NEW l \in {"off", "extract"}, ReplayAt(l)
  PROVE  ReplayInv
<1>1. Exclusive /\ Once
  BY DEF ReplayAt, Exclusive, Once, Claims
<1> QED
  BY <1>1, StartsBound DEF ReplayInv

LEMMA StepReplayInv == ReplayInv /\ [ReplayNext]_replay => ReplayInv'
<1> SUFFICES ASSUME ReplayInv, [ReplayNext]_replay PROVE ReplayInv'
  OBVIOUS
<1>1. Bound'
  BY StepBound DEF ReplayInv
<1>2. Exclusive'
  BY StepExclusive DEF ReplayInv
<1>3. Calm' => Once'
  BY StepOnce DEF ReplayInv
<1> QED
  BY <1>1, <1>2, <1>3 DEF ReplayInv

(* A task leaves the state of a miss by a check only. *)
LEMMA MissEndsByCheck ==
  ASSUME Typed, [ReplayNext]_replay, NEW a \in Audit, NEW m \in Module,
         task[a][m] = "missed", task'[a][m] # "missed"
  PROVE  RunChecker(a, m)
<1>1. ASSUME NEW b \in Audit, NEW n \in Module, RunChecker(b, n) PROVE RunChecker(a, m)
  <2>1. \A c \in Audit, k \in Module : c # b \/ k # n => task'[c][k] = task[c][k]
    BY <1>1 DEF RunChecker, Tasks, Typed, ReplayOK
  <2> QED
    BY <1>1, <2>1
<1>2. ASSUME NEW b \in Audit, NEW n \in Module, Claim(b, n) \/ Look(b, n) \/ Merge(b, n) \/ WriteCache(b, n)
      PROVE  FALSE
  <2>1. /\ task[b][n] # "missed"
        /\ \A c \in Audit, k \in Module : c # b \/ k # n => task'[c][k] = task[c][k]
    BY <1>2 DEF Claim, Look, Merge, WriteCache, Tasks, Typed, ReplayOK
  <2> QED
    BY <2>1
<1>3. task' # task
  OBVIOUS
<1> QED
  BY <1>1, <1>2, <1>3 DEF ReplayNext, ReplayRuns, AuditStep, Extract, Digest, Bind, Collect, Close,
    Withdraw, KillAudit, Upgrade, Rebuild, replay, audits

LEMMA ReplaysOnce == ReplayInv /\ [][ReplayNext]_replay => ReplayedOnce
<1>1. ReplayInv /\ [ReplayNext]_replay =>
        [Unchanged /\ (\A a \in Audit : apc[a] # "killed") =>
           \A a \in Audit, m \in Module :
             task[a][m] = "missed" /\ task'[a][m] # "missed" => \A c \in checked : c.module # m]_replay
  <2> SUFFICES ASSUME ReplayInv, [ReplayNext]_replay, Calm, NEW a \in Audit, NEW m \in Module,
                      task[a][m] = "missed", task'[a][m] # "missed", NEW c \in checked, c.module = m
               PROVE  FALSE
    BY DEF Calm
  <2>1. Claims(a, m)
    BY MissEndsByCheck DEF RunChecker, Tasks, Claims, ReplayInv, Bound
  <2>2. ~Cached(m)
    BY <2>1 DEF ReplayInv, Once
  <2>3. PICK b \in Audit : Claims(b, m) /\ task[b][m] \in {"pass", "merge"}
    BY <2>2 DEF ReplayInv, Once
  <2> QED
    BY <2>1, <2>3 DEF ReplayInv, Exclusive
<1> QED
  BY <1>1, StepReplayInv, PTL DEF ReplayedOnce

(* While the library and the toolchain stay and no audit is killed, the    *)
(* audits check each module that passes once between them: the action      *)
(* property of ReplayKept.                                                 *)
THEOREM ChecksOnce == ReplaySpec => ReplayedOnce
<1>1. ReplayInit => ReplayInv
  BY ReplayStarts DEF ReplayInit
<1> QED
  BY <1>1, ReplaysOnce, PTL DEF ReplaySpec

(* The cache of kernel replays keeps its promises for every number of      *)
(* audits, modules and changes, with kills at any step.                    *)
THEOREM ReplayIsKept == ReplaySpec => ReplayKept
BY PassesAreBacked, ChecksOnce, PTL DEF ReplayKept

-----------------------------------------------------------------------------
(* Flattening a sequence of sequences is adding them one by one. *)

LEMMA OneByOne ==
  ASSUME NEW N \in Nat, NEW S, \A i \in 1..N : i = 1 \/ i - 1 \in S => i \in S
  PROVE  \A i \in 1..N : i \in S
<1>. DEFINE Bad == (1..N) \ S
            R == OpToRel(<, Nat)
<1>. SUFFICES ASSUME Bad # {} PROVE FALSE
  OBVIOUS
<1>1. Bad \subseteq Nat
  OBVIOUS
<1>2. PICK n \in Bad : \A m \in Bad : ~(<<m, n>> \in R)
  <2>1. IsWellFoundedOn(R, Nat)
    BY NatLessThanWellFounded
  <2>. HIDE DEF R, Bad
  <2>. QED
    BY <1>1, <2>1, WFMin
<1>3. \A m \in Bad : ~(m < n)
  <2>. HIDE DEF Bad
  <2>. QED
    BY <1>1, <1>2 DEF OpToRel
<1>4. n \in 1..N /\ n \notin S /\ n # 1 /\ n - 1 \notin S
  OBVIOUS
<1>5. n - 1 \in Bad /\ n - 1 < n
  BY <1>4
<1>. QED
  BY <1>3, <1>5

LEMMA ConcatIs ==
  ASSUME NEW X, NEW s \in Seq(X), NEW t \in Seq(X)
  PROVE  /\ s \o t \in Seq(X) /\ Len(s \o t) = Len(s) + Len(t)
         /\ \A i \in 1..Len(s) + Len(t) : (s \o t)[i] = IF i <= Len(s) THEN s[i] ELSE t[i - Len(s)]
         /\ s \o <<>> = s /\ <<>> \o t = t
OBVIOUS

LEMMA ConcatNone ==
  ASSUME NEW X, NEW s \in Seq(X), NEW t \in Seq(X), t = <<>>
  PROVE  s \o t = s /\ t \o s = s
OBVIOUS

LEMMA ConcatTwice ==
  ASSUME NEW X, NEW s \in Seq(X), NEW t \in Seq(X), NEW u \in Seq(X)
  PROVE  s \o (t \o u) = (s \o t) \o u
OBVIOUS

Crosses(X, p, q, r, t) ==
  p \in Seq(X) /\ q \in Seq(X) /\ r \in Seq(X) /\ t \in Seq(X) /\ (q = <<>> \/ r = <<>>)
    => (p \o r) \o (q \o t) = (p \o q) \o (r \o t)

LEMMA ConcatCrosses ==
  ASSUME NEW X, NEW p, NEW q, NEW r, NEW t
  PROVE  Crosses(X, p, q, r, t)
<1>. SUFFICES ASSUME p \in Seq(X), q \in Seq(X), r \in Seq(X), t \in Seq(X), q = <<>> \/ r = <<>>
              PROVE  (p \o r) \o (q \o t) = (p \o q) \o (r \o t)
  BY Zenon DEF Crosses
<1>1. CASE q = <<>>
  <2>1. p \o q = p /\ q \o t = t
    BY <1>1, ConcatNone
  <2>2. p \o (r \o t) = (p \o r) \o t
    BY ConcatTwice
  <2>. QED
    BY <2>1, <2>2, Zenon
<1>2. CASE r = <<>>
  <2>1. p \o r = p /\ r \o t = t
    BY <1>2, ConcatNone
  <2>2. p \o (q \o t) = (p \o q) \o t
    BY ConcatTwice
  <2>. QED
    BY <2>1, <2>2, Zenon
<1>. QED
  BY <1>1, <1>2

(* The sums of s up to each place. *)
Sums(s, n, f) == f = [i \in 1..n |-> IF i = 1 THEN s[i] ELSE f[i - 1] \o s[i]]

LEMMA SumsTyped ==
  ASSUME NEW X, NEW s \in Seq(Seq(X)), NEW n \in 0..Len(s), NEW f, Sums(s, n, f)
  PROVE  f \in [1..n -> Seq(X)]
<1>. DEFINE S == {i \in 1..n : f[i] \in Seq(X)}
<1>1. n \in Nat /\ \A i \in 1..n : s[i] \in Seq(X)
  OBVIOUS
<1>2. \A i \in 1..n : f[i] = IF i = 1 THEN s[i] ELSE f[i - 1] \o s[i]
  BY Zenon DEF Sums
<1>3. f = [i \in 1..n |-> f[i]]
  BY DEF Sums
<1>4. ASSUME NEW i \in 1..n, i = 1 \/ i - 1 \in S PROVE i \in S
  <2>1. CASE i = 1
    BY <1>1, <1>2, <2>1
  <2>2. CASE i # 1
    <3>1. f[i - 1] \in Seq(X)
      BY <1>4, <2>2
    <3>2. f[i] = f[i - 1] \o s[i]
      BY <1>2, <2>2
    <3>3. f[i - 1] \o s[i] \in Seq(X)
      BY <1>1, <3>1, ConcatIs
    <3>. QED
      BY <3>2, <3>3, Zenon
  <2>. QED
    BY <2>1, <2>2
<1>5. \A i \in 1..n : i \in S
  <2>. HIDE DEF S
  <2>. QED
    BY <1>1, <1>4, OneByOne
<1>. QED
  BY <1>3, <1>5

LEMMA SumsExist ==
  ASSUME NEW X, NEW s \in Seq(Seq(X)), s # <<>>
  PROVE  \E f : Sums(s, Len(s), f)
<1>. DEFINE S == {n \in 1..Len(s) : \E f : Sums(s, n, f)}
<1>1. Len(s) \in Nat /\ Len(s) \in 1..Len(s)
  OBVIOUS
<1>2. ASSUME NEW n \in 1..Len(s), n = 1 \/ n - 1 \in S PROVE n \in S
  <2>1. CASE n = 1
    <3>1. [i \in 1..1 |-> s[i]] = [i \in 1..1 |-> IF i = 1 THEN s[i] ELSE [k \in 1..1 |-> s[k]][i - 1] \o s[i]]
      OBVIOUS
    <3>. QED
      BY <2>1, <3>1 DEF Sums
  <2>2. CASE n # 1
    <3>1. PICK g : Sums(s, n - 1, g)
      BY <1>2, <2>2
    <3>. DEFINE h == [i \in 1..n |-> IF i < n THEN g[i] ELSE g[i - 1] \o s[i]]
    <3>2. \A i \in 1..n - 1 : g[i] = IF i = 1 THEN s[i] ELSE g[i - 1] \o s[i]
      BY <3>1, Zenon DEF Sums
    <3>3. ASSUME NEW i \in 1..n PROVE h[i] = IF i = 1 THEN s[i] ELSE h[i - 1] \o s[i]
      <4>1. i = 1 \/ (i - 1 \in 1..n - 1 /\ i - 1 \in 1..n /\ i - 1 < n)
        OBVIOUS
      <4>2. h[i] = IF i < n THEN g[i] ELSE g[i - 1] \o s[i]
        OBVIOUS
      <4>3. i # 1 => h[i - 1] = g[i - 1]
        BY <4>1
      <4>4. i = n \/ (i < n /\ i \in 1..n - 1)
        OBVIOUS
      <4>5. ~(n < n)
        OBVIOUS
      <4>. HIDE DEF h
      <4>. QED
        BY <2>2, <3>2, <4>2, <4>3, <4>4, <4>5, Zenon
    <3>4. h = [i \in 1..n |-> h[i]]
      OBVIOUS
    <3>. HIDE DEF h
    <3>5. Sums(s, n, h)
      BY <3>3, <3>4, Zenon DEF Sums
    <3>. QED
      BY <3>5
  <2>. QED
    BY <2>1, <2>2
<1>3. \A n \in 1..Len(s) : n \in S
  <2>. HIDE DEF S
  <2>. QED
    BY <1>1, <1>2, OneByOne
<1>. QED
  BY <1>1, <1>3

FlatBy(X, N, s, f) ==
  /\ \A i \in 1..N : f[i] \in Seq(X) /\ f[i] = IF i = 1 THEN s[i] ELSE f[i - 1] \o s[i]
  /\ FlattenSeq(s) = f[N]

LEMMA Flattens ==
  ASSUME NEW X, NEW N \in Nat \ {0}, NEW s \in [1..N -> Seq(X)]
  PROVE  \E f : FlatBy(X, N, s, f)
<1>1. s \in Seq(Seq(X)) /\ Len(s) = N /\ s # <<>> /\ ~(N = 0) /\ N \in 0..N
  OBVIOUS
<1>. DEFINE F == CHOOSE f : Sums(s, N, f)
<1>2. Sums(s, N, F)
  BY <1>1, SumsExist, Zenon
<1>3. FlattenSeq(s) = F[N]
  BY <1>1, Zenon DEF FlattenSeq, Sums
<1>. HIDE DEF F
<1>4. \A i \in 1..N : F[i] = IF i = 1 THEN s[i] ELSE F[i - 1] \o s[i]
  BY <1>2, Zenon DEF Sums
<1>5. F \in [1..N -> Seq(X)]
  BY <1>1, <1>2, SumsTyped, Zenon
<1>. QED
  BY <1>3, <1>4, <1>5, Zenon DEF FlatBy

Joined(X, N, a, b, h) ==
  /\ N \in Nat \ {0} /\ a \in [1..N -> Seq(X)] /\ b \in [1..N -> Seq(X)] /\ h \in Int
  /\ \A i \in 1..N : (i > h => a[i] = <<>>) /\ (i < h => b[i] = <<>>)
  => /\ FlattenSeq(a) \in Seq(X) /\ FlattenSeq(b) \in Seq(X)
     /\ FlattenSeq(a) \o FlattenSeq(b) = FlattenSeq([i \in 1..N |-> a[i] \o b[i]])

(* Two sequences of sequences, the first empty after h and the second      *)
(* before it, are added in the order of their places.                      *)
LEMMA FlattenJoins ==
  ASSUME NEW X, NEW N, NEW a, NEW b, NEW h
  PROVE  Joined(X, N, a, b, h)
<1>. SUFFICES ASSUME N \in Nat \ {0}, a \in [1..N -> Seq(X)], b \in [1..N -> Seq(X)], h \in Int,
                     \A i \in 1..N : (i > h => a[i] = <<>>) /\ (i < h => b[i] = <<>>)
              PROVE  /\ FlattenSeq(a) \in Seq(X) /\ FlattenSeq(b) \in Seq(X)
                     /\ FlattenSeq(a) \o FlattenSeq(b) = FlattenSeq([i \in 1..N |-> a[i] \o b[i]])
  BY Zenon DEF Joined
<1>. DEFINE c == [i \in 1..N |-> a[i] \o b[i]]
<1>1. \A i \in 1..N : a[i] \in Seq(X) /\ b[i] \in Seq(X) /\ c[i] = a[i] \o b[i] /\ c[i] \in Seq(X)
  BY ConcatIs
<1>2. c \in [1..N -> Seq(X)] /\ N \in 1..N
  BY <1>1
<1>. HIDE DEF c
<1>3. PICK A : FlatBy(X, N, a, A)
  BY Flattens, Zenon
<1>4. PICK B : FlatBy(X, N, b, B)
  BY Flattens, Zenon
<1>5. PICK C : FlatBy(X, N, c, C)
  BY <1>2, Flattens, Zenon
<1>. DEFINE S == {i \in 1..N : A[i] \o B[i] = C[i] /\ (i < h => B[i] = <<>>)}
<1>6. ASSUME NEW i \in 1..N, i = 1 \/ i - 1 \in S PROVE i \in S
  <2>1. CASE i = 1
    <3>1. A[i] = a[i] /\ B[i] = b[i] /\ C[i] = c[i]
      BY <1>3, <1>4, <1>5, <2>1, Zenon DEF FlatBy
    <3>. QED
      BY <1>1, <3>1
  <2>2. CASE i # 1
    <3>1. i - 1 \in 1..N
      BY <2>2
    <3>2. A[i] = A[i - 1] \o a[i] /\ B[i] = B[i - 1] \o b[i] /\ C[i] = C[i - 1] \o c[i]
      BY <1>3, <1>4, <1>5, <2>2, Zenon DEF FlatBy
    <3>3. A[i - 1] \in Seq(X) /\ B[i - 1] \in Seq(X) /\ a[i] \in Seq(X) /\ b[i] \in Seq(X)
      BY <1>1, <1>3, <1>4, <3>1, Zenon DEF FlatBy
    <3>4. C[i - 1] = A[i - 1] \o B[i - 1] /\ c[i] = a[i] \o b[i] /\ (i - 1 < h => B[i - 1] = <<>>)
      BY <1>1, <1>6, <2>2
    <3>5. A[i] \o B[i] = (A[i - 1] \o a[i]) \o (B[i - 1] \o b[i])
          /\ C[i] = (A[i - 1] \o B[i - 1]) \o (a[i] \o b[i])
      BY <3>2, <3>4, Zenon
    <3>6. i <= h => B[i - 1] = <<>>
      BY <3>4
    <3>7. i > h => a[i] = <<>>
      OBVIOUS
    <3>8. i < h => b[i] = <<>>
      OBVIOUS
    <3>. HIDE DEF S
    <3>9. A[i] \o B[i] = C[i]
      <4>1. B[i - 1] = <<>> \/ a[i] = <<>>
        BY <3>6, <3>7
      <4>2. Crosses(X, A[i - 1], B[i - 1], a[i], b[i])
        BY ConcatCrosses, Zenon
      <4>. QED
        BY <3>3, <3>5, <4>1, <4>2, Zenon DEF Crosses
    <3>10. i < h => B[i] = <<>>
      <4>1. i < h => B[i - 1] = <<>> /\ b[i] = <<>>
        BY <3>6, <3>8
      <4>2. B[i - 1] = <<>> => B[i - 1] \o b[i] = b[i]
        BY <3>3, ConcatIs
      <4>. QED
        BY <3>2, <4>1, <4>2, Zenon
    <3>. QED
      BY <3>9, <3>10 DEF S
  <2>. QED
    BY <2>1, <2>2
<1>7. \A i \in 1..N : i \in S
  <2>. HIDE DEF S
  <2>. QED
    BY <1>6, OneByOne
<1>8. A[N] \o B[N] = C[N]
  BY <1>2, <1>7, Zenon
<1>9. A[N] \in Seq(X) /\ B[N] \in Seq(X)
  BY <1>2, <1>3, <1>4, Zenon DEF FlatBy
<1>. QED
  BY <1>3, <1>4, <1>5, <1>8, <1>9, Zenon DEF c, FlatBy

OnlyAt(X, N, a, h) ==
  N \in Nat \ {0} /\ a \in [1..N -> Seq(X)] /\ h \in 1..N /\ (\A i \in 1..N \ {h} : a[i] = <<>>)
    => FlattenSeq(a) = a[h]

LEMMA FlattenOne ==
  ASSUME NEW X, NEW N, NEW a, NEW h
  PROVE  OnlyAt(X, N, a, h)
<1>. SUFFICES ASSUME N \in Nat \ {0}, a \in [1..N -> Seq(X)], h \in 1..N, \A i \in 1..N \ {h} : a[i] = <<>>
              PROVE  FlattenSeq(a) = a[h]
  BY Zenon DEF OnlyAt
<1>1. \A i \in 1..N : a[i] \in Seq(X)
  OBVIOUS
<1>2. PICK A : FlatBy(X, N, a, A)
  BY Flattens, Zenon
<1>. DEFINE S == {i \in 1..N : A[i] = IF i < h THEN <<>> ELSE a[h]}
<1>3. ASSUME NEW i \in 1..N, i = 1 \/ i - 1 \in S PROVE i \in S
  <2>1. CASE i = 1
    <3>1. A[i] = a[i]
      BY <1>2, <2>1, Zenon DEF FlatBy
    <3>. QED
      BY <1>1, <2>1, <3>1
  <2>2. CASE i # 1
    <3>1. i - 1 \in 1..N
      BY <2>2
    <3>2. A[i] = A[i - 1] \o a[i]
      BY <1>2, <2>2, Zenon DEF FlatBy
    <3>3. A[i - 1] \in Seq(X) /\ a[i] \in Seq(X) /\ a[h] \in Seq(X)
      BY <1>1, <1>2, <3>1, Zenon DEF FlatBy
    <3>4. A[i - 1] = (IF i - 1 < h THEN <<>> ELSE a[h]) /\ (i # h => a[i] = <<>>)
      BY <1>3, <2>2
    <3>5. A[i - 1] = <<>> => A[i] = a[i]
      BY <3>2, <3>3, ConcatIs
    <3>6. a[i] = <<>> => A[i] = A[i - 1]
      BY <3>2, <3>3, ConcatIs
    <3>7. A[i] = IF i < h THEN <<>> ELSE a[h]
      <4>1. CASE i <= h
        BY <3>4, <3>5, <4>1
      <4>2. CASE i > h
        BY <3>4, <3>6, <4>2
      <4>. QED
        BY <4>1, <4>2
    <3>. QED
      BY <3>7
  <2>. QED
    BY <2>1, <2>2
<1>4. \A i \in 1..N : i \in S
  <2>. HIDE DEF S
  <2>. QED
    BY <1>3, OneByOne
<1>5. N \in 1..N /\ ~(N < h)
  OBVIOUS
<1>6. A[N] = a[h]
  BY <1>4, <1>5
<1>. QED
  BY <1>2, <1>6, Zenon DEF FlatBy
-----------------------------------------------------------------------------
(* The output.  The chunks of a job are numbered as it writes them; they   *)
(* are, in this order, written, in its spool, and in its pipe.             *)

Chunk == Job \X Nat
Upto(j, n) == [i \in 1..n |-> <<j, i>>]
Numbered(s, j, k) == s \in Seq(Chunk) /\ \A i \in 1..Len(s) : s[i] = <<j, k + i>>

(* The output of the jobs when w[j] chunks of each are written. *)
Out(w) == FlattenSeq([j \in Job |-> Upto(j, w[j])])

Wrote == [j \in Job |-> sent[j] - Len(pipe[j]) - Len(spool[j])]
Got == [j \in Job |-> sent[j] - Len(pipe[j])]

LEMMA UptoIs ==
  ASSUME NEW j \in Job, NEW n \in Nat
  PROVE  Upto(j, n) \in Seq(Chunk) /\ Len(Upto(j, n)) = n /\ \A i \in 1..n : Upto(j, n)[i] = <<j, i>>
<1>1. \A i \in 1..n : <<j, i>> \in Chunk
  BY DEF Chunk
<1>2. Upto(j, n) \in [1..n -> Chunk]
  BY <1>1 DEF Upto
<1>. QED
  BY <1>2 DEF Upto

LEMMA UptoGrows ==
  ASSUME NEW j \in Job, NEW n \in Nat, NEW s, Numbered(s, j, n)
  PROVE  Upto(j, n) \o s = Upto(j, n + Len(s))
<1>1. s \in Seq(Chunk) /\ Len(s) \in Nat /\ n + Len(s) \in Nat
  BY DEF Numbered
<1>. DEFINE u == Upto(j, n)
            v == Upto(j, n + Len(s))
            e == u \o s
<1>2. u \in Seq(Chunk) /\ Len(u) = n /\ \A i \in 1..n : u[i] = <<j, i>>
  BY UptoIs
<1>3. v \in Seq(Chunk) /\ Len(v) = n + Len(s) /\ \A i \in 1..n + Len(s) : v[i] = <<j, i>>
  BY <1>1, UptoIs
<1>4. \A i \in 1..Len(s) : s[i] = <<j, n + i>>
  BY DEF Numbered
<1>5. /\ e \in Seq(Chunk) /\ Len(e) = n + Len(s)
      /\ \A i \in 1..n + Len(s) : e[i] = IF i <= n THEN u[i] ELSE s[i - n]
  <2>. HIDE DEF u, v
  <2>. QED
    BY <1>1, <1>2, ConcatProperties
<1>. HIDE DEF u, v, e
<1>6. \A i \in 1..n + Len(s) : e[i] = v[i]
  <2>. SUFFICES ASSUME NEW i \in 1..n + Len(s) PROVE e[i] = v[i]
    OBVIOUS
  <2>1. CASE i <= n
    <3>1. i \in 1..n
      BY <1>1, <2>1
    <3>2. e[i] = u[i]
      BY <1>5, <2>1
    <3>3. u[i] = <<j, i>> /\ v[i] = <<j, i>>
      BY <1>2, <1>3, <3>1, Zenon
    <3>. QED
      BY <3>2, <3>3, Zenon
  <2>2. CASE i > n
    <3>1. i - n \in 1..Len(s) /\ n + (i - n) = i
      BY <1>1, <2>2
    <3>2. s[i - n] = <<j, i>>
      BY <1>4, <3>1
    <3>3. v[i] = <<j, i>>
      BY <1>3, Zenon
    <3>4. e[i] = s[i - n]
      BY <1>1, <1>5, <2>2
    <3>. QED
      BY <3>2, <3>3, <3>4, Zenon
  <2>. QED
    BY <1>1, <2>1, <2>2
<1>7. e = v
  BY <1>3, <1>5, <1>6, SeqEqual
<1>. QED
  BY <1>7 DEF u, v, e

(* What is buffered goes after what was written, job by job. *)
LEMMA OutJoins ==
  ASSUME NEW w \in [Job -> Nat], NEW b \in [Job -> Seq(Chunk)], NEW h \in Int,
         \A j \in Job : (j > h => w[j] = 0) /\ (j < h => b[j] = <<>>),
         \A j \in Job : Numbered(b[j], j, w[j])
  PROVE  /\ Out(w) \in Seq(Chunk) /\ FlattenSeq(b) \in Seq(Chunk)
         /\ Out(w) \o FlattenSeq(b) = Out([j \in Job |-> w[j] + Len(b[j])])
<1>. DEFINE a == [j \in Job |-> Upto(j, w[j])]
            c == [j \in Job |-> a[j] \o b[j]]
            d == [j \in Job |-> Upto(j, w[j] + Len(b[j]))]
<1>1. Jobs \in Nat \ {0} /\ Job = 1..Jobs
  BY ParAssumption DEF Job
<1>2. a \in [Job -> Seq(Chunk)]
  BY UptoIs
<1>3. \A j \in Job : j > h => a[j] = <<>>
  <2>. SUFFICES ASSUME NEW j \in Job, j > h PROVE Upto(j, 0) = <<>>
    OBVIOUS
  <2>. QED
    BY UptoIs
<1>4. c = d
  <2>. SUFFICES ASSUME NEW j \in Job PROVE Upto(j, w[j]) \o b[j] = Upto(j, w[j] + Len(b[j]))
    BY Zenon
  <2>. QED
    BY UptoGrows
<1>. HIDE DEF a
<1>5. /\ FlattenSeq(a) \in Seq(Chunk) /\ FlattenSeq(b) \in Seq(Chunk)
      /\ FlattenSeq(a) \o FlattenSeq(b) = FlattenSeq(c)
  <2>1. /\ a \in [1..Jobs -> Seq(Chunk)] /\ b \in [1..Jobs -> Seq(Chunk)]
        /\ \A i \in 1..Jobs : (i > h => a[i] = <<>>) /\ (i < h => b[i] = <<>>)
        /\ c = [i \in 1..Jobs |-> a[i] \o b[i]]
    BY <1>1, <1>2, <1>3
  <2>2. Joined(Chunk, Jobs, a, b, h)
    BY FlattenJoins, Zenon
  <2>. HIDE DEF c
  <2>. QED
    BY <1>1, <1>2, <2>1, <2>2, Zenon DEF Joined
<1>6. Out(w) = FlattenSeq(a)
  BY DEF Out, a
<1>7. Out([j \in Job |-> w[j] + Len(b[j])]) = FlattenSeq(d)
  <2>1. d = [j \in Job |-> Upto(j, [i \in Job |-> w[i] + Len(b[i])][j])]
    OBVIOUS
  <2>. QED
    BY <2>1, Zenon DEF Out
<1>. QED
  BY <1>4, <1>5, <1>6, <1>7, Zenon

LEMMA OutGrows ==
  ASSUME NEW w \in [Job -> Nat], NEW h \in Job, \A j \in Job : j > h => w[j] = 0,
         NEW s, Numbered(s, h, w[h])
  PROVE  Out(w) \in Seq(Chunk) /\ Out(w) \o s = Out([w EXCEPT ![h] = @ + Len(s)])
<1>. DEFINE b == [j \in Job |-> IF j = h THEN s ELSE <<>>]
<1>1. Jobs \in Nat \ {0} /\ Job = 1..Jobs
  BY ParAssumption DEF Job
<1>2. s \in Seq(Chunk) /\ Len(s) \in Nat /\ h \in Int
  BY <1>1 DEF Numbered
<1>3. b \in [Job -> Seq(Chunk)] /\ b[h] = s /\ (\A j \in Job \ {h} : b[j] = <<>>)
  BY <1>2
<1>4. \A j \in Job : Numbered(b[j], j, w[j])
  BY <1>2, <1>3 DEF Numbered
<1>5. [w EXCEPT ![h] = @ + Len(s)] = [j \in Job |-> w[j] + Len(b[j])]
  <2>1. \A j \in Job : j # h => Len(b[j]) = 0
    BY <1>3
  <2>2. \A j \in Job : w[j] \in Nat /\ (j # h => w[j] + Len(b[j]) = w[j])
    BY <2>1
  <2>3. Len(b[h]) = Len(s)
    BY <1>3
  <2>. HIDE DEF b
  <2>. QED
    BY <2>2, <2>3
<1>6. \A j \in Job : (j > h => w[j] = 0) /\ (j < h => b[j] = <<>>)
  BY <1>1, <1>3
<1>. HIDE DEF b
<1>7. FlattenSeq(b) = s
  <2>1. b \in [1..Jobs -> Seq(Chunk)] /\ h \in 1..Jobs /\ \A i \in 1..Jobs \ {h} : b[i] = <<>>
    BY <1>1, <1>3
  <2>2. OnlyAt(Chunk, Jobs, b, h)
    BY FlattenOne, Zenon
  <2>. QED
    BY <1>1, <1>3, <2>1, <2>2, Zenon DEF OnlyAt
<1>8. Out(w) \in Seq(Chunk) /\ Out(w) \o FlattenSeq(b) = Out([j \in Job |-> w[j] + Len(b[j])])
  BY <1>2, <1>3, <1>4, <1>6, OutJoins
<1>. QED
  BY <1>5, <1>7, <1>8, Zenon

LEMMA NothingFlattens ==
  ASSUME NEW b \in [Job -> Seq(Chunk)], \A j \in Job : b[j] = <<>>
  PROVE  FlattenSeq(b) = <<>>
<1>1. Jobs \in Nat \ {0} /\ Job = 1..Jobs /\ 1 \in Job
  BY ParAssumption DEF Job
<1>2. OnlyAt(Chunk, Jobs, b, 1)
  BY FlattenOne, Zenon
<1>. QED
  BY <1>1, <1>2 DEF OnlyAt

-----------------------------------------------------------------------------
(* The invariant of the loop. *)

(* A job that is pending, runs or is done is not before the head; one that *)
(* is pending has written nothing.                                         *)
Placed ==
  /\ \A i, k \in 1..Len(pending) : pending[i] = pending[k] => i = k
  /\ \A j \in running \cup done \cup ToSet(pending) : head <= j
  /\ \A j \in ToSet(pending) : sent[j] = 0

(* A job is done, and behind the head, when its output was read to its end. *)
Ended ==
  /\ \A j \in eof : pipe[j] = <<>>
  /\ done \subseteq eof
  /\ \A j \in Job : j < head => j \in eof /\ spool[j] = <<>>
  /\ \A j \in ready : pipe[j] # <<>> \/ j \in closed
  /\ wpc # "read" => ready = {}

Buffered ==
  /\ pipe \in [Job -> Seq(Chunk)] /\ spool \in [Job -> Seq(Chunk)]
  /\ \A j \in Job :
       /\ Len(pipe[j]) + Len(spool[j]) <= sent[j]
       /\ Numbered(pipe[j], j, Got[j])
       /\ Numbered(spool[j], j, Wrote[j])

InOrder ==
  IF wpc = "interrupted"
    THEN written = Out(Got) /\ \A j \in Job : spool[j] = <<>>
    ELSE /\ written = Out(Wrote)
         /\ \A j \in Job : head < j => Wrote[j] = 0
         /\ wpc = "read" /\ head \in running => spool[head] = <<>>

(* Only the first pending job was passed, as often as bypassed says. *)
Admits ==
  /\ Cardinality(running) <= Workers
  /\ reserved = Cardinality(Requested(running))
  /\ Cardinality(running) > 1 => reserved <= Budget
  /\ \A j \in Job : passes[j] <= Workers
  /\ \A i \in 1..Len(pending) : passes[pending[i]] = IF i = 1 THEN bypassed ELSE 0

Stopped ==
  /\ wpc \in {"replay", "interrupted"} => running \subseteq exited
  /\ wpc = "ended" => head = Jobs + 1

ParInv == ParOK /\ Placed /\ Ended /\ Buffered /\ InOrder /\ Admits /\ Stopped

LEMMA Constants ==
  /\ Jobs \in Nat \ {0} /\ Workers \in Nat \ {0} /\ Budget \in Nat /\ Job = 1..Jobs /\ IsFiniteSet(Job)
  /\ Memory \in [Job -> Nat] /\ Chunks \in [Job -> Nat]
  /\ \A j \in Job : j \in Int
<1>1. Jobs \in Nat \ {0} /\ Job = 1..Jobs
  BY ParAssumption DEF Job
<1>2. IsFiniteSet(1..Jobs)
  BY <1>1, FS_Interval
<1>. QED
  BY <1>1, <1>2, ParAssumption

(* What is left when the job at i starts. *)
TakesOut(s, i, r) ==
  /\ s \in Seq(Job) /\ (\A m, k \in 1..Len(s) : s[m] = s[k] => m = k)
  /\ i \in 1..Len(s) /\ r = RemoveFirst(s, s[i])
  => /\ r \in Seq(Job) /\ Len(r) = Len(s) - 1
     /\ \A k \in 1..Len(s) - 1 : r[k] = IF k < i THEN s[k] ELSE s[k + 1]

LEMMA RemovedIs ==
  ASSUME NEW s, NEW i, NEW r
  PROVE  TakesOut(s, i, r)
<1>. SUFFICES ASSUME s \in Seq(Job), \A m, k \in 1..Len(s) : s[m] = s[k] => m = k, i \in 1..Len(s),
                     r = RemoveFirst(s, s[i])
              PROVE  /\ r \in Seq(Job) /\ Len(r) = Len(s) - 1
                     /\ \A k \in 1..Len(s) - 1 : r[k] = IF k < i THEN s[k] ELSE s[k + 1]
  BY Zenon DEF TakesOut
<1>. DEFINE I == {k \in 1..Len(s) : s[k] = s[i]}
            a == SubSeq(s, 1, i - 1)
            b == SubSeq(s, i + 1, Len(s))
<1>1. Len(s) \in Nat /\ I = {i}
  OBVIOUS
<1>2. SelectInSeq(s, LAMBDA v : v = s[i]) = i
  <2>1. Min({i}) = i
    BY DEF Min
  <2>. QED
    BY <1>1, <2>1 DEF SelectInSeq
<1>3. r = a \o b
  BY <1>2 DEF RemoveFirst, RemoveAt
<1>4. a \in Seq(Job) /\ Len(a) = i - 1 /\ \A k \in 1..i - 1 : a[k] = s[k]
  OBVIOUS
<1>5. b \in Seq(Job) /\ Len(b) = Len(s) - i /\ \A k \in 1..Len(s) - i : b[k] = s[i + k]
  OBVIOUS
<1>. HIDE DEF a, b
<1>6. /\ r \in Seq(Job) /\ Len(r) = Len(s) - 1
      /\ \A k \in 1..Len(s) - 1 : r[k] = IF k < i THEN a[k] ELSE b[k - (i - 1)]
  <2>1. /\ r \in Seq(Job) /\ Len(r) = Len(a) + Len(b)
        /\ \A k \in 1..Len(a) + Len(b) : r[k] = IF k <= Len(a) THEN a[k] ELSE b[k - Len(a)]
    <3>1. a \in Seq(Job) /\ b \in Seq(Job)
      BY <1>4, <1>5
    <3>2. /\ a \o b \in Seq(Job) /\ Len(a \o b) = Len(a) + Len(b)
          /\ \A k \in 1..Len(a) + Len(b) : (a \o b)[k] = IF k <= Len(a) THEN a[k] ELSE b[k - Len(a)]
      BY <3>1, ConcatIs
    <3>. QED
      BY <1>3, <3>2, Zenon
  <2>2. Len(a) = i - 1 /\ Len(b) = Len(s) - i
    BY <1>4, <1>5
  <2>3. Len(a) + Len(b) = Len(s) - 1 /\ \A k \in 1..Len(s) - 1 : k <= i - 1 <=> k < i
    BY <1>1, <2>2
  <2>. HIDE DEF I
  <2>. QED
    BY <2>1, <2>2, <2>3
<1>. QED
  <2>. SUFFICES ASSUME NEW k \in 1..Len(s) - 1 PROVE r[k] = IF k < i THEN s[k] ELSE s[k + 1]
    BY <1>6
  <2>1. CASE k < i
    BY <1>1, <1>4, <1>6, <2>1
  <2>2. CASE ~(k < i)
    <3>1. k - (i - 1) \in 1..Len(s) - i /\ i + (k - (i - 1)) = k + 1
      BY <1>1, <2>2
    <3>2. b[k - (i - 1)] = s[k + 1]
      BY <1>5, <3>1
    <3>. QED
      BY <1>6, <2>2, <3>2
  <2>. QED
    BY <2>1, <2>2

LEMMA RequestedAdds ==
  ASSUME NEW S, S \subseteq Job, NEW j \in Job \ S
  PROVE  /\ IsFiniteSet(S) /\ Cardinality(S) \in Nat /\ Cardinality(Requested(S)) \in Nat
         /\ Cardinality(S \cup {j}) = Cardinality(S) + 1
         /\ Cardinality(Requested(S \cup {j})) = Cardinality(Requested(S)) + Memory[j]
<1>1. IsFiniteSet(S) /\ IsFiniteSet(S \cup {j})
  BY Constants, FS_Subset
<1>2. Cardinality(S) \in Nat /\ Cardinality(S \cup {j}) = Cardinality(S) + 1
  BY <1>1, FS_CardinalityType, FS_AddElement
<1>. DEFINE One(i) == {i} \X (1..Memory[i])
            T == {One(i) : i \in S}
<1>3. \A i \in Job : IsFiniteSet(One(i)) /\ Cardinality(One(i)) = Memory[i]
  <2>. SUFFICES ASSUME NEW i \in Job PROVE IsFiniteSet(One(i)) /\ Cardinality(One(i)) = Memory[i]
    OBVIOUS
  <2>1. Memory[i] \in Nat
    BY Constants
  <2>2. IsFiniteSet({i}) /\ Cardinality({i}) = 1
    BY FS_Singleton
  <2>3. IsFiniteSet(1..Memory[i]) /\ Cardinality(1..Memory[i]) = Memory[i]
    BY <2>1, FS_Interval
  <2>. DEFINE U == {i}
              V == 1..Memory[i]
  <2>4. IsFiniteSet(U \X V) /\ Cardinality(U \X V) = 1 * Memory[i]
    <3>. HIDE DEF U, V
    <3>1. Cardinality(U) = 1 /\ Cardinality(V) = Memory[i] /\ IsFiniteSet(U) /\ IsFiniteSet(V)
      BY <2>2, <2>3 DEF U, V
    <3>. QED
      BY <3>1, FS_Product
  <2>. QED
    BY <2>1, <2>4
<1>4. IsFiniteSet(Requested(S))
  <2>1. IsFiniteSet(T)
    <3>1. [i \in S |-> One(i)] \in Surjection(S, T)
      <4>. HIDE DEF One
      <4>. QED
        BY DEF Surjection
    <3>. HIDE DEF T
    <3>. QED
      BY <1>1, <3>1, FS_Surjection
  <2>2. \A X \in T : IsFiniteSet(X)
    BY <1>3
  <2>3. IsFiniteSet(UNION T)
    <3>. HIDE DEF T
    <3>. QED
      BY <2>1, <2>2, FS_UNION
  <2>. QED
    BY <2>3 DEF Requested
<1>5. Requested(S \cup {j}) = Requested(S) \cup One(j) /\ Requested(S) \cap One(j) = {}
  BY DEF Requested
<1>. HIDE DEF One
<1>6. Cardinality(Requested(S)) \in Nat
  BY <1>4, FS_CardinalityType
<1>7. Cardinality(Requested(S) \cup One(j)) = Cardinality(Requested(S)) + Cardinality(One(j)) - Cardinality({})
  BY <1>3, <1>4, <1>5, FS_Union
<1>8. Cardinality({}) = 0
  BY FS_EmptySet
<1>9. Cardinality(Requested(S \cup {j})) = Cardinality(Requested(S)) + Memory[j]
  <2>1. Cardinality(One(j)) = Memory[j] /\ Memory[j] \in Nat
    BY <1>3, Constants
  <2>2. \A n, m \in Nat : n + m - 0 = n + m
    OBVIOUS
  <2>3. Cardinality(Requested(S) \cup One(j)) = Cardinality(Requested(S)) + Memory[j] - 0
    BY <1>7, <1>8, <2>1, Zenon
  <2>. QED
    BY <1>5, <1>6, <2>1, <2>2, <2>3, Zenon
<1>. QED
  BY <1>1, <1>2, <1>6, <1>9

LEMMA ParStarts ==
  ASSUME NEW l \in {"off", "top"}, ParAt(l)
  PROVE  ParInv
<1>. USE DEF ParAt
<1>1. Len(pending) = Jobs /\ pending \in Seq(Job) /\ ToSet(pending) = Job /\ (\A i, k \in Job : pending[i] = pending[k] => i = k)
  BY ParAssumption
<1>2. ParOK
  <2>1. 1 \in 1..Jobs + 1 /\ 0 \in 0..Workers
    BY Constants
  <2>. QED
    BY <1>1, <2>1 DEF ParOK
<1>3. Placed
  BY <1>1, Constants DEF Placed
<1>4. Ended
  BY Constants DEF Ended
<1>5. Buffered
  BY Constants DEF Buffered, Numbered, Got, Wrote
<1>6. InOrder
  <2>1. Wrote = [j \in Job |-> 0]
    BY DEF Wrote
  <2>2. Out(Wrote) = FlattenSeq([j \in Job |-> Upto(j, 0)])
    BY <2>1 DEF Out
  <2>3. \A j \in Job : Upto(j, 0) = <<>>
    BY UptoIs
  <2>. DEFINE b == [j \in Job |-> Upto(j, 0)]
  <2>4. b \in [Job -> Seq(Chunk)] /\ \A j \in Job : b[j] = <<>>
    BY <2>3, UptoIs
  <2>5. FlattenSeq(b) = <<>>
    <3>. HIDE DEF b
    <3>. QED
      BY <2>4, NothingFlattens
  <2>. QED
    BY <2>1, <2>2, <2>5 DEF InOrder
<1>7. Admits
  <2>1. Requested({}) = {} /\ Cardinality({}) = 0
    BY FS_EmptySet DEF Requested
  <2>2. \A i \in 1..Len(pending) : pending[i] \in Job
    BY <1>1
  <2>3. 0 <= Workers /\ 0 \in Nat /\ ~(0 > 1)
    BY Constants
  <2>. QED
    BY <2>1, <2>2, <2>3 DEF Admits
<1>8. Stopped
  BY DEF Stopped
<1>. QED
  BY <1>2, <1>3, <1>4, <1>5, <1>6, <1>7, <1>8 DEF ParInv

-----------------------------------------------------------------------------
(* The steps.  What a step does not touch keeps what is said of it. *)

LEMMA OutputStays ==
  ASSUME ParInv, UNCHANGED <<sent, pipe, spool, written, head>>,
         (wpc # "interrupted" /\ wpc' # "interrupted") \/ wpc' = wpc, wpc' = "read" => wpc = "read" /\ running' = running
  PROVE  Buffered' /\ InOrder' /\ Wrote' = Wrote /\ Got' = Got
<1>1. Wrote' = Wrote /\ Got' = Got
  BY DEF Wrote, Got
<1>2. Buffered'
  BY <1>1 DEF ParInv, Buffered
<1>3. InOrder'
  BY <1>1 DEF ParInv, InOrder, Out
<1>. QED
  BY <1>1, <1>2, <1>3

LEMMA QueueStays ==
  ASSUME ParInv, UNCHANGED queue
  PROVE  /\ (UNCHANGED sent /\ UNCHANGED head => Placed') /\ Admits'
BY DEF ParInv, Placed, Admits, queue

(* A job that writes, closes its output or ends. *)
LEMMA StepJob ==
  ASSUME ParInv, NEW j \in Job, Writes(j) \/ Closes(j) \/ Exits(j)
  PROVE  ParInv'
<1>. USE DEF ParInv
<1>1. CASE Writes(j)
  <2>. DEFINE c == <<j, sent[j] + 1>>
  <2>1. /\ j \in running /\ j \notin closed /\ sent' = [sent EXCEPT ![j] = @ + 1] /\ pipe' = [pipe EXCEPT ![j] = Append(@, c)]
        /\ UNCHANGED <<wpc, told, pending, running, done, reserved, bypassed, passes, exited, closed, ready, eof, head, spool, written>>
    BY <1>1 DEF Writes, queue, output
  <2>2. sent \in [Job -> Nat] /\ sent[j] \in Nat /\ c \in Chunk
    BY DEF ParOK, Chunk
  <2>3. ParOK'
    BY <2>1, <2>2 DEF ParOK
  <2>4. Placed'
    <3>1. j \notin ToSet(pending)
      BY <2>1 DEF ParOK
    <3>2. \A i \in ToSet(pending) : sent'[i] = 0
      BY <2>1, <2>2, <3>1 DEF ParOK, Placed
    <3>. QED
      BY <2>1, <3>2 DEF Placed
  <2>5. /\ pipe'[j] \in Seq(Chunk) /\ pipe'[j] # <<>> /\ Len(pipe'[j]) = Len(pipe[j]) + 1 /\ Len(pipe[j]) \in Nat
        /\ \A i \in 1..Len(pipe[j]) + 1 : pipe'[j][i] = IF i = Len(pipe[j]) + 1 THEN c ELSE pipe[j][i]
    <3>1. pipe[j] \in Seq(Chunk) /\ pipe'[j] = Append(pipe[j], c)
      BY <2>1 DEF Buffered
    <3>. HIDE DEF c
    <3>. DEFINE s == pipe[j]
                e == Append(s, c)
    <3>2. /\ e \in Seq(Chunk) /\ e # <<>> /\ Len(e) = Len(s) + 1 /\ Len(s) \in Nat
          /\ \A i \in 1..Len(s) + 1 : e[i] = IF i = Len(s) + 1 THEN c ELSE s[i]
      <4>1. s \in Seq(Chunk) /\ c \in Chunk
        BY <2>2, <3>1
      <4>. HIDE DEF s
      <4>. QED
        BY <4>1
    <3>. QED
      BY <3>1, <3>2
  <2>6. Ended'
    BY <2>1, <2>5 DEF Ended, Buffered, ParOK
  <2>7. Wrote' = Wrote /\ Got' = Got
    <3>1. \A i \in Job : sent'[i] - Len(pipe'[i]) = sent[i] - Len(pipe[i])
      BY <2>1, <2>2, <2>5 DEF Buffered
    <3>. QED
      BY <2>1, <3>1 DEF Wrote, Got
  <2>8. Buffered'
    <3>1. pipe' \in [Job -> Seq(Chunk)] /\ spool' \in [Job -> Seq(Chunk)]
      BY <2>1, <2>5 DEF Buffered
    <3>2. ASSUME NEW i \in Job
          PROVE  Len(pipe'[i]) + Len(spool'[i]) <= sent'[i] /\ Numbered(pipe'[i], i, Got'[i]) /\ Numbered(spool'[i], i, Wrote'[i])
      <4>1. CASE i = j
        <5>1. Got[j] + (Len(pipe[j]) + 1) = sent[j] + 1
          BY <2>2, <2>5 DEF Got
        <5>2. Numbered(pipe'[j], j, Got'[j])
          <6>1. /\ Got'[j] = Got[j] /\ Len(pipe'[j]) = Len(pipe[j]) + 1
                /\ c = <<j, Got[j] + (Len(pipe[j]) + 1)>> /\ Numbered(pipe[j], j, Got[j])
            BY <2>5, <2>7, <5>1 DEF Buffered
          <6>. HIDE DEF c
          <6>2. ASSUME NEW n \in 1..Len(pipe[j]) + 1 PROVE pipe'[j][n] = <<j, Got[j] + n>>
            <7>1. CASE n = Len(pipe[j]) + 1
              BY <2>5, <6>1, <7>1
            <7>2. CASE n \in 1..Len(pipe[j])
              BY <2>5, <6>1, <7>2 DEF Numbered
            <7>. QED
              BY <2>5, <7>1, <7>2
          <6>. QED
            BY <2>5, <6>1, <6>2 DEF Numbered
        <5>. QED
          BY <2>1, <2>2, <2>5, <2>7, <4>1, <5>2 DEF Buffered
      <4>2. CASE i # j
        BY <2>1, <2>2, <2>7, <4>2 DEF Buffered
      <4>. QED
        BY <4>1, <4>2
    <3>. QED
      BY <3>1, <3>2 DEF Buffered
  <2>9. InOrder'
    BY <2>1, <2>7 DEF InOrder, Out
  <2>10. Admits' /\ Stopped'
    BY <2>1 DEF Admits, Stopped
  <2>. QED
    BY <2>3, <2>4, <2>6, <2>8, <2>9, <2>10
<1>2. CASE Closes(j)
  <2>1. /\ closed' = closed \cup {j}
        /\ UNCHANGED <<wpc, told, queue, exited, sent, pipe, eof, ready, head, spool, written>>
    BY <1>2 DEF Closes, input, output
  <2>2. ParOK' /\ Ended' /\ Stopped'
    BY <2>1 DEF ParOK, Ended, Stopped, queue
  <2>. QED
    BY <2>1, <2>2, OutputStays, QueueStays DEF queue
<1>3. CASE Exits(j)
  <2>1. /\ exited' = exited \cup {j}
        /\ UNCHANGED <<wpc, told, queue, closed, sent, pipe, eof, ready, head, spool, written>>
    BY <1>3 DEF Exits, input, output
  <2>2. ParOK' /\ Ended' /\ Stopped'
    BY <2>1 DEF ParOK, Ended, Stopped, queue
  <2>. QED
    BY <2>1, <2>2, OutputStays, QueueStays DEF queue
<1>. QED
  BY <1>1, <1>2, <1>3

(* The steps of the loop that start, read or write nothing. *)
LEMMA StepQuiet ==
  ASSUME ParInv, Tell \/ Top \/ NoneFits \/ ReadDone \/ ReapDone \/ StopJobs
  PROVE  ParInv'
<1>. USE DEF ParInv
<1>1. UNCHANGED <<queue, closed, sent, pipe, eof, ready, head, spool, written>> /\ told' \in BOOLEAN
  BY DEF Tell, Top, NoneFits, ReadDone, ReapDone, StopJobs, procs, input, output, ParOK
<1>2. wpc' \in {"off", "top", "admit", "advance", "read", "reap", "stop", "replay", "ended", "interrupted"}
  BY DEF Tell, Top, NoneFits, ReadDone, ReapDone, StopJobs, ParOK
<1>3. exited' \subseteq Job /\ exited \subseteq exited'
  BY DEF Tell, Top, NoneFits, ReadDone, ReapDone, StopJobs, ParOK, procs
<1>4. ParOK'
  BY <1>1, <1>2, <1>3 DEF ParOK, queue
<1>5. Ended'
  BY <1>1 DEF Ended, Tell, Top, NoneFits, ReadDone, ReapDone, StopJobs, queue
<1>6. wpc' = "read" => wpc = "read" /\ running' = running
  BY <1>1 DEF Tell, Top, NoneFits, ReadDone, ReapDone, StopJobs, queue
<1>7. (wpc # "interrupted" /\ wpc' # "interrupted") \/ wpc' = wpc
  BY DEF Tell, Top, NoneFits, ReadDone, ReapDone, StopJobs
<1>8. Stopped'
  <2>1. head \in 1..Jobs + 1 /\ Jobs \in Nat
    BY Constants DEF ParOK
  <2>. QED
    BY <1>1, <1>3, <2>1 DEF Stopped, Tell, Top, NoneFits, ReadDone, ReapDone, StopJobs, queue
<1>. QED
  BY <1>1, <1>4, <1>5, <1>6, <1>7, <1>8, OutputStays, QueueStays

(* A pending job leaves the queue; the first one that stays was passed     *)
(* once more, or never.                                                    *)
LEMMA QueueMoves ==
  ASSUME ParInv, NEW j \in Job, Eligible(j), Admitted(j)
  PROVE  /\ pending' \in Seq(Job) /\ ToSet(pending') \subseteq ToSet(pending) \ {j} /\ j \in ToSet(pending)
         /\ \A i, k \in 1..Len(pending') : pending'[i] = pending'[k] => i = k
         /\ bypassed' \in 0..Workers
         /\ passes' \in [Job -> Nat] /\ \A i \in Job : passes'[i] <= Workers
         /\ \A i \in 1..Len(pending') : passes'[pending'[i]] = IF i = 1 THEN bypassed' ELSE 0
<1>1. /\ pending \in Seq(Job) /\ \A i, k \in 1..Len(pending) : pending[i] = pending[k] => i = k
      /\ bypassed \in 0..Workers /\ Workers \in Nat /\ passes \in [Job -> Nat]
      /\ \A i \in Job : passes[i] <= Workers
      /\ \A i \in 1..Len(pending) : passes[pending[i]] = IF i = 1 THEN bypassed ELSE 0
  BY Constants DEF ParInv, ParOK, Placed, Admits
<1>2. PICK n \in 1..Len(pending) : j = pending[n]
  BY <1>1 DEF Eligible, ToSet
<1>. DEFINE r == pending'
<1>3. r = RemoveFirst(pending, pending[n])
  BY <1>2 DEF Admitted
<1>4. /\ r \in Seq(Job) /\ Len(r) = Len(pending) - 1
      /\ \A k \in 1..Len(pending) - 1 : r[k] = IF k < n THEN pending[k] ELSE pending[k + 1]
  <2>1. TakesOut(pending, n, r)
    BY RemovedIs, Zenon
  <2>. HIDE DEF r
  <2>. QED
    BY <1>1, <1>2, <1>3, <2>1, Zenon DEF TakesOut
<1>. HIDE DEF r
<1>5. Len(pending) \in Nat /\ n \in 1..Len(pending)
  BY <1>1
<1>. DEFINE at(k) == IF k < n THEN k ELSE k + 1
<1>6. \A k \in 1..Len(r) : at(k) \in 1..Len(pending) /\ at(k) # n /\ r[k] = pending[at(k)]
  BY <1>4, <1>5
<1>7. \A k, m \in 1..Len(r) : at(k) = at(m) => k = m
  BY <1>5
<1>8. ToSet(r) \subseteq ToSet(pending) \ {j}
  <2>. SUFFICES ASSUME NEW k \in 1..Len(r) PROVE r[k] \in ToSet(pending) \ {j}
    BY <1>4 DEF ToSet
  <2>1. at(k) \in 1..Len(pending) /\ at(k) # n /\ r[k] = pending[at(k)]
    BY <1>6
  <2>. HIDE DEF at
  <2>. QED
    BY <1>1, <1>2, <2>1 DEF ToSet
<1>9. \A i, k \in 1..Len(r) : r[i] = r[k] => i = k
  <2>. SUFFICES ASSUME NEW i \in 1..Len(r), NEW k \in 1..Len(r), r[i] = r[k] PROVE i = k
    OBVIOUS
  <2>1. pending[at(i)] = pending[at(k)] /\ at(i) \in 1..Len(pending) /\ at(k) \in 1..Len(pending)
    BY <1>6
  <2>. HIDE DEF at
  <2>2. at(i) = at(k)
    BY <1>1, <2>1, Zenon
  <2>. QED
    BY <1>7, <2>2, Zenon
<1>10. /\ bypassed' = IF n = 1 THEN 0 ELSE bypassed + 1
       /\ passes' = IF n = 1 THEN passes ELSE [passes EXCEPT ![pending[1]] = @ + 1]
  <2>1. 1 \in 1..Len(pending)
    BY <1>5
  <2>2. j = pending[1] <=> n = 1
    BY <1>1, <1>2, <2>1
  <2>. QED
    BY <2>2, Zenon DEF Admitted
<1>11. n # 1 => bypassed < Workers
  <2>1. 1 \in 1..Len(pending)
    BY <1>5
  <2>2. j = pending[1] => n = 1
    BY <1>1, <1>2, <2>1
  <2>. QED
    BY <2>2 DEF Eligible
<1>12. CASE n = 1
  <2>1. \A k \in 1..Len(r) : k + 1 \in 1..Len(pending) /\ k + 1 # 1 /\ r[k] = pending[k + 1]
    BY <1>4, <1>5, <1>12
  <2>2. \A k \in 1..Len(r) : passes[r[k]] = 0
    <3>. SUFFICES ASSUME NEW k \in 1..Len(r) PROVE passes[r[k]] = 0
      OBVIOUS
    <3>1. k + 1 \in 1..Len(pending) /\ k + 1 # 1 /\ r[k] = pending[k + 1]
      BY <2>1
    <3>2. passes[pending[k + 1]] = IF k + 1 = 1 THEN bypassed ELSE 0
      BY <1>1, <3>1, Zenon
    <3>. QED
      BY <3>1, <3>2
  <2>3. 0 \in 0..Workers
    BY <1>1
  <2>. QED
    BY <1>1, <1>2, <1>4, <1>8, <1>9, <1>10, <1>12, <2>2, <2>3 DEF r, Eligible
<1>13. CASE n # 1
  <2>1. 1 \in 1..Len(pending) /\ pending[1] \in Job /\ passes[pending[1]] = bypassed
    BY <1>1, <1>5
  <2>2. passes' \in [Job -> Nat] /\ (\A i \in Job : passes'[i] = IF i = pending[1] THEN bypassed + 1 ELSE passes[i])
    BY <1>1, <1>10, <1>13, <2>1
  <2>3. \A i \in Job : passes'[i] <= Workers
    <3>. SUFFICES ASSUME NEW i \in Job PROVE passes'[i] <= Workers
      OBVIOUS
    <3>1. passes'[i] = bypassed + 1 \/ passes'[i] = passes[i]
      BY <2>2
    <3>2. passes[i] <= Workers
      BY <1>1
    <3>3. bypassed + 1 <= Workers
      BY <1>1, <1>11, <1>13
    <3>. QED
      BY <3>1, <3>2, <3>3
  <2>4. \A k \in 1..Len(r) : passes'[r[k]] = IF k = 1 THEN bypassed' ELSE 0
    <3>. SUFFICES ASSUME NEW k \in 1..Len(r) PROVE passes'[r[k]] = IF k = 1 THEN bypassed' ELSE 0
      OBVIOUS
    <3>1. at(k) \in 1..Len(pending) /\ r[k] = pending[at(k)] /\ (at(k) = 1 <=> k = 1)
      BY <1>4, <1>5, <1>6, <1>13
    <3>. HIDE DEF at
    <3>2. r[k] \in Job /\ (r[k] = pending[1] <=> k = 1) /\ passes[r[k]] = IF k = 1 THEN bypassed ELSE 0
      BY <1>1, <2>1, <3>1
    <3>. QED
      BY <1>10, <1>13, <2>2, <3>2
  <2>5. bypassed' \in 0..Workers
    BY <1>1, <1>10, <1>11, <1>13
  <2>. QED
    BY <1>4, <1>8, <1>9, <2>2, <2>3, <2>4, <2>5 DEF r, Eligible
<1>. QED
  BY <1>12, <1>13

LEMMA StepStart ==
  ASSUME ParInv, NEW j \in Job, StartJob(j)
  PROVE  ParInv'
<1>. USE DEF ParInv
<1>1. /\ wpc = "admit" /\ Eligible(j) /\ Admitted(j)
      /\ running' = running \cup {j} /\ reserved' = reserved + Memory[j]
      /\ UNCHANGED <<wpc, told, done, exited, closed, sent, ready, pipe, eof, head, spool, written>>
  BY DEF StartJob, procs, input, output
<1>2. /\ pending' \in Seq(Job) /\ ToSet(pending') \subseteq ToSet(pending) \ {j} /\ j \in ToSet(pending)
      /\ \A i, k \in 1..Len(pending') : pending'[i] = pending'[k] => i = k
      /\ bypassed' \in 0..Workers
      /\ passes' \in [Job -> Nat] /\ \A i \in Job : passes'[i] <= Workers
      /\ \A i \in 1..Len(pending') : passes'[pending'[i]] = IF i = 1 THEN bypassed' ELSE 0
  BY <1>1, QueueMoves
<1>3. j \notin running /\ j \notin done
  BY <1>2 DEF ParOK
<1>4. /\ Cardinality(running) \in Nat /\ Cardinality(Requested(running)) \in Nat
      /\ Cardinality(running') = Cardinality(running) + 1
      /\ Cardinality(Requested(running')) = Cardinality(Requested(running)) + Memory[j]
  BY <1>1, <1>3, RequestedAdds DEF ParOK
<1>5. ParOK'
  <2>1. reserved' \in Nat
    BY <1>1, Constants DEF ParOK
  <2>. QED
    BY <1>1, <1>2, <1>3, <2>1 DEF ParOK
<1>6. Placed'
  BY <1>1, <1>2 DEF Placed
<1>7. Ended' /\ Stopped'
  BY <1>1 DEF Ended, Stopped
<1>8. Buffered' /\ InOrder'
  BY <1>1, OutputStays
<1>9. Admits'
  <2>1. Cardinality(running) < Workers /\ (running = {} \/ reserved + Memory[j] <= Budget)
    BY <1>1 DEF Eligible, FitsBeside
  <2>2. Cardinality(running') <= Workers
    BY <1>4, <2>1, Constants
  <2>3. running = {} => Cardinality(running) = 0
    BY FS_EmptySet
  <2>4. Cardinality(running') > 1 => reserved' <= Budget
    BY <1>1, <1>4, <2>1, <2>3
  <2>5. reserved' = Cardinality(Requested(running'))
    BY <1>1, <1>4 DEF Admits
  <2>. QED
    BY <1>2, <2>2, <2>4, <2>5 DEF Admits
<1>. QED
  BY <1>5, <1>6, <1>7, <1>8, <1>9

LEMMA StepStartFails ==
  ASSUME ParInv, NEW j \in Job, StartFails(j)
  PROVE  ParInv'
<1>. USE DEF ParInv
<1>. DEFINE m == << <<j, 1>> >>
<1>1. /\ wpc = "admit" /\ Eligible(j) /\ Admitted(j)
      /\ done' = done \cup {j} /\ sent' = [sent EXCEPT ![j] = 1] /\ spool' = [spool EXCEPT ![j] = m]
      /\ exited' = exited \cup {j} /\ closed' = closed \cup {j} /\ eof' = eof \cup {j}
      /\ UNCHANGED <<wpc, told, running, reserved, ready, pipe, head, written>>
  BY DEF StartFails
<1>2. /\ pending' \in Seq(Job) /\ ToSet(pending') \subseteq ToSet(pending) \ {j} /\ j \in ToSet(pending)
      /\ \A i, k \in 1..Len(pending') : pending'[i] = pending'[k] => i = k
      /\ bypassed' \in 0..Workers
      /\ passes' \in [Job -> Nat] /\ \A i \in Job : passes'[i] <= Workers
      /\ \A i \in 1..Len(pending') : passes'[pending'[i]] = IF i = 1 THEN bypassed' ELSE 0
  BY <1>1, QueueMoves
<1>3. j \notin running /\ j \notin done /\ head <= j /\ sent[j] = 0 /\ head \in Int /\ j \in Int
  BY <1>2, Constants DEF ParOK, Placed
<1>4. ParOK'
  BY <1>1, <1>2, <1>3 DEF ParOK
<1>5. Placed'
  <2>1. \A i \in ToSet(pending') : sent'[i] = 0
    BY <1>1, <1>2 DEF Placed, ParOK
  <2>. QED
    BY <1>1, <1>2, <1>3, <2>1 DEF Placed
<1>6. /\ pipe[j] \in Seq(Chunk) /\ spool[j] \in Seq(Chunk) /\ Len(pipe[j]) = 0 /\ Len(spool[j]) = 0
      /\ pipe[j] = <<>> /\ Got[j] = 0 /\ Wrote[j] = 0
  <2>1. pipe[j] \in Seq(Chunk) /\ spool[j] \in Seq(Chunk) /\ Len(pipe[j]) + Len(spool[j]) <= 0
    BY <1>3 DEF Buffered
  <2>2. Len(pipe[j]) = 0 /\ Len(spool[j]) = 0
    <3>1. Len(pipe[j]) \in Nat /\ Len(spool[j]) \in Nat
      BY <2>1, LenProperties
    <3>2. \A a, b \in Nat : a + b <= 0 => a = 0 /\ b = 0
      OBVIOUS
    <3>. QED
      BY <2>1, <3>1, <3>2, Zenon
  <2>3. pipe[j] = <<>>
    BY <2>1, <2>2
  <2>4. Got[j] = 0 /\ Wrote[j] = 0
    <3>1. Got[j] = sent[j] - Len(pipe[j]) /\ Wrote[j] = sent[j] - Len(pipe[j]) - Len(spool[j])
      BY DEF Got, Wrote
    <3>. QED
      BY <1>3, <2>2, <3>1
  <2>. QED
    BY <2>1, <2>2, <2>3, <2>4
<1>7. Ended'
  BY <1>1, <1>3, <1>6 DEF Ended, Buffered
<1>8. /\ m \in Seq(Chunk) /\ Len(m) = 1 /\ m[1] = <<j, 1>>
      /\ spool'[j] = m /\ sent'[j] = 1 /\ Got'[j] = 1 /\ Wrote'[j] = 0
      /\ \A i \in Job : i # j => spool'[i] = spool[i] /\ sent'[i] = sent[i] /\ Got'[i] = Got[i] /\ Wrote'[i] = Wrote[i]
  <2>1. m \in Seq(Chunk) /\ Len(m) = 1 /\ m[1] = <<j, 1>>
    BY DEF Chunk
  <2>2. spool'[j] = m /\ sent'[j] = 1 /\ \A i \in Job : i # j => spool'[i] = spool[i] /\ sent'[i] = sent[i]
    BY <1>1 DEF Buffered, ParOK
  <2>. HIDE DEF m
  <2>3. \A i \in Job : Got'[i] = sent'[i] - Len(pipe[i]) /\ Wrote'[i] = sent'[i] - Len(pipe[i]) - Len(spool'[i])
    BY <1>1 DEF Got, Wrote
  <2>4. Got'[j] = 1 /\ Wrote'[j] = 0
    BY <1>6, <2>1, <2>2, <2>3
  <2>5. \A i \in Job : i # j => Got'[i] = Got[i] /\ Wrote'[i] = Wrote[i]
    BY <2>2, <2>3 DEF Got, Wrote
  <2>. QED
    BY <2>1, <2>2, <2>4, <2>5, Zenon
<1>. HIDE DEF m
<1>9. Wrote' = Wrote
  BY <1>6, <1>8 DEF Wrote
<1>10. Buffered'
  <2>1. pipe' \in [Job -> Seq(Chunk)] /\ spool' \in [Job -> Seq(Chunk)]
    BY <1>1, <1>8 DEF Buffered
  <2>2. ASSUME NEW i \in Job
        PROVE  Len(pipe'[i]) + Len(spool'[i]) <= sent'[i] /\ Numbered(pipe'[i], i, Got'[i]) /\ Numbered(spool'[i], i, Wrote'[i])
    <3>1. CASE i = j
      <4>1. Len(pipe'[j]) + Len(spool'[j]) <= sent'[j]
        BY <1>1, <1>6, <1>8
      <4>2. Numbered(pipe'[j], j, Got'[j])
        BY <1>1, <1>6 DEF Numbered
      <4>3. Numbered(spool'[j], j, Wrote'[j])
        BY <1>8 DEF Numbered
      <4>. QED
        BY <3>1, <4>1, <4>2, <4>3
    <3>2. CASE i # j
      BY <1>1, <1>8, <3>2 DEF Buffered
    <3>. QED
      BY <3>1, <3>2
  <2>. QED
    BY <2>1, <2>2 DEF Buffered
<1>11. InOrder'
  BY <1>1, <1>9 DEF InOrder, Out
<1>12. Admits' /\ Stopped'
  BY <1>1, <1>2 DEF Admits, Stopped
<1>. QED
  BY <1>4, <1>5, <1>7, <1>10, <1>11, <1>12

(* What is written next is what comes next. *)
LEMMA WroteMore ==
  ASSUME ParInv, wpc # "interrupted", NEW j \in Job, head <= j, NEW s, Numbered(s, j, Wrote[j]),
         Len(s) <= Len(spool[j]) + Len(pipe[j])
  PROVE  written \o s = Out([Wrote EXCEPT ![j] = @ + Len(s)])
<1>1. Wrote \in [Job -> Nat]
  <2>1. \A i \in Job : sent[i] - Len(pipe[i]) - Len(spool[i]) \in Nat
    BY DEF ParInv, ParOK, Buffered
  <2>. QED
    BY <2>1 DEF Wrote
<1>2. written = Out(Wrote) /\ \A i \in Job : head < i => Wrote[i] = 0
  BY DEF ParInv, InOrder
<1>3. \A i \in Job : i > j => Wrote[i] = 0
  BY <1>2, Constants DEF ParInv, ParOK
<1>. QED
  BY <1>1, <1>2, <1>3, OutGrows

LEMMA StepAdvance ==
  ASSUME ParInv, Advance
  PROVE  ParInv'
<1>. USE DEF ParInv
<1>1. /\ wpc = "advance"
      /\ UNCHANGED <<told, pending, running, reserved, bypassed, passes, exited, closed, sent, pipe, eof>>
  BY DEF Advance, procs
<1>2. ASSUME NEW h \in Job, h = head, spool' = [spool EXCEPT ![h] = <<>>], written' = written \o spool[h]
      PROVE  /\ Buffered' /\ Got' = Got /\ Wrote' = [Wrote EXCEPT ![h] = @ + Len(spool[h])]
             /\ written' = Out(Wrote')
  <2>1. Got' = Got
    BY <1>1 DEF Got
  <2>2. /\ spool[h] \in Seq(Chunk) /\ Len(spool[h]) \in Nat /\ Len(pipe[h]) \in Nat /\ sent[h] \in Nat
        /\ Numbered(spool[h], h, Wrote[h])
    BY DEF Buffered, ParOK
  <2>3. spool' \in [Job -> Seq(Chunk)] /\ spool'[h] = <<>> /\ Len(spool'[h]) = 0 /\ \A i \in Job : i # h => spool'[i] = spool[i]
    BY <1>2 DEF Buffered
  <2>4. Wrote' = [Wrote EXCEPT ![h] = @ + Len(spool[h])]
    <3>1. Wrote' = [i \in Job |-> IF i = h THEN Wrote[h] + Len(spool[h]) ELSE Wrote[i]]
      BY <1>1, <2>2, <2>3 DEF Wrote
    <3>. QED
      BY <3>1 DEF Wrote
  <2>5. Buffered'
    <3>1. ASSUME NEW i \in Job
          PROVE  Len(pipe'[i]) + Len(spool'[i]) <= sent'[i] /\ Numbered(pipe'[i], i, Got'[i]) /\ Numbered(spool'[i], i, Wrote'[i])
      <4>1. CASE i = h
        BY <1>1, <2>1, <2>2, <2>3, <4>1 DEF Numbered, Buffered
      <4>2. CASE i # h
        <5>1. Wrote'[i] = Wrote[i]
          BY <2>4, <4>2 DEF Wrote
        <5>. QED
          BY <1>1, <2>1, <2>3, <4>2, <5>1 DEF Buffered
      <4>. QED
        BY <4>1, <4>2
    <3>. QED
      BY <1>1, <2>3, <3>1 DEF Buffered
  <2>6. head <= h /\ Len(spool[h]) <= Len(spool[h]) + Len(pipe[h])
    <3>1. h \in Int
      BY Constants
    <3>2. \A a, b \in Nat : a <= a + b
      OBVIOUS
    <3>3. Len(spool[h]) <= Len(spool[h]) + Len(pipe[h])
      BY <2>2, <3>2, Zenon
    <3>4. head <= h
      BY <1>2, <3>1
    <3>. QED
      BY <3>3, <3>4
  <2>7. written \o spool[h] = Out([Wrote EXCEPT ![h] = @ + Len(spool[h])])
    BY <1>1, <2>2, <2>6, WroteMore
  <2>. QED
    BY <1>2, <2>1, <2>4, <2>5, <2>7
<1>3. Admits' /\ head \in Int /\ Jobs \in Nat
  BY <1>1, Constants DEF Admits, ParOK
<1>4. CASE head \in done
  <2>1. /\ written' = written \o spool[head] /\ spool' = [spool EXCEPT ![head] = <<>>]
        /\ done' = done \ {head} /\ head' = head + 1 /\ UNCHANGED <<wpc, ready>>
    BY <1>4 DEF Advance
  <2>2. head \in Job
    BY <1>4 DEF ParOK
  <2>3. Buffered' /\ Wrote' = [Wrote EXCEPT ![head] = @ + Len(spool[head])] /\ written' = Out(Wrote')
    BY <1>2, <2>1, <2>2
  <2>4. ParOK'
    <3>1. head + 1 \in 1..Jobs + 1
      BY <2>2, Constants
    <3>. QED
      BY <1>1, <2>1, <3>1 DEF ParOK
  <2>5. Placed'
    <3>1. \A j \in running \cup done' \cup ToSet(pending) : head <= j /\ j # head /\ j \in Int
      BY <1>4, <2>1, Constants DEF Placed, ParOK
    <3>2. \A j \in running \cup done' \cup ToSet(pending) : head + 1 <= j
      BY <1>3, <3>1
    <3>. QED
      BY <1>1, <2>1, <3>2 DEF Placed
  <2>6. Ended'
    <3>1. \A j \in Job : j < head + 1 => j < head \/ j = head
      BY <1>3, Constants
    <3>2. \A j \in Job : j < head' => j \in eof' /\ spool'[j] = <<>>
      BY <1>1, <1>4, <2>1, <3>1 DEF Ended, Buffered
    <3>. QED
      BY <1>1, <2>1, <3>2 DEF Ended
  <2>7. InOrder'
    <3>1. \A j \in Job : head + 1 < j => head < j /\ j # head
      BY <1>3, Constants
    <3>2. \A j \in Job : head' < j => Wrote'[j] = 0
      BY <1>1, <2>1, <2>3, <3>1 DEF InOrder, Wrote
    <3>. QED
      BY <1>1, <2>1, <2>3, <3>2 DEF InOrder
  <2>8. Stopped'
    BY <1>1, <2>1 DEF Stopped
  <2>. QED
    BY <1>3, <2>3, <2>4, <2>5, <2>6, <2>7, <2>8
<1>5. CASE head \notin done
  <2>1. /\ IF head \in running
             THEN written' = written \o spool[head] /\ spool' = [spool EXCEPT ![head] = <<>>]
             ELSE UNCHANGED <<spool, written>>
        /\ wpc' = (IF running = {} THEN "top" ELSE "read")
        /\ ready' = Readable /\ UNCHANGED <<head, done>>
    BY <1>5 DEF Advance
  <2>2. ParOK'
    BY <1>1, <2>1 DEF ParOK, Readable
  <2>3. Placed' /\ Stopped'
    BY <1>1, <2>1 DEF Placed, Stopped
  <2>4. Ended'
    <3>1. \A j \in Job : j < head => spool'[j] = <<>>
      BY <2>1 DEF Ended, Buffered
    <3>2. \A j \in ready' : pipe[j] # <<>> \/ j \in closed
      BY <2>1 DEF Readable
    <3>3. wpc' # "read" => ready' = {}
      BY <2>1 DEF Readable
    <3>. QED
      BY <1>1, <2>1, <3>1, <3>2, <3>3 DEF Ended
  <2>5. CASE head \in running
    <3>1. head \in Job
      BY <2>5 DEF ParOK
    <3>2. Buffered' /\ Wrote' = [Wrote EXCEPT ![head] = @ + Len(spool[head])] /\ written' = Out(Wrote')
      BY <1>2, <2>1, <2>5, <3>1
    <3>3. spool'[head] = <<>>
      BY <2>1, <2>5, <3>1 DEF Buffered
    <3>4. \A j \in Job : head < j => Wrote'[j] = 0
      <4>1. \A j \in Job : head < j => j # head
        BY <1>3, Constants
      <4>. QED
        BY <1>1, <3>2, <4>1 DEF InOrder, Wrote
    <3>5. InOrder'
      BY <2>1, <3>2, <3>3, <3>4 DEF InOrder
    <3>. QED
      BY <1>3, <2>2, <2>3, <2>4, <3>2, <3>5
  <2>6. CASE head \notin running
    <3>1. Wrote' = Wrote /\ Got' = Got
      BY <1>1, <2>1, <2>6 DEF Wrote, Got
    <3>2. Buffered'
      BY <1>1, <2>1, <2>6, <3>1 DEF Buffered
    <3>3. InOrder'
      BY <1>1, <2>1, <2>6, <3>1 DEF InOrder, Out
    <3>. QED
      BY <1>3, <2>2, <2>3, <2>4, <3>2, <3>3
  <2>. QED
    BY <2>5, <2>6
<1>. QED
  BY <1>4, <1>5

LEMMA NumberedLess ==
  ASSUME NEW j \in Job, NEW k \in Nat, NEW s, Numbered(s, j, k), s # <<>>
  PROVE  /\ Head(s) = <<j, k + 1>> /\ Head(s) \in Chunk /\ Len(s) \in Nat /\ Len(s) >= 1
         /\ Tail(s) \in Seq(Chunk) /\ Len(Tail(s)) = Len(s) - 1 /\ Numbered(Tail(s), j, k + 1)
<1>1. s \in Seq(Chunk) /\ \A i \in 1..Len(s) : s[i] = <<j, k + i>>
  BY DEF Numbered
<1>2. Len(s) \in Nat /\ Len(s) >= 1 /\ Head(s) = s[1]
  BY <1>1
<1>3. Head(s) = <<j, k + 1>>
  BY <1>1, <1>2
<1>4. <<j, k + 1>> \in Chunk
  BY DEF Chunk
<1>. DEFINE t == Tail(s)
<1>5. t \in Seq(Chunk) /\ Len(t) = Len(s) - 1 /\ \A i \in 1..Len(s) - 1 : t[i] = s[i + 1]
  BY <1>1, HeadTailProperties
<1>. HIDE DEF t
<1>6. \A i \in 1..Len(s) - 1 : t[i] = <<j, (k + 1) + i>>
  <2>. SUFFICES ASSUME NEW i \in 1..Len(s) - 1 PROVE t[i] = <<j, (k + 1) + i>>
    OBVIOUS
  <2>1. i + 1 \in 1..Len(s) /\ k + (i + 1) = (k + 1) + i
    BY <1>2
  <2>. QED
    BY <1>1, <1>5, <2>1
<1>. QED
  BY <1>2, <1>3, <1>4, <1>5, <1>6 DEF t, Numbered

LEMMA NumberedMore ==
  ASSUME NEW j \in Job, NEW k \in Nat, NEW s, Numbered(s, j, k), NEW c, c = <<j, k + Len(s) + 1>>
  PROVE  Append(s, c) \in Seq(Chunk) /\ Len(Append(s, c)) = Len(s) + 1 /\ Numbered(Append(s, c), j, k)
<1>. DEFINE e == Append(s, c)
<1>1. s \in Seq(Chunk) /\ Len(s) \in Nat /\ \A i \in 1..Len(s) : s[i] = <<j, k + i>>
  BY DEF Numbered
<1>2. c \in Chunk
  BY <1>1 DEF Chunk
<1>3. e \in Seq(Chunk) /\ Len(e) = Len(s) + 1 /\ \A i \in 1..Len(s) + 1 : e[i] = IF i = Len(s) + 1 THEN c ELSE s[i]
  BY <1>1, <1>2, AppendProperties
<1>. HIDE DEF e
<1>4. \A i \in 1..Len(s) + 1 : e[i] = <<j, k + i>>
  <2>. SUFFICES ASSUME NEW i \in 1..Len(s) + 1 PROVE e[i] = <<j, k + i>>
    OBVIOUS
  <2>1. CASE i = Len(s) + 1
    <3>1. k + i = k + Len(s) + 1
      BY <1>1, <2>1
    <3>. QED
      BY <1>3, <2>1, <3>1
  <2>2. CASE i \in 1..Len(s)
    <3>1. i # Len(s) + 1
      BY <1>1, <2>2
    <3>. QED
      BY <1>1, <1>3, <2>2, <3>1
  <2>. QED
    BY <1>1, <2>1, <2>2
<1>. QED
  BY <1>3, <1>4 DEF e, Numbered

(* Where the chunks of a job are, in numbers. *)
LEMMA Counts ==
  ASSUME ParInv, NEW j \in Job
  PROVE  /\ pipe[j] \in Seq(Chunk) /\ spool[j] \in Seq(Chunk)
         /\ Len(pipe[j]) \in Nat /\ Len(spool[j]) \in Nat /\ sent[j] \in Nat
         /\ Wrote[j] \in Nat /\ Got[j] \in Nat /\ Got[j] = Wrote[j] + Len(spool[j])
         /\ Numbered(pipe[j], j, Got[j]) /\ Numbered(spool[j], j, Wrote[j])
<1>1. /\ pipe[j] \in Seq(Chunk) /\ spool[j] \in Seq(Chunk) /\ Len(pipe[j]) + Len(spool[j]) <= sent[j]
      /\ Numbered(pipe[j], j, Got[j]) /\ Numbered(spool[j], j, Wrote[j]) /\ sent[j] \in Nat
  BY DEF ParInv, ParOK, Buffered
<1>2. Len(pipe[j]) \in Nat /\ Len(spool[j]) \in Nat
  BY <1>1
<1>3. Got[j] = sent[j] - Len(pipe[j]) /\ Wrote[j] = sent[j] - Len(pipe[j]) - Len(spool[j])
  BY DEF Got, Wrote
<1>4. \A a, b, c \in Nat : a + b <= c => c - a \in Nat /\ c - a - b \in Nat /\ c - a = (c - a - b) + b
  OBVIOUS
<1>5. Got[j] \in Nat /\ Wrote[j] \in Nat /\ Got[j] = Wrote[j] + Len(spool[j])
  <2>. DEFINE p == Len(pipe[j])
              q == Len(spool[j])
              n == sent[j]
  <2>1. p \in Nat /\ q \in Nat /\ n \in Nat /\ p + q <= n /\ Got[j] = n - p /\ Wrote[j] = n - p - q
    BY <1>1, <1>2, <1>3
  <2>. HIDE DEF p, q, n
  <2>2. Got[j] \in Nat /\ Wrote[j] \in Nat /\ Got[j] = Wrote[j] + q
    BY <2>1
  <2>. QED
    BY <2>2 DEF q
<1>. QED
  BY <1>1, <1>2, <1>5

LEMMA StepRead ==
  ASSUME ParInv, NEW j \in Job, Read(j)
  PROVE  ParInv'
<1>. USE DEF ParInv
<1>1. /\ wpc = "read" /\ j \in ready /\ pipe[j] # <<>> /\ ready' = ready \ {j} /\ pipe' = [pipe EXCEPT ![j] = Tail(@)]
      /\ IF j = head
           THEN written' = Append(written, Head(pipe[j])) /\ UNCHANGED spool
           ELSE spool' = [spool EXCEPT ![j] = Append(@, Head(pipe[j]))] /\ UNCHANGED written
      /\ UNCHANGED <<wpc, told, pending, running, done, reserved, bypassed, passes, exited, closed, sent, eof, head>>
  BY DEF Read, queue, procs
<1>. DEFINE c == Head(pipe[j])
<1>2. /\ pipe[j] \in Seq(Chunk) /\ spool[j] \in Seq(Chunk)
      /\ Len(pipe[j]) \in Nat /\ Len(spool[j]) \in Nat /\ sent[j] \in Nat
      /\ Wrote[j] \in Nat /\ Got[j] \in Nat /\ Got[j] = Wrote[j] + Len(spool[j])
      /\ Numbered(pipe[j], j, Got[j]) /\ Numbered(spool[j], j, Wrote[j])
  BY Counts
<1>3. /\ c = <<j, Got[j] + 1>> /\ c \in Chunk /\ Len(pipe[j]) >= 1
      /\ Tail(pipe[j]) \in Seq(Chunk) /\ Len(Tail(pipe[j])) = Len(pipe[j]) - 1 /\ Numbered(Tail(pipe[j]), j, Got[j] + 1)
  BY <1>1, <1>2, NumberedLess
<1>4. /\ pipe' \in [Job -> Seq(Chunk)] /\ pipe'[j] = Tail(pipe[j]) /\ \A i \in Job : i # j => pipe'[i] = pipe[i]
  BY <1>1, <1>3 DEF Buffered
<1>5. j \in running /\ head <= j /\ head \in Int /\ j \in Int
  BY <1>1, Constants DEF ParOK, Placed
<1>6. ParOK' /\ Placed' /\ Admits' /\ Stopped'
  BY <1>1 DEF ParOK, Placed, Admits, Stopped
<1>7. j \notin eof
  BY <1>1 DEF Ended
<1>8. Got'[j] = Got[j] + 1 /\ \A i \in Job : i # j => Got'[i] = Got[i]
  <2>1. sent[j] - (Len(pipe[j]) - 1) = (sent[j] - Len(pipe[j])) + 1
    BY <1>2
  <2>. QED
    BY <1>1, <1>3, <1>4, <2>1 DEF Got
<1>9. CASE j = head
  <2>1. written' = Append(written, c) /\ UNCHANGED spool
    BY <1>1, <1>9
  <2>2. spool[j] = <<>> /\ Len(spool[j]) = 0 /\ Wrote[j] = Got[j]
    <3>1. spool[j] = <<>>
      BY <1>1, <1>5, <1>9 DEF InOrder
    <3>2. Len(spool[j]) = 0
      BY <3>1
    <3>. QED
      BY <1>2, <3>1, <3>2
  <2>3. Wrote'[j] = Wrote[j] + 1 /\ \A i \in Job : i # j => Wrote'[i] = Wrote[i]
    <3>1. sent[j] - (Len(pipe[j]) - 1) - Len(spool[j]) = (sent[j] - Len(pipe[j]) - Len(spool[j])) + 1
      BY <1>2
    <3>. QED
      BY <1>1, <1>3, <1>4, <2>1, <3>1 DEF Wrote
  <2>4. Wrote' = [Wrote EXCEPT ![j] = @ + 1]
    BY <2>3 DEF Wrote
  <2>5. Ended'
    BY <1>1, <1>4, <1>7, <2>1 DEF Ended
  <2>6. Buffered'
    <3>1. ASSUME NEW i \in Job
          PROVE  Len(pipe'[i]) + Len(spool'[i]) <= sent'[i] /\ Numbered(pipe'[i], i, Got'[i]) /\ Numbered(spool'[i], i, Wrote'[i])
      <4>1. CASE i = j
        <5>1. Len(pipe'[j]) + Len(spool'[j]) <= sent'[j]
          BY <1>1, <1>2, <1>3, <1>4, <2>1 DEF Buffered
        <5>2. Numbered(pipe'[j], j, Got'[j])
          BY <1>3, <1>4, <1>8
        <5>3. Numbered(spool'[j], j, Wrote'[j])
          BY <2>1, <2>2 DEF Numbered
        <5>. QED
          BY <4>1, <5>1, <5>2, <5>3
      <4>2. CASE i # j
        BY <1>1, <1>4, <1>8, <2>1, <2>3, <4>2 DEF Buffered
      <4>. QED
        BY <4>1, <4>2
    <3>. QED
      BY <1>4, <2>1, <3>1 DEF Buffered
  <2>7. written' = Out(Wrote')
    <3>. DEFINE s == <<c>>
    <3>1. s \in Seq(Chunk) /\ Len(s) = 1 /\ s[1] = <<j, Wrote[j] + 1>>
      BY <1>3, <2>2
    <3>. HIDE DEF c
    <3>2. Numbered(s, j, Wrote[j])
      <4>. HIDE DEF s
      <4>. QED
        BY <3>1 DEF Numbered
    <3>3. Len(s) <= Len(spool[j]) + Len(pipe[j])
      BY <1>2, <1>3, <2>2, <3>1
    <3>4. written \o s = Out([Wrote EXCEPT ![j] = @ + Len(s)])
      <4>. HIDE DEF s
      <4>. QED
        BY <1>1, <1>5, <3>2, <3>3, WroteMore
    <3>5. written \in Seq(Chunk)
      <4>1. Wrote \in [Job -> Nat]
        BY Counts DEF Wrote
      <4>2. \A i \in Job : i > j => Wrote[i] = 0
        BY <1>1, <1>9 DEF InOrder
      <4>3. Out(Wrote) \in Seq(Chunk)
        BY <3>2, <4>1, <4>2, OutGrows
      <4>. QED
        BY <1>1, <4>3 DEF InOrder
    <3>6. Append(written, c) = written \o s
      BY <1>3, <3>5 DEF c
    <3>. QED
      BY <2>1, <2>4, <3>1, <3>4, <3>6
  <2>8. InOrder'
    <3>1. \A i \in Job : head < i => Wrote'[i] = 0
      BY <1>1, <1>5, <1>9, <2>3 DEF InOrder
    <3>. QED
      BY <1>1, <2>1, <2>7, <3>1 DEF InOrder
  <2>. QED
    BY <1>6, <2>5, <2>6, <2>8
<1>10. CASE j # head
  <2>1. spool' = [spool EXCEPT ![j] = Append(@, c)] /\ UNCHANGED written /\ ~(j < head)
    BY <1>1, <1>5, <1>10
  <2>2. Append(spool[j], c) \in Seq(Chunk) /\ Len(Append(spool[j], c)) = Len(spool[j]) + 1 /\ Numbered(Append(spool[j], c), j, Wrote[j])
    <3>1. c = <<j, Wrote[j] + Len(spool[j]) + 1>>
      BY <1>2, <1>3
    <3>. HIDE DEF c
    <3>. QED
      BY <1>2, <3>1, NumberedMore
  <2>. HIDE DEF c
  <2>3. spool' \in [Job -> Seq(Chunk)] /\ spool'[j] = Append(spool[j], c) /\ \A i \in Job : i # j => spool'[i] = spool[i]
    BY <2>1, <2>2 DEF Buffered
  <2>4. Wrote' = Wrote
    <3>1. sent[j] - (Len(pipe[j]) - 1) - (Len(spool[j]) + 1) = sent[j] - Len(pipe[j]) - Len(spool[j])
      <4>1. \A a, b, n \in Nat : n - (a - 1) - (b + 1) = n - a - b
        OBVIOUS
      <4>. QED
        BY <1>2, <4>1, Zenon
    <3>2. \A i \in Job : sent'[i] - Len(pipe'[i]) - Len(spool'[i]) = sent[i] - Len(pipe[i]) - Len(spool[i])
      BY <1>1, <1>3, <1>4, <2>2, <2>3, <3>1
    <3>. QED
      BY <3>2 DEF Wrote
  <2>5. Ended'
    <3>1. \A i \in Job : i < head => spool'[i] = <<>>
      BY <2>1, <2>3 DEF Ended
    <3>. QED
      BY <1>1, <1>4, <1>7, <3>1 DEF Ended
  <2>6. Buffered'
    <3>1. ASSUME NEW i \in Job
          PROVE  Len(pipe'[i]) + Len(spool'[i]) <= sent'[i] /\ Numbered(pipe'[i], i, Got'[i]) /\ Numbered(spool'[i], i, Wrote'[i])
      <4>1. CASE i = j
        <5>1. Len(pipe'[j]) + Len(spool'[j]) <= sent'[j]
          <6>1. (Len(pipe[j]) - 1) + (Len(spool[j]) + 1) = Len(pipe[j]) + Len(spool[j])
            <7>1. \A a, b \in Nat : (a - 1) + (b + 1) = a + b
              OBVIOUS
            <7>. QED
              BY <1>2, <7>1, Zenon
          <6>. QED
            BY <1>1, <1>3, <1>4, <2>2, <2>3, <6>1 DEF Buffered
        <5>2. Numbered(pipe'[j], j, Got'[j])
          BY <1>3, <1>4, <1>8
        <5>3. Numbered(spool'[j], j, Wrote'[j])
          BY <2>2, <2>3, <2>4
        <5>. QED
          BY <4>1, <5>1, <5>2, <5>3
      <4>2. CASE i # j
        BY <1>1, <1>4, <1>8, <2>3, <2>4, <4>2 DEF Buffered
      <4>. QED
        BY <4>1, <4>2
    <3>. QED
      BY <1>4, <2>3, <3>1 DEF Buffered
  <2>7. InOrder'
    <3>1. head \in running => spool'[head] = spool[head]
      BY <1>10, <2>3 DEF ParOK
    <3>. QED
      BY <1>1, <2>1, <2>4, <3>1 DEF InOrder, Out
  <2>. QED
    BY <1>6, <2>5, <2>6, <2>7
<1>. QED
  BY <1>9, <1>10

LEMMA StepReadEnd ==
  ASSUME ParInv, NEW j \in Job, ReadEnd(j)
  PROVE  ParInv'
<1>. USE DEF ParInv
<1>1. /\ wpc = "read" /\ j \in ready /\ pipe[j] = <<>> /\ ready' = ready \ {j} /\ eof' = eof \cup {j}
      /\ UNCHANGED <<wpc, told, queue, exited, closed, sent, pipe, head, spool, written>>
  BY DEF ReadEnd, procs, output
<1>2. j \in closed
  BY <1>1 DEF Ended
<1>3. ParOK' /\ Stopped'
  BY <1>1, <1>2 DEF ParOK, Stopped, queue
<1>4. Ended'
  BY <1>1 DEF Ended, queue
<1>. QED
  BY <1>1, <1>3, <1>4, OutputStays, QueueStays DEF queue

LEMMA StepReaps ==
  ASSUME ParInv, NEW j \in Job, Reaps(j)
  PROVE  ParInv'
<1>. USE DEF ParInv
<1>1. /\ wpc = "reap" /\ j \in running /\ j \in eof /\ j \in exited
      /\ running' = running \ {j} /\ done' = done \cup {j} /\ reserved' = reserved - Memory[j]
      /\ UNCHANGED <<wpc, told, pending, bypassed, passes, exited, closed, sent, ready, pipe, eof, head, spool, written>>
  BY DEF Reaps, procs, input, output
<1>2. /\ Cardinality(running') \in Nat /\ Cardinality(Requested(running')) \in Nat
      /\ Cardinality(running) = Cardinality(running') + 1
      /\ Cardinality(Requested(running)) = Cardinality(Requested(running')) + Memory[j]
  <2>1. running' \subseteq Job /\ j \in Job \ running' /\ running' \cup {j} = running
    BY <1>1 DEF ParOK
  <2>. DEFINE S == running'
  <2>2. S \subseteq Job /\ j \in Job \ S /\ S \cup {j} = running
    BY <2>1
  <2>. HIDE DEF S
  <2>3. /\ Cardinality(S) \in Nat /\ Cardinality(Requested(S)) \in Nat
        /\ Cardinality(S \cup {j}) = Cardinality(S) + 1
        /\ Cardinality(Requested(S \cup {j})) = Cardinality(Requested(S)) + Memory[j]
    BY <2>2, RequestedAdds
  <2>. QED
    BY <2>2, <2>3 DEF S
<1>3. reserved' = Cardinality(Requested(running'))
  <2>1. Memory[j] \in Nat /\ \A a, b \in Nat : (a + b) - b = a
    BY Constants
  <2>2. reserved' = (Cardinality(Requested(running')) + Memory[j]) - Memory[j]
    BY <1>1, <1>2 DEF Admits
  <2>. QED
    BY <1>2, <2>1, <2>2
<1>4. Admits'
  <2>1. Cardinality(running) <= Workers /\ (Cardinality(running) > 1 => reserved <= Budget)
    BY DEF Admits
  <2>2. Cardinality(running') <= Workers
    BY <1>2, <2>1, Constants
  <2>3. Cardinality(running') > 1 => reserved' <= Budget
    <3>1. Memory[j] \in Nat /\ Budget \in Nat /\ reserved = reserved' + Memory[j] /\ reserved' \in Nat
      BY <1>2, <1>3, Constants DEF Admits
    <3>. QED
      BY <1>2, <2>1, <3>1
  <2>. QED
    BY <1>1, <1>3, <2>2, <2>3 DEF Admits
<1>5. ParOK'
  <2>1. reserved' \in Nat
    BY <1>2, <1>3
  <2>2. ready = {}
    BY <1>1 DEF Ended
  <2>. QED
    BY <1>1, <2>1, <2>2 DEF ParOK
<1>6. Placed' /\ Ended' /\ Stopped'
  BY <1>1 DEF Placed, Ended, Stopped
<1>7. Buffered' /\ InOrder'
  BY <1>1, OutputStays
<1>. QED
  BY <1>4, <1>5, <1>6, <1>7

(* What was written, with what is buffered. *)
LEMMA WrittenAndBuffered ==
  ASSUME ParInv, wpc # "interrupted"
  PROVE  written \o FlattenSeq(spool) = Out(Got)
<1>1. Wrote \in [Job -> Nat] /\ spool \in [Job -> Seq(Chunk)]
  BY Counts DEF Wrote, ParInv, Buffered
<1>2. \A i \in Job : (i > head => Wrote[i] = 0) /\ (i < head => spool[i] = <<>>)
  BY Constants DEF ParInv, InOrder, Ended, ParOK
<1>3. \A i \in Job : Numbered(spool[i], i, Wrote[i])
  BY Counts
<1>4. head \in Int
  BY Constants DEF ParInv, ParOK
<1>5. Out(Wrote) \o FlattenSeq(spool) = Out([i \in Job |-> Wrote[i] + Len(spool[i])])
  BY <1>1, <1>2, <1>3, <1>4, OutJoins
<1>6. [i \in Job |-> Wrote[i] + Len(spool[i])] = Got
  <2>1. \A i \in Job : Wrote[i] + Len(spool[i]) = Got[i]
    BY Counts
  <2>. QED
    BY <2>1 DEF Got
<1>. QED
  BY <1>5, <1>6 DEF ParInv, InOrder

LEMMA SpoolIs ==
  ASSUME ParInv
  PROVE  [j \in Job |-> spool[j]] = spool
BY DEF ParInv, Buffered

LEMMA StepReplay ==
  ASSUME ParInv, Replay
  PROVE  ParInv'
<1>. USE DEF ParInv
<1>1. /\ wpc = "replay" /\ written' = written \o FlattenSeq(spool)
      /\ spool' = [j \in Job |-> <<>>] /\ wpc' = "interrupted"
      /\ UNCHANGED <<told, pending, running, done, reserved, bypassed, passes, exited, closed, sent, ready, pipe, eof, head>>
  BY SpoolIs DEF Replay, queue, procs, input
<1>2. ParOK' /\ Placed' /\ Admits' /\ Stopped' /\ Ended'
  BY <1>1 DEF ParOK, Placed, Admits, Stopped, Ended
<1>3. written' = Out(Got)
  BY <1>1, WrittenAndBuffered
<1>4. Got' = Got
  BY <1>1 DEF Got
<1>5. Buffered'
  <2>1. ASSUME NEW i \in Job
        PROVE  Len(pipe'[i]) + Len(spool'[i]) <= sent'[i] /\ Numbered(spool'[i], i, Wrote'[i])
    <3>1. spool'[i] = <<>> /\ Len(spool'[i]) = 0
      BY <1>1
    <3>2. Len(pipe[i]) + 0 <= sent[i]
      BY Counts DEF Buffered
    <3>. QED
      BY <1>1, <3>1, <3>2 DEF Numbered
  <2>2. spool' \in [Job -> Seq(Chunk)]
    BY <1>1
  <2>. QED
    BY <1>1, <1>4, <2>1, <2>2 DEF Buffered
<1>6. InOrder'
  BY <1>1, <1>3, <1>4 DEF InOrder, Out
<1>. QED
  BY <1>2, <1>5, <1>6

LEMMA StepPar ==
  ASSUME ParInv, [ParNext]_par
  PROVE  ParInv'
<1>1. CASE UNCHANGED par
  <2>1. /\ UNCHANGED <<wpc, told, queue, exited, closed, sent, ready, pipe, eof, head, spool, written>>
    BY <1>1 DEF par, procs, input, output
  <2>2. ParOK' /\ Ended' /\ Stopped'
    BY <2>1 DEF ParInv, ParOK, Ended, Stopped, queue
  <2>3. Placed' /\ Admits'
    BY <2>1, QueueStays
  <2>4. Buffered' /\ InOrder'
    BY <2>1, OutputStays DEF queue
  <2>. QED
    BY <2>2, <2>3, <2>4 DEF ParInv
<1>2. CASE ParNext
  BY <1>2, StepJob, StepQuiet, StepStart, StepStartFails, StepAdvance, StepRead, StepReadEnd, StepReaps, StepReplay
     DEF ParNext, ParRuns, JobEnds
<1>. QED
  BY <1>1, <1>2

LEMMA ParInvKept ==
  ASSUME ParInv
  PROVE  ParKept
<1>1. OutputInJobOrder
  <2>1. Out(Got) = FlattenSeq([j \in Job |-> [n \in 1..sent[j] - Len(pipe[j]) |-> <<j, n>>]])
    BY DEF Out, Upto, Got
  <2>2. written \o FlattenSeq(spool) = Out(Got)
    <3>1. CASE wpc # "interrupted"
      BY <3>1, WrittenAndBuffered
    <3>2. CASE wpc = "interrupted"
      <4>1. written = Out(Got) /\ \A j \in Job : spool[j] = <<>>
        BY <3>2 DEF ParInv, InOrder
      <4>2. FlattenSeq(spool) = <<>>
        BY <4>1, NothingFlattens DEF ParInv, Buffered
      <4>3. Out(Got) \in Seq(Chunk)
        <5>. DEFINE b == [j \in Job |-> <<>>]
        <5>1. b \in [Job -> Seq(Chunk)] /\ \A j \in Job : b[j] = <<>>
          OBVIOUS
        <5>2. \A j \in Job : Numbered(b[j], j, Got[j])
          BY DEF Numbered
        <5>3. Got \in [Job -> Nat] /\ Jobs + 1 \in Int /\ \A j \in Job : ~(j > Jobs + 1)
          BY Counts, Constants DEF Got
        <5>. HIDE DEF b
        <5>. QED
          BY <5>1, <5>2, <5>3, OutJoins
      <4>. QED
        BY <4>1, <4>2, <4>3, ConcatIs
    <3>. QED
      BY <3>1, <3>2
  <2>. QED
    BY <2>1, <2>2, SpoolIs DEF OutputInJobOrder
<1>2. OutputComplete
  <2>. SUFFICES ASSUME wpc = "ended" PROVE written = FlattenSeq([j \in Job |-> [n \in 1..sent[j] |-> <<j, n>>]])
    BY DEF OutputComplete
  <2>1. written = Out(Wrote) /\ head = Jobs + 1
    BY DEF ParInv, InOrder, Stopped
  <2>2. \A j \in Job : j < head
    BY <2>1, Constants
  <2>3. \A j \in Job : pipe[j] = <<>> /\ spool[j] = <<>>
    BY <2>2 DEF ParInv, Ended
  <2>4. \A j \in Job : Wrote[j] = sent[j]
    BY <2>3, Counts DEF Wrote
  <2>. QED
    BY <2>1, <2>4 DEF Out, Upto
<1>3. AdmittedWithin
  BY DEF AdmittedWithin, ParInv, Admits
<1>4. NothingRuns
  <2>1. wpc = "ended" => running = {}
    <3>1. head = Jobs + 1 => \A j \in Job : ~(head <= j)
      BY Constants
    <3>. QED
      BY <3>1 DEF ParInv, Stopped, Placed, ParOK
  <2>. QED
    BY <2>1 DEF NothingRuns, ParInv, Stopped
<1>. QED
  BY <1>1, <1>2, <1>3, <1>4 DEF ParKept

(* The output of the jobs is written in job order, nothing of it lost or   *)
(* doubled, all of it when the run ends by itself; the jobs that run fit   *)
(* in the budget; no job is passed too often; nothing runs on at the end.  *)
THEOREM ParRunIsKept == ParSpec => []ParKept
<1>1. ParInit => ParInv
  BY ParStarts DEF ParInit
<1>2. ParInv /\ [ParNext]_par => ParInv'
  BY StepPar
<1>3. ParInv => ParKept
  BY ParInvKept
<1>. QED
  BY <1>1, <1>2, <1>3, PTL DEF ParSpec

=============================================================================
