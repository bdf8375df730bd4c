----------------------------- MODULE SystemsProofs -----------------------------
(***************************************************************************)
(* The three supervisors of process trees, each for every value of its     *)
(* constants, and all the systems together.                                *)
(***************************************************************************)
EXTENDS MCSystems, UnfairLockProofs, BuildProofs, CommandsProofs, TLAPS, FiniteSetTheorems, SequenceTheorems

-----------------------------------------------------------------------------
(* The tree of processes.                                                  *)

(* What a process becomes when the processes of S end.                     *)
LEMMA EndOne ==
  ASSUME TreeOK, NEW S, End(S), NEW p \in Process
  PROVE  /\ p \notin S \cap Alive => life'[p] = life[p] /\ group'[p] = group[p]
         /\ p \in S \cap Alive => life'[p] \in {"dead", "zombie"} /\ group'[p] \in {p, group[p]}
         /\ parent'[p] \in {Supervisor, adopter, parent[p]}
         /\ parent[p] \in S \cap Alive => parent'[p] \notin Process
<1>. DEFINE ended == S \cap Alive
            reaped == ended \ Unreaped(ended)
<1>1. reaped \subseteq ended
  OBVIOUS
<1>2. /\ life'[p] = CASE p \in reaped -> "dead" [] p \in ended \ reaped -> "zombie" [] OTHER -> life[p]
      /\ parent'[p] = CASE p \in reaped -> Supervisor
                        [] p \notin reaped /\ parent[p] \in ended -> adopter
                        [] OTHER -> parent[p]
      /\ group'[p] = IF p \in reaped THEN p ELSE group[p]
  BY DEF End
<1>3. adopter \in {Supervisor, Reaper}
  BY DEF TreeOK
<1>. HIDE DEF ended, reaped
<1>4. /\ p \notin ended => life'[p] = life[p] /\ group'[p] = group[p]
      /\ p \in ended => life'[p] \in {"dead", "zombie"} /\ group'[p] \in {p, group[p]}
  BY <1>1, <1>2, Zenon
<1>5. parent'[p] \in {Supervisor, adopter, parent[p]}
  BY <1>2, Zenon
<1>6. parent[p] \in ended => parent'[p] \in {Supervisor, adopter}
  BY <1>2, Zenon
<1>. QED
  BY <1>3, <1>4, <1>5, <1>6, TreeAssumption DEF ended

(* The ends of processes end these and no other.                           *)
LEMMA EndAll ==
  ASSUME TreeOK, NEW S, End(S)
  PROVE  /\ TreeOK'
         /\ Alive' = Alive \ S
         /\ \A p \in Alive' : group'[p] = group[p]
         /\ \A p \in Process : life[p] # "unborn" => life'[p] # "unborn"
         /\ \A p \in Process : group[p] = p => group'[p] = p
         /\ \A p \in Process : parent[p] \notin Process => parent'[p] \notin Process
<1>1. /\ DOMAIN life' = Process /\ DOMAIN parent' = Process /\ DOMAIN group' = Process
      /\ life' = [p \in Process |-> life'[p]] /\ parent' = [p \in Process |-> parent'[p]]
      /\ group' = [p \in Process |-> group'[p]]
      /\ UNCHANGED <<deaf, adopter>>
  BY Zenon DEF End
<1>2. \A p \in Process :
         /\ p \notin S \cap Alive => life'[p] = life[p] /\ group'[p] = group[p]
         /\ p \in S \cap Alive => life'[p] \in {"dead", "zombie"} /\ group'[p] \in {p, group[p]}
         /\ parent'[p] \in {Supervisor, adopter, parent[p]}
         /\ parent[p] \in S \cap Alive => parent'[p] \notin Process
  BY EndOne
<1>3. Alive' = Alive \ S
  BY <1>2 DEF Alive
<1>4. /\ life' \in [Process -> {"unborn", "alive", "zombie", "dead"}]
      /\ parent' \in [Process -> Process \cup {Supervisor, Reaper}]
      /\ group' \in [Process -> Process]
  BY <1>1, <1>2 DEF TreeOK
<1>5. \A p \in Process : life'[p] = "alive" /\ parent'[p] \in Process => life'[parent'[p]] = "alive"
  <2>. SUFFICES ASSUME NEW p \in Process, life'[p] = "alive", parent'[p] \in Process
                PROVE  life'[parent'[p]] = "alive"
    OBVIOUS
  <2>1. parent'[p] = parent[p] /\ parent[p] \notin S \cap Alive
    BY <1>2, TreeAssumption DEF TreeOK
  <2>2. life[p] = "alive"
    BY <1>2 DEF Alive
  <2>. QED
    BY <1>2, <2>1, <2>2 DEF TreeOK
<1>6. \A p \in Process : parent[p] \notin Process => parent'[p] \notin Process
  BY <1>2, TreeAssumption DEF TreeOK
<1>. QED
  BY <1>1, <1>2, <1>3, <1>4, <1>5, <1>6 DEF TreeOK, Alive

(* What the processes do on their own: of those alive at the end of a step *)
(* all but one newly forked were alive, in the same group or in one of     *)
(* their own; the forked one is in the group of its parent.                *)
LEMMA TreeMoves ==
  ASSUME TreeOK, TreeStep
  PROVE  /\ TreeOK'
         /\ UNCHANGED adopter
         /\ \A p \in Process : life[p] # "unborn" => life'[p] # "unborn"
         /\ group[Leader] = Leader => group'[Leader] = Leader
         /\ parent[Leader] \notin Process => parent'[Leader] \notin Process
         /\ \A q \in Alive' :
              \/ /\ q \in Alive
                 /\ group'[q] = group[q] \/ (group'[q] = q /\ group[q] # q)
              \/ /\ life[q] = "unborn" /\ q # Leader
                 /\ \E p \in Alive : group'[q] = group[p]
<1>1. PICK p \in Process : Fork(p) \/ Setsid(p) \/ Exit(p)
  BY DEF TreeStep
<1>2. CASE Exit(p)
  <2>1. UNCHANGED adopter
    BY <1>2 DEF Exit, End
  <2>. QED
    BY <1>2, <2>1, EndAll, TreeAssumption DEF Exit, Alive
<1>3. CASE Fork(p)
  <2>1. PICK q \in Process \ {Leader} :
          /\ life[p] = "alive" /\ life[q] = "unborn"
          /\ life' = [life EXCEPT ![q] = "alive"] /\ parent' = [parent EXCEPT ![q] = p]
          /\ group' = [group EXCEPT ![q] = group[p]]
          /\ UNCHANGED <<deaf, adopter>>
    BY <1>3 DEF Fork
  <2>2. /\ life'[q] = "alive" /\ parent'[q] = p /\ group'[q] = group[p]
        /\ \A r \in Process \ {q} : life'[r] = life[r] /\ parent'[r] = parent[r] /\ group'[r] = group[r]
    BY <2>1 DEF TreeOK
  <2>3. /\ life' \in [Process -> {"unborn", "alive", "zombie", "dead"}]
        /\ parent' \in [Process -> Process \cup {Supervisor, Reaper}]
        /\ group' \in [Process -> Process]
    BY <2>1 DEF TreeOK
  <2>4. p # q
    BY <2>1
  <2>. QED
    BY <2>1, <2>2, <2>3, <2>4 DEF TreeOK, Alive
<1>4. CASE Setsid(p)
  BY <1>4 DEF Setsid, TreeOK, Alive
<1>. QED
  BY <1>1, <1>2, <1>3, <1>4

-----------------------------------------------------------------------------
(* The guarded command.  A look follows whatever it finds, and what it has  *)
(* met is followed while it lives: a look that finds nothing leaves        *)
(* nothing of what was met, and what is gone does not come back.           *)

(* Nothing the guard has met lives, nor the leader's group.                *)
WorkloadGone == \A p \in Alive : p \notin met /\ group[p] # Leader

MetIsFollowed ==
  /\ \A p \in met : life[p] # "unborn"
  /\ met \cap Alive \subseteq tracked
  /\ tracked \subseteq met
  /\ group[Leader] = Leader /\ parent[Leader] \notin Process

(* Where the guard may be, by what it holds and knows.                     *)
GuardPlaces ==
  /\ gpc \in {"off", "acquire", "spawn", "retry"} => WorkloadGone
  /\ gpc \in {"off", "acquire", "spawn"} => confirmed = FALSE /\ met = {}
  /\ confirmed => WorkloadGone
  /\ gpc = "reap" => confirmed \/ verdict = "cleanup_failed"
  /\ gpc = "release" => WorkloadGone \/ verdict = "cleanup_failed"
  /\ ~held => gpc \in {"off", "acquire", "release", "retry", "ended"}
  /\ gpc = "ended" => WorkloadGone \/ verdict = "cleanup_failed"
  /\ gpc = "drain" => reason # "none"
  /\ gpc \in {"term", "grace", "kill", "dying"} /\ ~final => reason # "none"
  /\ gpc = "retry" /\ signalled => regime = "part"

GuardInv == TreeOK /\ GuardOK /\ MetIsFollowed /\ GuardPlaces

LEMMA OwnedFacts ==
  ASSUME TreeOK, GuardOK
  PROVE  /\ Followed \subseteq Owned
         /\ Owned \subseteq Alive
         /\ Followed = {} => Owned = {}
<1>1. Followed \subseteq Alive
  BY DEF Followed
<1>2. Followed = {} => Owned = {}
  <2>. SUFFICES ASSUME Followed = {}, NEW p \in Owned PROVE FALSE
    OBVIOUS
  <2>1. \A T \in SUBSET Alive :
          Followed \subseteq T /\ (\A q \in Alive : parent[q] \in T => q \in T) => p \in T
    BY DEF Owned, Descendants
  <2>. QED
    BY <2>1
<1>. QED
  BY <1>1, <1>2 DEF Owned, Descendants

(* A look follows all that was met and lives; it finds nothing of a        *)
(* workload that is gone, and if it finds nothing the workload is gone.    *)
LEMMA LookFollows ==
  ASSUME TreeOK, GuardOK, MetIsFollowed, Observe,
         Alive' \subseteq Alive, \A p \in Alive' : group'[p] = group[p],
         \A p \in Process : life[p] # "unborn" => life'[p] # "unborn",
         group'[Leader] = Leader, parent'[Leader] \notin Process
  PROVE  /\ MetIsFollowed'
         /\ WorkloadGone \/ Owned = {} => WorkloadGone'
         /\ tracked' \subseteq Process /\ met' \subseteq Process /\ gone' \in BOOLEAN
<1>1. /\ tracked' = Owned /\ met' = met \cup Owned
      /\ gone' \in BOOLEAN
  BY DEF Observe, GuardOK
<1>2. /\ Followed \subseteq Owned /\ Owned \subseteq Alive /\ Alive \subseteq Process
      /\ Followed = {} => Owned = {}
  BY OwnedFacts DEF Alive
<1>3. Followed = {p \in Alive : group[p] = Leader} \cup (tracked \cap Alive)
  BY DEF Followed
<1>4. met \cap Alive \subseteq Owned
  BY <1>2, <1>3 DEF MetIsFollowed
<1>5. /\ \A p \in Owned : life[p] # "unborn"
      /\ met \subseteq Process
  BY <1>2 DEF Alive, GuardOK
<1>6. MetIsFollowed'
  BY <1>1, <1>2, <1>4, <1>5 DEF MetIsFollowed
<1>7. WorkloadGone => Followed = {}
  BY <1>3 DEF WorkloadGone, MetIsFollowed
<1>8. ASSUME Owned = {} PROVE WorkloadGone'
  BY <1>1, <1>2, <1>3, <1>4, <1>8 DEF WorkloadGone
<1>. QED
  BY <1>1, <1>2, <1>5, <1>6, <1>7, <1>8

(* So does a signal, which ends processes as well.                         *)
LEMMA SignalFollows ==
  ASSUME TreeOK, GuardOK, MetIsFollowed, NEW sig, Signal(sig)
  PROVE  /\ TreeOK' /\ MetIsFollowed'
         /\ WorkloadGone => WorkloadGone'
         /\ tracked' \subseteq Process /\ met' \subseteq Process /\ gone' \in BOOLEAN
<1>1. PICK sees \in BOOLEAN :
        /\ End(Victims(Targets(sees), sig))
        /\ IF sees THEN Observe ELSE Blind
  BY DEF Signal
<1>2. /\ TreeOK'
      /\ Alive' \subseteq Alive
      /\ \A p \in Alive' : group'[p] = group[p]
      /\ \A p \in Process : life[p] # "unborn" => life'[p] # "unborn"
      /\ group'[Leader] = Leader /\ parent'[Leader] \notin Process
  BY <1>1, EndAll, TreeAssumption DEF MetIsFollowed
<1>3. CASE sees
  BY <1>1, <1>2, <1>3, LookFollows
<1>4. CASE ~sees
  <2>1. UNCHANGED <<tracked, met, gone>>
    BY <1>1, <1>4 DEF Blind
  <2>. QED
    BY <1>2, <2>1 DEF MetIsFollowed, WorkloadGone, GuardOK
<1>. QED
  BY <1>3, <1>4

(* What is left alone stays gone: only the processes of a workload are in  *)
(* its group or fork into it.                                              *)
LEMMA WorkloadStaysGone ==
  ASSUME GuardInv, TreeStep, UNCHANGED guard
  PROVE  GuardInv'
<1>1. UNCHANGED <<gpc, tracked, gone, reason, verdict, signalled, confirmed, final, held, runs, met, regime>>
  BY DEF guard
<1>2. /\ TreeOK'
      /\ \A p \in Process : life[p] # "unborn" => life'[p] # "unborn"
      /\ group'[Leader] = Leader /\ parent'[Leader] \notin Process
      /\ \A q \in Alive' :
           \/ /\ q \in Alive
              /\ group'[q] = group[q] \/ (group'[q] = q /\ group[q] # q)
           \/ /\ life[q] = "unborn" /\ q # Leader
              /\ \E p \in Alive : group'[q] = group[p]
  BY TreeMoves DEF GuardInv, MetIsFollowed
<1>3. MetIsFollowed'
  BY <1>1, <1>2 DEF MetIsFollowed, GuardInv, GuardOK, Alive
<1>4. WorkloadGone => WorkloadGone'
  BY <1>1, <1>2 DEF WorkloadGone, GuardInv, MetIsFollowed
<1>5. GuardOK'
  BY <1>1 DEF GuardOK, GuardInv
<1>6. GuardPlaces'
  BY <1>1, <1>4 DEF GuardPlaces, GuardInv
<1>. QED
  BY <1>2, <1>3, <1>5, <1>6 DEF GuardInv

(* A step that leaves the tree and what was met alone.                     *)
LEMMA GuardFrame ==
  ASSUME GuardInv, UNCHANGED <<tree, tracked, met>>
  PROVE  TreeOK' /\ MetIsFollowed' /\ (WorkloadGone' <=> WorkloadGone)
BY DEF GuardInv, tree, TreeOK, MetIsFollowed, WorkloadGone, Alive

LEMMA GuardLooks ==
  ASSUME GuardInv, Observe, UNCHANGED tree
  PROVE  /\ TreeOK' /\ MetIsFollowed'
         /\ WorkloadGone \/ Owned = {} => WorkloadGone'
         /\ tracked' \subseteq Process /\ met' \subseteq Process /\ gone' \in BOOLEAN
<1>1. /\ Alive' = Alive /\ \A p \in Alive' : group'[p] = group[p]
      /\ \A p \in Process : life[p] # "unborn" => life'[p] # "unborn"
      /\ group'[Leader] = Leader /\ parent'[Leader] \notin Process
      /\ TreeOK'
  BY DEF tree, Alive, GuardInv, MetIsFollowed, TreeOK
<1>. QED
  BY <1>1, LookFollows DEF GuardInv

LEMMA StepGuard ==
  ASSUME GuardInv, GuardNext
  PROVE  GuardInv'
<1>. USE DEF GuardOK, GuardPlaces, GuardStops, Outcomes, Regime, GoOn
<1>1. ASSUME Acquire PROVE GuardInv'
  <2>1. GuardOK'
    BY <1>1 DEF Acquire, GuardInv
  <2>2. TreeOK' /\ MetIsFollowed' /\ (WorkloadGone' <=> WorkloadGone)
    BY <1>1, GuardFrame DEF Acquire
  <2>3. GuardPlaces'
    BY <1>1, <2>2 DEF Acquire, GuardInv
  <2>. QED
    BY <2>1, <2>2, <2>3 DEF GuardInv
<1>2. ASSUME Spawn PROVE GuardInv'
  <2>1. CASE UNCHANGED tree
    <3>1. GuardOK'
      BY <1>2, <2>1 DEF Spawn, GuardInv
    <3>2. TreeOK' /\ MetIsFollowed' /\ (WorkloadGone' <=> WorkloadGone)
      BY <1>2, <2>1, GuardFrame DEF Spawn
    <3>3. WorkloadGone /\ gpc' \in {"watch", "release"} /\ gpc = "spawn"
          /\ UNCHANGED <<tracked, gone, reason, signalled, confirmed, final, held, runs, met, regime>>
      BY <1>2 DEF Spawn, GuardInv
    <3>4. GuardPlaces'
      BY <3>2, <3>3 DEF GuardInv
    <3>. QED
      BY <3>1, <3>2, <3>4 DEF GuardInv
  <2>2. CASE Popen /\ gpc' = "watch" /\ UNCHANGED verdict
    <3>1. /\ life'[Leader] = "alive" /\ \A p \in Process \ {Leader} : life'[p] = life[p]
          /\ life' \in [Process -> {"unborn", "alive", "zombie", "dead"}]
          /\ UNCHANGED <<parent, group, deaf, adopter>>
      BY <2>2, TreeAssumption DEF Popen, GuardInv, TreeOK
    <3>2. TreeOK'
      BY <3>1, TreeAssumption DEF GuardInv, TreeOK, MetIsFollowed
    <3>3. UNCHANGED <<tracked, gone, reason, signalled, confirmed, final, held, runs, met, regime>> /\ gpc = "spawn"
      BY <1>2 DEF Spawn
    <3>4. MetIsFollowed'
      BY <3>1, <3>3 DEF GuardInv, MetIsFollowed, WorkloadGone, Alive
    <3>5. QED
      BY <2>2, <3>2, <3>3, <3>4 DEF GuardInv
  <2>. QED
    BY <1>2, <2>1, <2>2 DEF Spawn
<1>3. ASSUME Watch PROVE GuardInv'
  BY <1>3, GuardFrame DEF Watch, GuardInv
<1>4. ASSUME TimesOut PROVE GuardInv'
  BY <1>4, GuardFrame DEF TimesOut, GuardInv
<1>5. ASSUME Sample PROVE GuardInv'
  <2>1. /\ gpc = "sample" /\ gpc' = "peek" /\ reason' \in Outcomes \cup {"none"}
        /\ UNCHANGED <<tree, verdict, signalled, confirmed, final, held, runs, regime>>
    BY <1>5 DEF Sample, Limits, GuardInv
  <2>2. CASE Blind
    BY <2>1, <2>2, GuardFrame DEF Blind, GuardInv
  <2>3. CASE Observe
    BY <2>1, <2>3, GuardLooks DEF GuardInv
  <2>. QED
    BY <1>5, <2>2, <2>3 DEF Sample
<1>6. ASSUME Fails PROVE GuardInv'
  BY <1>6, GuardFrame DEF Fails, Finally, GuardInv
<1>7. ASSUME Peek PROVE GuardInv'
  BY <1>7, GuardFrame DEF Peek, GuardInv
<1>8. ASSUME Exited PROVE GuardInv'
  BY <1>8, GuardLooks DEF Exited, GuardInv
<1>9. ASSUME StopSignals PROVE GuardInv'
  <2>1. PICK sig : Signal(sig)
    BY <1>9 DEF StopSignals
  <2>2. /\ TreeOK' /\ MetIsFollowed'
        /\ WorkloadGone => WorkloadGone'
        /\ tracked' \subseteq Process /\ met' \subseteq Process /\ gone' \in BOOLEAN
    BY <2>1, SignalFollows DEF GuardInv
  <2>3. /\ gpc \in {"term", "kill"} /\ gpc' \in {"grace", "dying"}
        /\ UNCHANGED <<reason, verdict, signalled, confirmed, final, held, runs, regime>>
    BY <1>9 DEF StopSignals, FollowedBy
  <2>. QED
    BY <2>2, <2>3 DEF GuardInv
<1>10. ASSUME StopLooks PROVE GuardInv'
  <2>1. /\ gpc \in {"grace", "dying"}
        /\ UNCHANGED <<tree, gpc, reason, verdict, signalled, confirmed, final, held, runs, regime>>
    BY <1>10 DEF StopLooks
  <2>2. /\ TreeOK' /\ MetIsFollowed'
        /\ WorkloadGone => WorkloadGone'
        /\ tracked' \subseteq Process /\ met' \subseteq Process /\ gone' \in BOOLEAN
    BY <1>10, GuardLooks DEF StopLooks
  <2>3. GuardOK'
    BY <2>1, <2>2 DEF GuardInv
  <2>4. GuardPlaces'
    BY <2>1, <2>2 DEF GuardInv
  <2>. QED
    BY <2>2, <2>3, <2>4 DEF GuardInv
<1>11. ASSUME StopConfirms PROVE GuardInv'
  <2>1. /\ gpc \in {"grace", "dying"} /\ gpc' \in {"reap", "drain"} /\ confirmed' = TRUE
        /\ UNCHANGED <<tree, reason, verdict, signalled, final, held, runs, regime>>
        /\ gpc' = IF final THEN "reap" ELSE "drain"
    BY <1>11 DEF StopConfirms, StopReturns
  <2>2. TreeOK' /\ MetIsFollowed' /\ WorkloadGone'
        /\ tracked' \subseteq Process /\ met' \subseteq Process /\ gone' \in BOOLEAN
    BY <1>11, GuardLooks DEF StopConfirms
  <2>3. GuardOK'
    BY <2>1, <2>2 DEF GuardInv
  <2>4. GuardPlaces'
    BY <2>1, <2>2 DEF GuardInv
  <2>. QED
    BY <2>2, <2>3, <2>4 DEF GuardInv
<1>12. ASSUME StopEscalates PROVE GuardInv'
  BY <1>12, GuardFrame DEF StopEscalates, GuardInv
<1>13. ASSUME StopGivesUp PROVE GuardInv'
  BY <1>13, GuardFrame DEF StopGivesUp, StopReturns, GuardInv
<1>14. ASSUME Drain PROVE GuardInv'
  BY <1>14, GuardFrame DEF Drain, Finally, GuardInv
<1>15. ASSUME Reap PROVE GuardInv'
  BY <1>15, GuardFrame DEF Reap, GuardInv
<1>16. ASSUME Release PROVE GuardInv'
  BY <1>16, GuardFrame DEF Release, Retries, GuardInv
<1>17. ASSUME Retry PROVE GuardInv'
  <2>1. /\ gpc = "retry" /\ gpc' = "acquire" /\ runs' = 2
        /\ tracked' = {} /\ met' = {} /\ gone' = FALSE /\ reason' = "none" /\ verdict' = "setup_error"
        /\ signalled' = FALSE /\ confirmed' = FALSE /\ final' = FALSE
        /\ UNCHANGED <<deaf, adopter, held, regime>>
    BY <1>17 DEF Retry
  <2>2. /\ life' = [p \in Process |-> IF life[p] = "alive" THEN "alive" ELSE "unborn"]
        /\ parent' = [p \in Process |-> IF life[p] = "alive" THEN parent[p] ELSE Supervisor]
        /\ group' = [p \in Process |-> IF life[p] = "alive" THEN group[p] ELSE p]
    BY <1>17 DEF Retry
  <2>3. TreeOK'
    BY <2>1, <2>2, TreeAssumption DEF TreeOK, GuardInv
  <2>4. MetIsFollowed' /\ WorkloadGone'
    BY <2>1, <2>2, TreeAssumption DEF GuardInv, MetIsFollowed, WorkloadGone, Alive
  <2>5. GuardOK'
    <3>1. gpc' \in GuardStops /\ verdict' \in Outcomes
      BY <2>1
    <3>2. regime' \in Regime
      BY <2>1 DEF GuardInv
    <3>. HIDE DEF GuardStops, Outcomes, Regime
    <3>3. {gone', signalled', confirmed', final', held'} \subseteq BOOLEAN
      BY <2>1 DEF GuardInv
    <3>. QED
      BY <2>1, <3>1, <3>2, <3>3
  <2>6. GuardPlaces'
    BY <2>1, <2>4 DEF GuardInv
  <2>. QED
    BY <2>3, <2>4, <2>5, <2>6 DEF GuardInv
<1>18. ASSUME Cancel PROVE GuardInv'
  <2>1. /\ gpc \notin {"off", "retry", "ended"} /\ signalled' = TRUE
        /\ UNCHANGED <<tree, gpc, tracked, gone, reason, verdict, confirmed, final, held, runs, met, regime>>
    BY <1>18 DEF Cancel
  <2>2. TreeOK' /\ MetIsFollowed' /\ (WorkloadGone' <=> WorkloadGone)
    BY <2>1, GuardFrame
  <2>3. GuardOK'
    BY <2>1 DEF GuardInv
  <2>4. GuardPlaces'
    BY <2>1, <2>2 DEF GuardInv
  <2>. QED
    BY <2>2, <2>3, <2>4 DEF GuardInv
<1>. QED
  BY <1>1, <1>2, <1>3, <1>4, <1>5, <1>6, <1>7, <1>8, <1>9, <1>10, <1>11, <1>12, <1>13, <1>14, <1>15, <1>16,
    <1>17, <1>18 DEF GuardNext, GuardRuns

LEMMA GuardStarts ==
  ASSUME GuardInit
  PROVE  GuardInv
<1>1. TreeOK /\ MetIsFollowed /\ WorkloadGone
  BY TreeAssumption DEF GuardInit, GuardAt, TreeInit, TreeOK, MetIsFollowed, WorkloadGone, Alive
<1>2. GuardOK
  <2>1. "acquire" \in GuardStops /\ "setup_error" \in Outcomes
    BY DEF GuardStops, Outcomes
  <2>2. gone \in BOOLEAN /\ signalled \in BOOLEAN /\ confirmed \in BOOLEAN /\ final \in BOOLEAN /\ held \in BOOLEAN
    BY Zenon DEF GuardInit, GuardAt
  <2>. QED
    BY <2>1, <2>2 DEF GuardInit, GuardAt, GuardOK
<1>3. GuardPlaces
  BY <1>1 DEF GuardInit, GuardAt, GuardPlaces
<1>. QED
  BY <1>1, <1>2, <1>3 DEF GuardInv

LEMMA StepGuarded ==
  ASSUME GuardInv, [GuardNext \/ (TreeStep /\ UNCHANGED guard)]_<<tree, guard>>
  PROVE  GuardInv'
<1>1. ASSUME UNCHANGED <<tree, guard>> PROVE GuardInv'
  <2>1. UNCHANGED <<gpc, tracked, gone, reason, verdict, signalled, confirmed, final, held, runs, met, regime>>
    BY <1>1 DEF guard
  <2>2. TreeOK' /\ MetIsFollowed' /\ (WorkloadGone' <=> WorkloadGone)
    BY <1>1, <2>1, GuardFrame
  <2>3. GuardOK' /\ GuardPlaces'
    BY <2>1, <2>2 DEF GuardInv, GuardOK, GuardPlaces
  <2>. QED
    BY <2>2, <2>3 DEF GuardInv
<1>. QED
  BY <1>1, StepGuard, WorkloadStaysGone

LEMMA GuardInvKept == GuardInv => GuardKept
BY DEF GuardInv, GuardPlaces, GuardKept, SlotsOutliveWorkload, CancelEndsPreempted, WorkloadGone

(* Whatever was signalled, could not be read or lived on, a guard gives    *)
(* its slots up when nothing of the workload is left that it ever saw, or  *)
(* says that the cleanup failed; and a preempted run that was told to stop *)
(* is not run again: for any processes, with one run or two.               *)
THEOREM SlotsAreKept == GuardSpec => []GuardKept
BY GuardStarts, StepGuarded, GuardInvKept, PTL DEF GuardSpec

-----------------------------------------------------------------------------
(* The auditor.                                                            *)

(* A group that has no member gets none: a process is born into the group  *)
(* of its parent, and leaves it for one of its own.                        *)
GroupEmpty == \A p \in Alive : group[p] # Leader

LEMMA GroupStaysEmpty ==
  ASSUME TreeOK, group[Leader] = Leader, TreeStep, GroupEmpty
  PROVE  GroupEmpty'
BY TreeMoves DEF GroupEmpty

LEMMA NobodyIsBorn ==
  ASSUME TreeOK, TreeStep
  PROVE  Alive # {}
BY DEF TreeStep, Fork, Setsid, Exit, Alive

AuditorInv ==
  /\ TreeOK /\ AuditorOK
  /\ group[Leader] = Leader /\ parent[Leader] \notin Process
  /\ upc = "launch" => Alive = {}
  /\ upc = "ended" /\ ending # "abandoned" => GroupEmpty

(* The start of the leader, when no other process is there.                *)
LEMMA LeaderStarts ==
  ASSUME TreeOK, Popen, parent[Leader] \notin Process
  PROVE  /\ TreeOK'
         /\ UNCHANGED <<parent, group, deaf, adopter>>
         /\ life'[Leader] = "alive" /\ \A p \in Process \ {Leader} : life'[p] = life[p]
<1>1. /\ life'[Leader] = "alive" /\ \A p \in Process \ {Leader} : life'[p] = life[p]
      /\ life' \in [Process -> {"unborn", "alive", "zombie", "dead"}]
      /\ UNCHANGED <<parent, group, deaf, adopter>>
  BY TreeAssumption DEF Popen, TreeOK
<1>. QED
  BY <1>1, TreeAssumption DEF TreeOK

LEMMA StepAuditor ==
  ASSUME AuditorInv, AuditorNext
  PROVE  AuditorInv'
<1>. USE DEF AuditorOK, GoTo
<1>1. ASSUME UNCHANGED tree PROVE TreeOK' /\ Alive' = Alive /\ (GroupEmpty' <=> GroupEmpty) /\ UNCHANGED <<parent, group>>
  BY <1>1 DEF tree, TreeOK, Alive, GroupEmpty, AuditorInv
<1>2. ASSUME NEW S, End(S)
      PROVE  /\ TreeOK' /\ group'[Leader] = Leader /\ parent'[Leader] \notin Process
             /\ InGroup \subseteq S \/ GroupEmpty => GroupEmpty'
             /\ Alive' \subseteq Alive
  <2>1. /\ TreeOK' /\ Alive' = Alive \ S /\ \A p \in Alive' : group'[p] = group[p]
        /\ group'[Leader] = Leader /\ parent'[Leader] \notin Process
    BY <1>2, EndAll, TreeAssumption DEF AuditorInv
  <2>. QED
    BY <2>1 DEF GroupEmpty, InGroup
<1>3. ASSUME ForkAuditor PROVE AuditorInv'
  BY <1>3, LeaderStarts DEF ForkAuditor, AuditorInv
<1>4. ASSUME Named PROVE AuditorInv'
  BY <1>4, <1>1 DEF Named, AuditorInv
<1>5. ASSUME AuditorEnds PROVE AuditorInv'
  BY <1>5, <1>1 DEF AuditorEnds, AuditorInv
<1>6. ASSUME LooksForChildren PROVE AuditorInv'
  <2>1. InGroup = {} => GroupEmpty
    BY DEF InGroup, GroupEmpty
  <2>. QED
    BY <1>6, <1>1, <2>1 DEF LooksForChildren, AuditorInv
<1>7. ASSUME TermsGroup PROVE AuditorInv'
  BY <1>7, <1>2 DEF TermsGroup, AuditorInv
<1>8. ASSUME IsGone PROVE AuditorInv'
  <2>1. InGroup = {} => GroupEmpty
    BY DEF InGroup, GroupEmpty
  <2>. QED
    BY <1>8, <1>1, <2>1 DEF IsGone, AuditorInv
<1>9. ASSUME KillsGroup PROVE AuditorInv'
  BY <1>9, <1>2 DEF KillsGroup, AuditorInv
<1>10. ASSUME CancelOnce PROVE AuditorInv'
  <2>1. Alive = {} => GroupEmpty
    BY DEF GroupEmpty
  <2>. QED
    BY <1>10, <1>1, <2>1 DEF CancelOnce, AuditorInv
<1>. QED
  BY <1>3, <1>4, <1>5, <1>6, <1>7, <1>8, <1>9, <1>10 DEF AuditorNext, AuditorRuns

LEMMA AuditorStays ==
  ASSUME AuditorInv, TreeStep, UNCHANGED auditor
  PROVE  AuditorInv'
<1>1. UNCHANGED <<upc, cancelled, ending>>
  BY DEF auditor
<1>2. Alive # {} /\ (GroupEmpty => GroupEmpty')
  BY NobodyIsBorn, GroupStaysEmpty DEF AuditorInv
<1>3. TreeOK' /\ group'[Leader] = Leader /\ parent'[Leader] \notin Process
  BY TreeMoves DEF AuditorInv
<1>. QED
  BY <1>1, <1>2, <1>3 DEF AuditorInv, AuditorOK

LEMMA AuditorStarts ==
  ASSUME AuditorInit
  PROVE  AuditorInv
BY TreeAssumption DEF AuditorInit, AuditorAt, TreeInit, AuditorInv, AuditorOK, TreeOK, Alive

LEMMA StepAudited ==
  ASSUME AuditorInv, [AuditorNext \/ (TreeStep /\ UNCHANGED auditor)]_<<tree, auditor>>
  PROVE  AuditorInv'
<1>1. ASSUME UNCHANGED <<tree, auditor>> PROVE AuditorInv'
  BY <1>1 DEF AuditorInv, tree, auditor, TreeOK, AuditorOK, Alive, GroupEmpty
<1>. QED
  BY <1>1, StepAuditor, AuditorStays

LEMMA AuditorInvKept == AuditorInv => AuditorStopped
BY DEF AuditorInv, AuditorStopped, GroupEmpty, InGroup

(* No process of the auditor's group outlives run_child, whatever the      *)
(* command started and whenever a signal came, unless a signal made it     *)
(* abandon the group: for any processes.                                   *)
THEOREM AuditorIsStopped == AuditorSpec => []AuditorStopped
BY AuditorStarts, StepAudited, AuditorInvKept, PTL DEF AuditorSpec

-----------------------------------------------------------------------------
(* The bounded stage.  Where orphans come back to the runner, every        *)
(* process that lives is reached from the runner and the leader along the  *)
(* parents (the tree has no cycle): a scan finds all of them.              *)

Orphanless(T) == \A p \in Alive \ {Leader} : parent[p] \in T \cup {Supervisor, Leader} => p \in T

Rooted ==
  adopter = Supervisor =>
    /\ \A p \in Process : parent[p] # Reaper
    /\ \A T \in SUBSET Process : Orphanless(T) => Alive \ {Leader} \subseteq T

LEMMA RootedEnd ==
  ASSUME TreeOK, Rooted, NEW S, End(S)
  PROVE  Rooted'
<1>. SUFFICES ASSUME adopter = Supervisor PROVE Rooted'
  BY DEF Rooted, End
<1>. DEFINE ended == S \cap Alive
            reaped == ended \ Unreaped(ended)
<1>1. \A p \in Process :
        parent'[p] = CASE p \in reaped -> Supervisor
                       [] p \notin reaped /\ parent[p] \in ended -> adopter
                       [] OTHER -> parent[p]
  BY DEF End
<1>2. reaped \subseteq ended
  OBVIOUS
<1>3. Alive' = Alive \ ended
  BY EndAll
<1>. HIDE DEF reaped, ended
<1>4. \A p \in Process : p \notin ended => parent'[p] = IF parent[p] \in ended THEN Supervisor ELSE parent[p]
  BY <1>1, <1>2, Zenon
<1>5. \A p \in Process : parent'[p] # Reaper
  <2>1. \A p \in Process : parent'[p] \in {Supervisor, parent[p]}
    BY <1>1, Zenon
  <2>. QED
    BY <2>1, TreeAssumption DEF Rooted
<1>6. ASSUME NEW T \in SUBSET Process, Orphanless(T)'
      PROVE  Alive' \ {Leader} \subseteq T
  <2>1. \A p \in Alive \ {Leader} : parent[p] \in (T \cup (ended \cap Process)) \cup {Supervisor, Leader} => p \in T \cup (ended \cap Process)
    <3>. SUFFICES ASSUME NEW p \in Alive \ {Leader}, parent[p] \in (T \cup ended) \cup {Supervisor, Leader}, p \notin ended
                  PROVE  p \in T
      BY DEF Alive
    <3>1. parent'[p] \in T \cup {Supervisor, Leader} /\ p \in Alive'
      BY <1>3, <1>4 DEF Alive
    <3>. QED
      BY <1>6, <3>1 DEF Orphanless
  <2>2. Orphanless(T \cup (ended \cap Process))
    BY <2>1 DEF Orphanless
  <2>. QED
    BY <1>3, <2>2 DEF Rooted
<1>. QED
  BY <1>5, <1>6 DEF Rooted

LEMMA RootedStep ==
  ASSUME TreeOK, Rooted, TreeStep
  PROVE  Rooted'
<1>1. PICK p \in Process : Fork(p) \/ Setsid(p) \/ Exit(p)
  BY DEF TreeStep
<1>2. CASE Exit(p)
  BY <1>2, RootedEnd DEF Exit
<1>3. CASE Setsid(p)
  BY <1>3 DEF Setsid, Rooted, Orphanless, Alive
<1>4. CASE Fork(p)
  <2>1. PICK q \in Process \ {Leader} :
          /\ life[p] = "alive" /\ life[q] = "unborn"
          /\ life' = [life EXCEPT ![q] = "alive"] /\ parent' = [parent EXCEPT ![q] = p]
          /\ UNCHANGED <<deaf, adopter>>
    BY <1>4 DEF Fork
  <2>2. /\ Alive' = Alive \cup {q} /\ p \in Alive /\ q \notin Alive
        /\ parent'[q] = p /\ \A r \in Process \ {q} : parent'[r] = parent[r]
    BY <2>1 DEF TreeOK, Alive
  <2>3. ASSUME adopter = Supervisor, NEW T \in SUBSET Process, Orphanless(T)'
        PROVE  Alive' \ {Leader} \subseteq T
    <3>1. Orphanless(T \ {q})
      BY <2>2, <2>3 DEF Orphanless, Alive
    <3>2. Alive \ {Leader} \subseteq T
      BY <2>3, <3>1 DEF Rooted
    <3>3. q \in T
      BY <2>2, <2>3, <3>2 DEF Orphanless
    <3>. QED
      BY <2>2, <3>2, <3>3
  <2>. QED
    BY <2>1, <2>2, <2>3, TreeAssumption DEF Rooted
<1>. QED
  BY <1>1, <1>2, <1>3, <1>4

(* So a scan that can read the table finds every process but the leader.   *)
LEMMA GrownHas ==
  ASSUME TreeOK, StageOK
  PROVE  /\ owned \subseteq Grown /\ Grown \subseteq Process \ {Leader}
         /\ Rooted /\ adopter = Supervisor => Alive \ {Leader} \subseteq Grown
<1>. DEFINE Closed(T) ==
              /\ owned \subseteq T
              /\ \A q \in Listed \ {Leader} : parent[q] \in Parents(T \cap Listed) => q \in T
<1>1. Grown = {p \in Process : \A T \in SUBSET Process : Closed(T) => p \in T}
  BY DEF Grown
<1>2. Closed(Process \ {Leader})
  BY DEF StageOK, Listed
<1>3. owned \subseteq Grown
  BY <1>1 DEF StageOK
<1>4. Grown \subseteq Process \ {Leader}
  BY <1>1, <1>2
<1>5. ASSUME Rooted, adopter = Supervisor, NEW T \in SUBSET Process, Closed(T)
      PROVE  Alive \ {Leader} \subseteq T
  <2>1. Alive \subseteq Listed
    BY DEF Alive, Listed
  <2>2. ASSUME NEW p \in Alive \ {Leader}, parent[p] \in T \cup {Supervisor, Leader}
        PROVE  p \in T
    <3>1. parent[p] \in T => parent[p] \in T \cap Listed
      BY <2>2 DEF TreeOK, Alive, Listed
    <3>2. parent[p] \in Parents(T \cap Listed)
      BY <1>5, <2>2, <3>1 DEF Parents
    <3>. QED
      BY <1>5, <2>1, <2>2, <3>2
  <2>. QED
    BY <1>5, <2>2 DEF Rooted, Orphanless
<1>. QED
  BY <1>1, <1>3, <1>4, <1>5 DEF Alive

StageInv ==
  /\ TreeOK /\ StageOK /\ Rooted
  /\ group[Leader] = Leader /\ parent[Leader] \notin Process
  /\ spc = "start" => Alive = {}
  /\ spc \in {"probe", "scan", "sweep", "ended"} => GroupEmpty
  /\ StageContained

(* A scan changes nothing but what is known and which of the ended         *)
(* processes are reaped.                                                   *)
LEMMA ScanFinds ==
  ASSUME StageInv, Scan
  PROVE  /\ TreeOK' /\ Rooted' /\ Alive' = Alive
         /\ UNCHANGED <<parent, group, deaf, adopter>>
         /\ owned' \subseteq Process \ {Leader} /\ owned \subseteq owned'
         /\ Found \subseteq owned' /\ Found \subseteq Alive
         /\ adopter = Supervisor /\ psWorks => Alive \ {Leader} \subseteq Found
<1>1. /\ owned \subseteq Grown /\ Grown \subseteq Process \ {Leader}
      /\ adopter = Supervisor => Alive \ {Leader} \subseteq Grown
  BY GrownHas DEF StageInv
<1>2. owned \subseteq Process \ {Leader}
  BY DEF StageInv, StageOK
<1>3. CASE psWorks /\ owned' = Grown
           /\ life' = [p \in Process |-> IF p \in Grown /\ life[p] = "zombie" THEN "dead" ELSE life[p]]
           /\ UNCHANGED <<parent, group, deaf, adopter>>
  <2>1. \A p \in Process : life'[p] = IF p \in Grown /\ life[p] = "zombie" THEN "dead" ELSE life[p]
    BY <1>3
  <2>2. life' \in [Process -> {"unborn", "alive", "zombie", "dead"}]
    BY <1>3 DEF StageInv, TreeOK
  <2>3. Alive' = Alive
    BY <2>1 DEF Alive
  <2>4. TreeOK'
    BY <1>3, <2>1, <2>2 DEF StageInv, TreeOK
  <2>5. Rooted'
    BY <1>3, <2>3 DEF StageInv, Rooted, Orphanless
  <2>. QED
    BY <1>1, <1>3, <2>1, <2>3, <2>4, <2>5 DEF Found
<1>4. CASE ~psWorks /\ UNCHANGED <<tree, owned>>
  BY <1>2, <1>4 DEF tree, StageInv, TreeOK, Rooted, Orphanless, Alive, Found
<1>. QED
  BY <1>3, <1>4 DEF Scan

(* Processes end.                                                          *)
LEMMA StageEnds ==
  ASSUME StageInv, NEW S, End(S)
  PROVE  /\ TreeOK' /\ Rooted'
         /\ group'[Leader] = Leader /\ parent'[Leader] \notin Process
         /\ GroupEmpty \/ Group \subseteq S => GroupEmpty'
<1>1. /\ TreeOK' /\ Alive' = Alive \ S
      /\ \A p \in Alive' : group'[p] = group[p]
      /\ group'[Leader] = Leader /\ parent'[Leader] \notin Process
  BY EndAll, TreeAssumption DEF StageInv
<1>2. Rooted'
  BY RootedEnd DEF StageInv
<1>3. GroupEmpty \/ Group \subseteq S => GroupEmpty'
  BY <1>1 DEF GroupEmpty, Group
<1>. QED
  BY <1>1, <1>2, <1>3

LEMMA GroupAliveIs ==
  ASSUME StageInv, ~GroupAlive
  PROVE  GroupEmpty /\ Leader \notin Alive
BY TreeAssumption DEF StageInv, GroupAlive, GroupEmpty, Listed, Alive

(* Steps that leave the tree alone.                                        *)
LEMMA StageFrame ==
  ASSUME StageInv, UNCHANGED tree
  PROVE  /\ TreeOK' /\ Rooted' /\ Alive' = Alive /\ (GroupEmpty' <=> GroupEmpty)
         /\ UNCHANGED <<life, parent, group, deaf, adopter>>
BY DEF tree, StageInv, TreeOK, Rooted, Orphanless, Alive, GroupEmpty

LEMMA StepSweep ==
  ASSUME StageInv, Sweep
  PROVE  StageInv'
<1>1. /\ TreeOK' /\ Rooted' /\ Alive' = Alive
      /\ UNCHANGED <<parent, group, deaf, adopter>>
      /\ owned' \subseteq Process \ {Leader} /\ Found \subseteq owned'
      /\ adopter = Supervisor /\ psWorks => Alive \ {Leader} \subseteq Found
  BY ScanFinds DEF Sweep
<1>2. /\ spc = "scan" /\ targets' = Found
      /\ \/ spc' = "sweep"
         \/ spc' = "ended" /\ (targets' = {} \/ period' = "over")
      /\ UNCHANGED <<period, received, failure, psWorks>>
  BY DEF Sweep
<1>3. GroupEmpty /\ GroupEmpty'
  BY <1>1, <1>2 DEF StageInv, GroupEmpty
<1>4. StageOK'
  BY <1>1, <1>2 DEF StageInv, StageOK
<1>5. Leader \notin Alive
  BY <1>3, TreeAssumption DEF StageInv, GroupEmpty
<1>6. StageContained'
  BY <1>1, <1>2, <1>5 DEF StageContained
<1>. QED
  BY <1>1, <1>2, <1>3, <1>4, <1>6 DEF StageInv

LEMMA StepStage ==
  ASSUME StageInv, StageNext
  PROVE  StageInv'
<1>. USE DEF StageOK, StageContained
<1>1. ASSUME StageStart PROVE StageInv'
  <2>1. CASE Popen /\ spc' = "watch" /\ UNCHANGED failure
    <3>1. /\ TreeOK' /\ UNCHANGED <<parent, group, deaf, adopter>>
          /\ life'[Leader] = "alive" /\ \A p \in Process \ {Leader} : life'[p] = life[p]
      BY <2>1, LeaderStarts DEF StageInv
    <3>2. Alive' \ {Leader} = {}
      BY <1>1, <3>1 DEF StageStart, StageInv, Alive
    <3>3. Rooted'
      BY <3>1, <3>2 DEF Rooted, StageInv
    <3>. QED
      BY <1>1, <2>1, <3>1, <3>3 DEF StageStart, StageInv
  <2>2. CASE spc' = "ended" /\ failure' = "not contained" /\ UNCHANGED tree
    BY <1>1, <2>2, StageFrame DEF StageStart, StageInv, GroupEmpty
  <2>. QED
    BY <1>1, <2>1, <2>2 DEF StageStart
<1>2. ASSUME StageSamples PROVE StageInv'
  BY <1>2, ScanFinds DEF StageSamples, StageInv
<1>3. ASSUME StageStops PROVE StageInv'
  BY <1>3, StageFrame DEF StageStops, StageInv
<1>4. ASSUME LeaderEnds PROVE StageInv'
  BY <1>4, StageFrame DEF LeaderEnds, StageInv
<1>5. ASSUME StageChecks PROVE StageInv'
  <2>1. /\ spc = "check" /\ UNCHANGED <<targets, period, received, psWorks>>
        /\ \/ failure' = "descendants" /\ spc' = "stop"
           \/ failure' = "ok" /\ spc' = "ended" /\ ~GroupAlive /\ Found = {} /\ Scan
    BY <1>5 DEF StageChecks
  <2>2. CASE GroupAlive
    <3>1. UNCHANGED <<tree, owned>>
      BY <1>5, <2>2 DEF StageChecks
    <3>. QED
      BY <2>1, <2>2, <3>1, StageFrame DEF StageInv
  <2>3. CASE ~GroupAlive
    <3>1. Scan
      BY <1>5, <2>3 DEF StageChecks
    <3>2. GroupEmpty /\ Leader \notin Alive
      BY <2>3, GroupAliveIs
    <3>3. GroupEmpty'
      BY <3>1, <3>2, ScanFinds DEF GroupEmpty
    <3>4. Found = {} /\ adopter = Supervisor /\ psWorks => Alive = {}
      BY <3>1, <3>2, ScanFinds
    <3>. QED
      BY <2>1, <3>1, <3>3, <3>4, ScanFinds DEF StageInv
  <2>. QED
    BY <2>2, <2>3
<1>6. ASSUME StopScans PROVE StageInv'
  BY <1>6, ScanFinds DEF StopScans, StageInv
<1>7. ASSUME StopTerms PROVE StageInv'
  BY <1>7, StageEnds DEF StopTerms, StageInv
<1>8. ASSUME GroupGone PROVE StageInv'
  <2>1. GroupEmpty
    BY <1>8, GroupAliveIs DEF GroupGone, StageInv
  <2>. QED
    BY <1>8, <2>1, StageFrame DEF GroupGone, StageInv
<1>9. ASSUME StopKills PROVE StageInv'
  BY <1>9, StageEnds DEF StopKills, StageInv
<1>10. ASSUME Sweep PROVE StageInv'
  BY <1>10, StepSweep
<1>11. ASSUME SweepTerms PROVE StageInv'
  BY <1>11, StageEnds DEF SweepTerms, StageInv
<1>12. ASSUME SweepKills PROVE StageInv'
  BY <1>12, StageEnds DEF SweepKills, StageInv
<1>13. ASSUME StageSignal PROVE StageInv'
  BY <1>13, StageFrame DEF StageSignal, StageInv
<1>14. ASSUME StopClock PROVE StageInv'
  BY <1>14, StageFrame DEF StopClock, StageInv
<1>. QED
  BY <1>1, <1>2, <1>3, <1>4, <1>5, <1>6, <1>7, <1>8, <1>9, <1>10, <1>11, <1>12, <1>13, <1>14 DEF StageNext, StageRuns

LEMMA StageStays ==
  ASSUME StageInv, TreeStep, UNCHANGED stage
  PROVE  StageInv'
<1>1. UNCHANGED <<spc, owned, targets, period, received, failure, psWorks>>
  BY DEF stage
<1>2. Alive # {} /\ (GroupEmpty => GroupEmpty') /\ Rooted'
  BY NobodyIsBorn, GroupStaysEmpty, RootedStep DEF StageInv
<1>3. TreeOK' /\ group'[Leader] = Leader /\ parent'[Leader] \notin Process /\ UNCHANGED adopter
  BY TreeMoves DEF StageInv
<1>4. StageOK'
  BY <1>1 DEF StageInv, StageOK
<1>5. StageContained'
  BY <1>1, <1>2, <1>3 DEF StageInv, StageContained
<1>. QED
  BY <1>1, <1>2, <1>3, <1>4, <1>5 DEF StageInv

LEMMA StageStarts ==
  ASSUME StageInit
  PROVE  StageInv
<1>1. /\ TreeOK /\ Alive = {} /\ group[Leader] = Leader /\ parent[Leader] \notin Process
      /\ \A p \in Process : parent[p] # Reaper
  BY TreeAssumption DEF StageInit, TreeInit, TreeOK, Alive
<1>2. StageOK /\ spc = "start"
  <2>1. received \in BOOLEAN /\ psWorks \in BOOLEAN
    BY Zenon DEF StageInit, StageAt
  <2>. QED
    BY <2>1 DEF StageInit, StageAt, StageOK
<1>3. Rooted
  BY <1>1 DEF Rooted
<1>. QED
  BY <1>1, <1>2, <1>3 DEF StageInv, StageContained

LEMMA StepStaged ==
  ASSUME StageInv, [StageNext \/ (TreeStep /\ UNCHANGED stage)]_<<tree, stage>>
  PROVE  StageInv'
<1>1. ASSUME UNCHANGED <<tree, stage>> PROVE StageInv'
  <2>1. UNCHANGED <<spc, owned, targets, period, received, failure, psWorks>>
    BY <1>1 DEF stage
  <2>2. /\ TreeOK' /\ Rooted' /\ Alive' = Alive /\ (GroupEmpty' <=> GroupEmpty)
        /\ UNCHANGED <<life, parent, group, deaf, adopter>>
    BY <1>1, StageFrame
  <2>3. StageOK'
    BY <2>1 DEF StageInv, StageOK
  <2>. QED
    BY <2>1, <2>2, <2>3 DEF StageInv, StageContained
<1>. QED
  BY <1>1, StepStage, StageStays

LEMMA StageInvKept ==
  ASSUME StageInv
  PROVE  StageKept
BY DEF StageInv, StageKept, StageContained, GroupContained, GroupEmpty

(* No process of a stage outlives it where orphans come back to the runner *)
(* and the table can be read, unless its time was over and the last scan   *)
(* found somebody; and the leader's group never does: whatever forked,     *)
(* left the group or ignored TERM.                                         *)
THEOREM StageIsContained == StageSpec => []StageKept
<1>1. StageInv => StageKept
  BY StageInvKept
<1>. QED
  BY <1>1, StageStarts, StepStaged, PTL DEF StageSpec

-----------------------------------------------------------------------------
(* The systems together, one of which runs.  An idle one keeps its         *)
(* invariant because its start has it and it does nothing; the three that  *)
(* share the tree say nothing of it while they are off.                    *)

CommandsInv == CallInv /\ LocalInv /\ RowInv /\ CheckInv /\ ExportInv

SupervisorsInv ==
  /\ IF active = "guard" THEN GuardInv ELSE gpc = "off"
  /\ IF active = "stage" THEN StageInv ELSE spc = "off"
  /\ IF active = "audit" THEN AuditorInv ELSE upc = "off"

LEMMA SystemsStart ==
  ASSUME SystemsInit
  PROVE  CommandsInv /\ SupervisorsInv
<1>1. CallInv
  BY CallStarts DEF SystemsInit, At
<1>2. LocalInv
  BY LocalStarts DEF SystemsInit, At
<1>3. RowInv
  BY RowStarts DEF SystemsInit, At
<1>4. CheckInv
  BY CheckStarts DEF SystemsInit, At
<1>5. ExportInv
  BY ExportStartsWell DEF SystemsInit, At
<1>6. TreeInit /\ GuardAt(At("guard", "acquire")) /\ StageAt(At("stage", "start"))
      /\ AuditorAt(At("audit", "launch")) /\ (active # "stage" => adopter = Reaper)
  BY DEF SystemsInit
<1>7. active = "guard" => GuardInv
  BY <1>6, GuardStarts DEF GuardInit, At
<1>8. active = "stage" => StageInv
  BY <1>6, StageStarts DEF StageInit, At
<1>9. active = "audit" => AuditorInv
  BY <1>6, AuditorStarts DEF AuditorInit, At
<1>10. (active # "guard" => gpc = "off") /\ (active # "stage" => spc = "off") /\ (active # "audit" => upc = "off")
  BY <1>6 DEF At, GuardAt, StageAt, AuditorAt
<1>. QED
  BY <1>1, <1>2, <1>3, <1>4, <1>5, <1>7, <1>8, <1>9, <1>10 DEF CommandsInv, SupervisorsInv

(* A step of the systems is a step of the one that runs.                   *)
LEMMA OneSystemSteps ==
  ASSUME [SystemsNext]_systems
  PROVE  /\ UNCHANGED active
         /\ [CallNext]_call /\ [LocalRunNext]_local /\ [RowRunNext]_rowrun
         /\ [CheckNext]_check /\ [ExportNext]_export
         /\ IF active = "guard" THEN [GuardNext \/ (TreeStep /\ UNCHANGED guard)]_<<tree, guard>>
                                ELSE UNCHANGED guard
         /\ IF active = "stage" THEN [StageNext \/ (TreeStep /\ UNCHANGED stage)]_<<tree, stage>>
                                ELSE UNCHANGED stage
         /\ IF active = "audit" THEN [AuditorNext \/ (TreeStep /\ UNCHANGED auditor)]_<<tree, auditor>>
                                ELSE UNCHANGED auditor
<1>1. CASE UNCHANGED systems
  BY <1>1 DEF systems
<1>2. CASE SystemsNext
  BY <1>2 DEF SystemsNext, OthersStay, GuardSystem, StageSystem, AuditSystem
<1>. QED
  BY <1>1, <1>2

LEMMA StepCommands ==
  ASSUME CommandsInv, [SystemsNext]_systems
  PROVE  CommandsInv'
BY OneSystemSteps, StepCall, StepLocal, StepRow, StepCheck, StepExport DEF CommandsInv

LEMMA StepSupervisors ==
  ASSUME SupervisorsInv, [SystemsNext]_systems
  PROVE  SupervisorsInv'
<1>1. active' = active
  BY OneSystemSteps
<1>2. IF active = "guard" THEN GuardInv' ELSE gpc' = "off"
  BY OneSystemSteps, StepGuarded DEF SupervisorsInv, guard
<1>3. IF active = "stage" THEN StageInv' ELSE spc' = "off"
  BY OneSystemSteps, StepStaged DEF SupervisorsInv, stage
<1>4. IF active = "audit" THEN AuditorInv' ELSE upc' = "off"
  BY OneSystemSteps, StepAudited DEF SupervisorsInv, auditor
<1>. QED
  BY <1>1, <1>2, <1>3, <1>4 DEF SupervisorsInv

(* Every supervisor leaves nothing of what it was to stop, whichever of    *)
(* the systems runs: a stage with orphans and a table to read, an auditor  *)
(* that was not told to abandon its group, a call that is cancelled.       *)
THEOREM NothingIsLeft == SystemsSpec => []ContainedKept
<1>1. SupervisorsInv /\ [SystemsNext]_systems => SupervisorsInv'
  BY StepSupervisors
<1>2. SupervisorsInv => StageKept /\ AuditorStopped
  BY StageInvKept, AuditorInvKept
    DEF SupervisorsInv, StageKept, StageContained, GroupContained, AuditorStopped
<1>3. CommandsInv => CallKept
  BY CallInvKept DEF CommandsInv
<1>4. CommandsInv /\ SupervisorsInv => ContainedKept
  BY <1>2, <1>3 DEF ContainedKept
<1>. QED
  BY <1>1, <1>4, SystemsStart, StepCommands, PTL DEF SystemsSpec

(* The local CI: a run trusts what a row left only when the row ran and    *)
(* was removed as it should be, and a row calls itself good only when its  *)
(* recipe did what it names.                                               *)
THEOREM LocalCiIsKept == SystemsSpec => []LocalCiKept
<1>1. CommandsInv => LocalCiKept
  BY LocalInvKept, RowInvKept DEF CommandsInv, LocalCiKept
<1>. QED
  BY <1>1, SystemsStart, StepCommands, PTL DEF SystemsSpec

(* A project: what a check passed is what it read and built, and what an   *)
(* export published is what its sources call.                              *)
THEOREM ProjectIsKept == SystemsSpec => []ProjectKept
<1>1. CommandsInv => ProjectKept
  BY CheckInvKept, ExportInvKept DEF CommandsInv, ProjectKept
<1>. QED
  BY <1>1, SystemsStart, StepCommands, PTL DEF SystemsSpec

(* What is invariant of the systems that share nothing, and of the rest of *)
(* the state of the others.                                                *)
StatesInv ==
  /\ LockInv /\ CasInv /\ ParInv
  /\ PublicationInv /\ OneFile
  /\ ReplayInv
  /\ GeneratedInv /\ BranchGrows
  /\ left \in 0..Commands
  /\ RowChosen /\ ExportSearch /\ CheckBounds

LEMMA StatesStart ==
  ASSUME SystemsInit
  PROVE  StatesInv
<1>1. LockInv
  BY InitLock DEF SystemsInit
<1>2. CasInv
  BY CasInvInit DEF SystemsInit
<1>3. ParInv
  <2>1. ParAt(At("par", "top")) /\ At("par", "top") \in {"off", "top"}
    BY DEF SystemsInit, At
  <2>. QED
    BY <2>1, ParStarts
<1>4. PublicationInv /\ OneFile
  BY OneFileStarts DEF SystemsInit
<1>5. ReplayInv
  <2>1. ReplayAt(At("replay", "extract")) /\ At("replay", "extract") \in {"off", "extract"}
    BY DEF SystemsInit, At
  <2>. QED
    BY <2>1, ReplayStarts
<1>6. GeneratedInv /\ BranchGrows
  BY GeneratedStarts, BranchStarts DEF SystemsInit
<1>7. left \in 0..Commands
  BY CommandsAssumption DEF SystemsInit, CallAt
<1>8. RowChosen
  BY DEF SystemsInit, RowRunAt, RowChosen
<1>9. ExportSearch
  BY SearchStarts DEF SystemsInit
<1>10. CheckBounds
  BY BoundsStart DEF SystemsInit
<1>. QED
  BY <1>1, <1>2, <1>3, <1>4, <1>5, <1>6, <1>7, <1>8, <1>9, <1>10 DEF StatesInv

LEMMA StepAlone ==
  ASSUME [SystemsNext]_systems
  PROVE  /\ UNCHANGED active
         /\ [LockNext]_lockVars /\ [Next]_vars /\ [ParNext]_par /\ [PublicationNext]_publication
         /\ [GeneratedNext]_generated /\ [ReplayNext]_replay
<1>1. CASE UNCHANGED systems
  BY <1>1 DEF systems
<1>2. CASE SystemsNext
  BY <1>2 DEF SystemsNext, OthersStay
<1>. QED
  BY <1>1, <1>2

LEMMA StepStates ==
  ASSUME CommandsInv, StatesInv, [SystemsNext]_systems
  PROVE  StatesInv'
<1>1. UNCHANGED active /\ LockInv' /\ CasInv' /\ ParInv'
  BY StepAlone, NextLock, CasInvStep, StepPar DEF StatesInv
<1>2. PublicationInv' /\ OneFile'
  BY StepAlone, StepPublication, StepOneFile DEF StatesInv
<1>3. ReplayInv'
  BY StepAlone, StepReplayInv DEF StatesInv
<1>4. GeneratedInv' /\ BranchGrows'
  BY StepAlone, StepGenerated, StepBranch DEF StatesInv
<1>5. left' \in 0..Commands /\ RowChosen' /\ ExportSearch' /\ CheckBounds'
  BY OneSystemSteps, StepLeft, StepChosen, StepSearch, StepBounds DEF StatesInv, CommandsInv
<1>. QED
  BY <1>1, <1>2, <1>3, <1>4, <1>5 DEF StatesInv

LEMMA StatesTyped ==
  ASSUME CommandsInv, SupervisorsInv, StatesInv, active \in Active
  PROVE  StateOK
<1>1. LockOK /\ TypeOK /\ ParOK
  BY DEF StatesInv, LockInv, CasInv, ParInv
<1>2. PublicationOK /\ GeneratedOK /\ CallOK /\ RowRunOK /\ CheckOK /\ ExportOK
  BY PublicationTyped, GeneratedTyped, CallTyped, RowTyped, CheckTyped, ExportTyped DEF StatesInv, CommandsInv
<1>3. LocalRunOK /\ ReplayOK
  BY DEF CommandsInv, LocalInv, StatesInv, ReplayInv, Bound, Typed
<1>4. /\ active = "guard" => TreeOK /\ GuardOK
      /\ active = "stage" => TreeOK /\ StageOK
      /\ active = "audit" => TreeOK /\ AuditorOK
  BY DEF SupervisorsInv, GuardInv, StageInv, AuditorInv
<1>. QED
  BY <1>1, <1>2, <1>3, <1>4, ActiveAssumption DEF StateOK

(* Whichever of the systems runs, its state is well typed, and no count of *)
(* its attempts, rounds, calls or edits leaves its bounds.                 *)
THEOREM StatesAreTyped == SystemsSpec => []StateOK
<1>1. SystemsInit => active \in Active
  BY DEF SystemsInit
<1>2. active \in Active /\ [SystemsNext]_systems => (active \in Active)'
  BY OneSystemSteps
<1>3. CommandsInv /\ SupervisorsInv /\ StatesInv /\ active \in Active => StateOK
  BY StatesTyped
<1>. QED
  BY <1>1, <1>2, <1>3, SystemsStart, StepCommands, StepSupervisors, StatesStart, StepStates, PTL DEF SystemsSpec

LEMMA GuardsKept ==
  ASSUME SupervisorsInv
  PROVE  GuardKept
<1>1. CASE active = "guard"
  BY <1>1, GuardInvKept DEF SupervisorsInv
<1>2. CASE active # "guard"
  BY <1>2 DEF SupervisorsInv, GuardKept, SlotsOutliveWorkload, CancelEndsPreempted
<1>. QED
  BY <1>1, <1>2

(* The systems together keep what each promises of itself: an idle one     *)
(* because its start does, and no step of another one is a step of it.     *)
THEOREM SystemsAreKept ==
  SystemsSpec => /\ [](StoreKept /\ LockKept /\ GuardKept /\ ParKept)
                 /\ GcKeepsCap /\ IsALock /\ PublicationKept /\ ReplayKept /\ BranchKept
<1>1. SystemsInit =>
        /\ CommandsInv /\ SupervisorsInv /\ StatesInv
        /\ Init /\ LockInit /\ PublicationInit /\ GeneratedInit
  BY SystemsStart, StatesStart DEF SystemsInit
<1>2. [SystemsNext]_systems =>
        /\ [LockNext]_lockVars /\ [Next]_vars /\ [PublicationNext]_publication
        /\ [ReplayNext]_replay /\ [GeneratedNext]_generated
  BY StepAlone
<1>3. StatesInv => StoreKept /\ ParKept /\ ReplayInv /\ PassedAsBound /\ AcceptedIsChecked
  BY CasInvKept, ParInvKept, BoundBacks DEF StatesInv, ReplayInv
<1>4. SystemsSpec => LockSpec /\ PublicationSpec
  BY <1>1, <1>2, PTL DEF SystemsSpec, LockSpec, PublicationSpec
<1>5. SystemsSpec => GcKeepsCap /\ BranchKept
  BY <1>1, <1>2, EvictsOverCap, OnlyEntries, PTL DEF SystemsSpec
<1>6. SystemsSpec => [](CommandsInv /\ SupervisorsInv /\ StatesInv)
  BY <1>1, StepCommands, StepSupervisors, StepStates, PTL DEF SystemsSpec
<1>7. SystemsSpec => ReplayKept
  BY <1>2, <1>3, <1>6, ReplaysOnce, PTL DEF SystemsSpec, ReplayKept
<1>. QED
  BY <1>3, <1>4, <1>5, <1>6, <1>7, GuardsKept, LockIsKept, UnfairLockImplementsLock, PublicationIsKept, PTL

=============================================================================
