------------------------------- MODULE StageRun -------------------------------
(***************************************************************************)
(* One bounded stage (scripts/safe-output.py, run): a command in a process *)
(* group of its own, stopped with what left the group when it times out,   *)
(* is interrupted, or ends before its children do.                         *)
(*                                                                         *)
(* The environment marker, which only adds to what the runner owns, is     *)
(* left out.  A pid with its start time is a process of ProcessTree.       *)
(***************************************************************************)
EXTENDS ProcessTree

VARIABLES
  spc,       \* where the runner is
  owned,     \* Escapees.owned: descendants seen below the leader
  targets,   \* the result of the last scan in stop
  period,    \* the time in Escapees.stop: "grace" until term_until, "kill" until give_up, then "over"
  received,  \* a signal was received
  failure,   \* why the stage failed, "none" or "ok"
  psWorks    \* whether the process table can be read

stage == <<spc, owned, targets, period, received, failure, psWorks>>

StageOK ==
  /\ spc \in {"off", "start", "watch", "check", "stop", "term", "wait", "probe", "scan", "sweep", "ended"}
  /\ owned \subseteq Process \ {Leader}
  /\ targets \subseteq owned
  /\ period \in {"grace", "kill", "over"}
  /\ received \in BOOLEAN /\ psWorks \in BOOLEAN
  /\ failure \in {"none", "ok", "signal", "timeout", "descendants", "not contained"}

(* The state before a stage; the runner is at l. *)
StageAt(l) ==
  /\ spc = l
  /\ owned = {} /\ targets = {}
  /\ period = "grace"
  /\ received = FALSE
  /\ failure = "none"
  /\ psWorks \in BOOLEAN

StageInit == TreeInit /\ StageAt("start")

-----------------------------------------------------------------------------
(* Escapees.scan.  The runner may read the table whenever it looks; when   *)
(* ps fails it reads an empty one.                                         *)

(* Mutant: an orphan that the runner adopted is not one of the stage. *)
ParentsForgets(S) == S \cup {Leader}

(* Whose children are owned. *)
Parents(S) == S \cup {Leader} \cup (IF adopter = Supervisor THEN {Supervisor} ELSE {})

Listed == {p \in Process : life[p] \in {"alive", "zombie"}}

(* The least set that has what is owned and the children of its members.   *)
Grown ==
  {p \in Process : \A T \in SUBSET Process :
     /\ owned \subseteq T
     /\ \A q \in Listed \ {Leader} : parent[q] \in Parents(T \cap Listed) => q \in T
     => p \in T}

(* What a scan finds alive. *)
Found == IF psWorks THEN Grown \cap Alive ELSE {}

(* It owns what it reaches and reaps the zombies among it. *)
Scan ==
  \/ /\ psWorks
     /\ owned' = Grown
     /\ life' = [p \in Process |-> IF p \in Grown /\ life[p] = "zombie" THEN "dead" ELSE life[p]]
     /\ UNCHANGED <<parent, group, deaf, adopter>>
  \/ ~psWorks /\ UNCHANGED <<tree, owned>>

(* killpg(group, 0): a zombie counts. *)
GroupAlive == \E p \in Listed : group[p] = Leader

-----------------------------------------------------------------------------
(* The stage runs.  --require-containment refuses a host without a         *)
(* subreaper.                                                              *)

StageStart ==
  /\ spc = "start"
  /\ \/ Popen /\ spc' = "watch" /\ UNCHANGED failure
     \/ adopter # Supervisor /\ failure' = "not contained" /\ spc' = "ended" /\ UNCHANGED tree
  /\ UNCHANGED <<owned, targets, period, received, psWorks>>

StageSamples ==
  /\ spc = "watch"
  /\ life[Leader] = "alive"
  /\ Scan
  /\ UNCHANGED <<spc, targets, period, received, failure, psWorks>>

StageStops ==
  /\ spc = "watch"
  /\ life[Leader] = "alive"
  /\ failure' = IF received THEN "signal" ELSE "timeout"
  /\ spc' = "stop"
  /\ UNCHANGED <<tree, owned, targets, period, received, psWorks>>

LeaderEnds ==
  /\ spc = "watch"
  /\ life[Leader] # "alive"
  /\ spc' = "check"
  /\ UNCHANGED <<tree, owned, targets, period, received, failure, psWorks>>

(* Mutant: only the group is looked at. *)
StageChecksGroup ==
  /\ spc = "check"
  /\ failure' = IF GroupAlive THEN "descendants" ELSE "ok"
  /\ spc' = IF GroupAlive THEN "stop" ELSE "ended"
  /\ UNCHANGED <<tree, owned, targets, period, received, psWorks>>

(* The leader has ended: the stage has, unless the group or a scan shows   *)
(* that something is left.                                                 *)
StageChecks ==
  /\ spc = "check"
  /\ IF GroupAlive THEN UNCHANGED <<tree, owned>> ELSE Scan
  /\ LET left == GroupAlive \/ Found # {} IN
       /\ failure' = IF left THEN "descendants" ELSE "ok"
       /\ spc' = IF left THEN "stop" ELSE "ended"
  /\ UNCHANGED <<targets, period, received, psWorks>>

-----------------------------------------------------------------------------
(* _stop_all: a scan while the parents live, the group, the escapees.      *)

StopScans ==
  /\ spc = "stop"
  /\ Scan
  /\ spc' = "term"
  /\ UNCHANGED <<targets, period, received, failure, psWorks>>

Group == {p \in Alive : group[p] = Leader}

StopTerms ==
  /\ spc = "term"
  /\ End(Victims(Group, "TERM"))
  /\ spc' = "wait"
  /\ UNCHANGED <<owned, targets, period, received, failure, psWorks>>

(* The group is gone within the grace period, or was killed.  After a kill *)
(* the runner goes on when the period ends, zombies or not.                *)
GroupGone ==
  /\ spc \in {"wait", "probe"}
  /\ ~GroupAlive \/ spc = "probe"
  /\ spc' = "scan"
  /\ UNCHANGED <<tree, owned, targets, period, received, failure, psWorks>>

(* Or it is killed, and the leader waited for. *)
StopKills ==
  /\ spc = "wait"
  /\ End(Group)
  /\ spc' = "probe"
  /\ UNCHANGED <<owned, targets, period, received, failure, psWorks>>

(* The clock of Escapees.stop.  A look at the table and a round of signals *)
(* take their time, so any number of them falls in a period, none too.     *)
StopClock ==
  /\ spc \in {"scan", "sweep"}
  /\ \/ period = "grace" /\ period' = "kill"
     \/ period = "kill" /\ period' = "over"
  /\ UNCHANGED <<tree, spc, owned, targets, received, failure, psWorks>>

(* Mutant: it gives up when the grace period is over. *)
SweepGivesUpEarly ==
  /\ spc = "scan"
  /\ Scan
  /\ targets' = Found
  /\ spc' = IF targets' = {} \/ period # "grace" THEN "ended" ELSE "sweep"
  /\ UNCHANGED <<period, received, failure, psWorks>>

(* Escapees.stop: until a scan finds nothing or the time is over, whatever *)
(* is left then.                                                           *)
Sweep ==
  /\ spc = "scan"
  /\ Scan
  /\ targets' = Found
  /\ spc' = IF targets' = {} \/ period = "over" THEN "ended" ELSE "sweep"
  /\ UNCHANGED <<period, received, failure, psWorks>>

(* TERM, and KILL after the grace period. *)
SweepTerms ==
  /\ spc = "sweep"
  /\ period = "grace"
  /\ End(Victims(targets, "TERM"))
  /\ spc' = "scan"
  /\ UNCHANGED <<owned, targets, period, received, failure, psWorks>>

SweepKills ==
  /\ spc = "sweep"
  /\ period # "grace"
  /\ End(Victims(targets, "KILL"))
  /\ spc' = "scan"
  /\ UNCHANGED <<owned, targets, period, received, failure, psWorks>>

StageSignal ==
  /\ spc \in {"watch", "check"}
  /\ received' = TRUE
  /\ UNCHANGED <<tree, spc, owned, targets, period, failure, psWorks>>

StageRuns ==
  \/ StageStart \/ LeaderEnds \/ StageChecks \/ StopScans \/ StopTerms \/ GroupGone \/ StopKills
  \/ Sweep \/ SweepTerms \/ SweepKills

StageNext == StageRuns \/ StageSamples \/ StageStops \/ StopClock \/ StageSignal

(* The runner runs, and its deadlines pass: the timeout, those of stop.    *)
StageSpec ==
  /\ StageInit
  /\ [][StageNext \/ (TreeStep /\ UNCHANGED stage)]_<<tree, stage>>
  /\ WF_<<tree, stage>>(StageRuns)
  /\ WF_<<tree, stage>>(StageStops)
  /\ WF_<<tree, stage>>(StopClock)

-----------------------------------------------------------------------------
(* Properties.                                                             *)

(* Where orphans come back to the runner and the table can be read, no     *)
(* process of a stage outlives it, whatever forked, left the group,        *)
(* ignored TERM or ended at any moment -- unless the time for stopping it  *)
(* was over and the last scan still found somebody.                        *)
StageContained ==
  spc = "ended" /\ adopter = Supervisor /\ psWorks =>
    Alive = {} \/ (targets # {} /\ period = "over")

(* Without either, the leader's group does not outlive it. *)
GroupContained == spc = "ended" => \A p \in Alive : group[p] # Leader

StageKept == StageContained /\ GroupContained

(* docs/safe-output.md: a stage fails for its descendants when the command *)
(* exits with some of them left; so one that leaves nothing alive does not *)
(* fail.                                                                   *)
NothingLeftIsOk ==
  (spc = "watch" /\ life[Leader] = "dead" /\ Alive = {}) ~> failure = "ok"

=============================================================================
