----------------------------- MODULE GuardedRun -------------------------------
(***************************************************************************)
(* One guarded command (scripts/build-guard.py, run and guarded): it is    *)
(* admitted, started, watched through samples of the process table, taken  *)
(* down as a tree, and run once more when it was stopped below its         *)
(* declared memory.  Admission itself is specified in Admission; here the  *)
(* guard holds its slots or does not.                                      *)
(*                                                                         *)
(* Each read of the process table may fail.  A deadline passes at any      *)
(* time; what the limits compare (memory, Zig processes, progress) is a    *)
(* free choice.  Inherited admissions, logs and records are left out.      *)
(***************************************************************************)
EXTENDS ProcessTree

VARIABLES
  gpc,        \* where the guard is
  tracked,       \* Tree.seen: the processes it follows
  gone,       \* Tree.original_group_gone
  reason,     \* why the loop ends; "none" while it goes on
  verdict,    \* the outcome of the report
  signalled,  \* cancelled: SIGINT, SIGTERM or SIGHUP was received
  confirmed,  \* cleanup_confirmed: nothing of the workload was left
  final,      \* stop_tree is called from the finally block, not the loop
  held,       \* the admission is held
  runs,       \* runs started
  met,        \* every process that was ever observed (history)
  regime      \* what the options allow

guard == <<gpc, tracked, gone, reason, verdict, signalled, confirmed, final, held, runs, met, regime>>

GuardStops == {"off", "acquire", "spawn", "watch", "sample", "peek", "exited", "term", "grace", "kill",
               "dying", "drain", "reap", "release", "retry", "ended"}

(* "error" stands for lock_busy, spawn_error and guard_error, "limit" for   *)
(* timeout, parallel_zig and hung, "done" for success and child_failed.    *)
Outcomes == {"setup_error", "error", "cancelled", "limit", "rss_limit", "preempted",
             "orphaned_children", "done", "cleanup_failed"}

(* A sub-admission may hold less than it declares; any other run may be    *)
(* preempted, if it was admitted beyond the budget.                        *)
Regime == {"part", "overcommitted"}

GuardOK ==
  /\ gpc \in GuardStops
  /\ tracked \subseteq Process /\ met \subseteq Process
  /\ gone \in BOOLEAN /\ signalled \in BOOLEAN /\ confirmed \in BOOLEAN
  /\ final \in BOOLEAN /\ held \in BOOLEAN
  /\ reason \in Outcomes \cup {"none"} /\ verdict \in Outcomes
  /\ runs \in 1..2
  /\ regime \in Regime

(* The state before a guarded run; the guard is at l. *)
GuardAt(l) ==
  /\ gpc = l
  /\ tracked = {} /\ met = {} /\ gone = FALSE
  /\ reason = "none" /\ verdict = "setup_error"
  /\ signalled = FALSE /\ confirmed = FALSE /\ final = FALSE /\ held = FALSE
  /\ runs = 1
  /\ regime \in Regime

(* The guard is no subreaper. *)
GuardInit == TreeInit /\ adopter = Reaper /\ GuardAt("acquire")

-----------------------------------------------------------------------------
(* Tree.owned: the group, the processes followed, and what descends from   *)
(* them.                                                                   *)

Followed == {p \in Alive : group[p] = Leader} \cup (tracked \cap Alive)

(* The least set of processes that has S and the children of its members.  *)
Descendants(S) ==
  {p \in Alive : \A T \in SUBSET Alive :
     S \subseteq T /\ (\A q \in Alive : parent[q] \in T => q \in T) => p \in T}

Owned == Descendants(Followed)

(* A read of the table that succeeds: what is owned is followed from now. *)
Observe ==
  /\ tracked' = Owned
  /\ met' = met \cup Owned
  /\ gone' = (gone \/ \A p \in Alive : group[p] # Leader)

Blind == UNCHANGED <<tracked, met, gone>>

GoOn(l) == gpc' = l

(* signal_workload: the groups of what is owned, or the leader's group     *)
(* when the table cannot be read.                                          *)
Targets(sees) ==
  {p \in Alive : IF sees THEN \E q \in Owned : group[p] = group[q]
                         ELSE ~gone /\ group[p] = Leader}

Signal(sig) ==
  \E sees \in BOOLEAN :
    /\ End(Victims(Targets(sees), sig))
    /\ IF sees THEN Observe ELSE Blind

-----------------------------------------------------------------------------
(* Admission and start.                                                    *)

(* The queue gives the slots, or the wait ends without them. *)
Acquire ==
  /\ gpc = "acquire"
  /\ \/ held' = TRUE /\ GoOn("spawn") /\ UNCHANGED verdict
     \/ held' = FALSE /\ GoOn("release")
        /\ verdict' = IF signalled THEN "cancelled" ELSE "error"
  /\ UNCHANGED <<tree, tracked, gone, reason, signalled, confirmed, final, runs, met, regime>>

Spawn ==
  /\ gpc = "spawn"
  /\ \/ /\ signalled
        /\ verdict' = "cancelled"
        /\ GoOn("release")
        /\ UNCHANGED tree
     \/ /\ ~signalled
        /\ verdict' = "error"
        /\ GoOn("release")
        /\ UNCHANGED tree
     \/ /\ ~signalled
        /\ Popen
        /\ GoOn("watch")
        /\ UNCHANGED verdict
  /\ UNCHANGED <<tracked, gone, reason, signalled, confirmed, final, held, runs, met, regime>>

-----------------------------------------------------------------------------
(* The loop: deadlines, a sample, preemption, the leader.                  *)

Watch ==
  /\ gpc = "watch"
  /\ reason' = IF signalled THEN "cancelled" ELSE "none"
  /\ GoOn("sample")
  /\ UNCHANGED <<tree, tracked, gone, verdict, signalled, confirmed, final, held, runs, met, regime>>

TimesOut ==
  /\ gpc = "watch"
  /\ ~signalled
  /\ reason' = "limit"
  /\ GoOn("sample")
  /\ UNCHANGED <<tree, tracked, gone, verdict, signalled, confirmed, final, held, runs, met, regime>>

Limits == {"none", "rss_limit", "limit"} \cup (IF regime = "overcommitted" /\ runs = 1 THEN {"preempted"} ELSE {})

(* A sample that is not due, one that fails, one that is good. *)
Sample ==
  /\ gpc = "sample"
  /\ \/ Blind /\ UNCHANGED reason
     \/ Blind /\ reason = "none" /\ reason' \in Limits \cap {"preempted"}
     \/ Observe /\ reason' \in IF reason = "none" THEN Limits ELSE {reason}
  /\ GoOn("peek")
  /\ UNCHANGED <<tree, verdict, signalled, confirmed, final, held, runs, regime>>

(* The finally block stops the tree again unless it is known to be gone.   *)
Finally ==
  /\ final' = TRUE
  /\ reason' = "none"
  /\ GoOn(IF confirmed THEN "reap" ELSE "term")

(* An error ends the run: no good sample for SAMPLE_STALE seconds, or the  *)
(* log cannot be written.                                                  *)
Fails ==
  /\ gpc \in {"watch", "sample", "exited", "drain"}
  /\ verdict' = "error"
  /\ Finally
  /\ UNCHANGED <<tree, tracked, gone, signalled, confirmed, held, runs, met, regime>>

Peek ==
  /\ gpc = "peek"
  /\ GoOn(IF reason # "none" THEN "term" ELSE IF life[Leader] = "dead" THEN "exited" ELSE "watch")
  /\ UNCHANGED <<tree, tracked, gone, reason, verdict, signalled, confirmed, final, held, runs, met, regime>>

(* Mutant: the leader's end is the workload's. *)
ExitedAlone ==
  /\ gpc = "exited"
  /\ reason' = "done"
  /\ confirmed' = TRUE
  /\ GoOn("drain")
  /\ UNCHANGED <<tree, tracked, gone, met, verdict, signalled, final, held, runs, regime>>

(* The leader has ended; what is left is decided on a good sample. *)
Exited ==
  /\ gpc = "exited"
  /\ Observe
  /\ IF Owned # {}
       THEN reason' = "orphaned_children" /\ UNCHANGED confirmed /\ GoOn("term")
       ELSE reason' = "done" /\ confirmed' = TRUE /\ GoOn("drain")
  /\ UNCHANGED <<tree, verdict, signalled, final, held, runs, regime>>

-----------------------------------------------------------------------------
(* stop_tree.                                                              *)

FollowedBy == [term |-> "grace", grace |-> "kill", kill |-> "dying"]

(* stop_tree returns, to the loop or to the finally block. *)
StopReturns == GoOn(IF final THEN "reap" ELSE "drain")

StopSignals ==
  /\ gpc \in {"term", "kill"}
  /\ Signal(IF gpc = "kill" THEN "KILL" ELSE "TERM")
  /\ GoOn(FollowedBy[gpc])
  /\ UNCHANGED <<reason, verdict, signalled, confirmed, final, held, runs, regime>>

(* A look that still finds something of the workload. *)
StopLooks ==
  /\ gpc \in {"grace", "dying"}
  /\ Owned # {}
  /\ Observe
  /\ UNCHANGED <<tree, gpc, reason, verdict, signalled, confirmed, final, held, runs, regime>>

(* One that finds nothing. *)
StopConfirms ==
  /\ gpc \in {"grace", "dying"}
  /\ Owned = {}
  /\ Observe
  /\ confirmed' = TRUE
  /\ StopReturns
  /\ UNCHANGED <<tree, reason, verdict, signalled, final, held, runs, regime>>

(* The grace period ends. *)
StopEscalates ==
  /\ gpc = "grace"
  /\ GoOn("kill")
  /\ UNCHANGED <<tree, tracked, gone, reason, verdict, signalled, confirmed, final, held, runs, met, regime>>

(* Mutant: a stop that is given up is taken for a stop. *)
StopGivesUpSilently ==
  /\ gpc = "dying"
  /\ StopReturns
  /\ UNCHANGED <<tree, tracked, gone, reason, verdict, signalled, confirmed, final, held, runs, met, regime>>

(* After KILL the table cannot be read, or five seconds pass. *)
StopGivesUp ==
  /\ gpc = "dying"
  /\ StopReturns
  /\ verdict' = IF final THEN "cleanup_failed" ELSE verdict
  /\ UNCHANGED <<tree, tracked, gone, reason, signalled, confirmed, final, held, runs, met, regime>>

-----------------------------------------------------------------------------
(* The end of a run.                                                       *)

Drain ==
  /\ gpc = "drain"
  /\ verdict' = IF signalled THEN "cancelled" ELSE reason
  /\ Finally
  /\ UNCHANGED <<tree, tracked, gone, signalled, confirmed, held, runs, met, regime>>

(* The leader is waited for; one that lives on fails the cleanup. *)
Reap ==
  /\ gpc = "reap"
  /\ verdict' = IF life[Leader] = "alive" THEN "cleanup_failed" ELSE verdict
  /\ GoOn("release")
  /\ UNCHANGED <<tree, tracked, gone, reason, signalled, confirmed, final, held, runs, met, regime>>

(* guarded: a part stopped at its charge, or a preempted workload, runs    *)
(* once more.                                                              *)
Retries(o) == runs = 1 /\ o = IF regime = "part" THEN "rss_limit" ELSE "preempted"

(* Mutant: the teardown looks at no signal. *)
ReleaseDeaf ==
  /\ gpc = "release"
  /\ held' = FALSE
  /\ GoOn(IF Retries(verdict) THEN "retry" ELSE "ended")
  /\ UNCHANGED <<tree, tracked, gone, reason, verdict, signalled, confirmed, final, runs, met, regime>>

Release ==
  /\ gpc = "release"
  /\ held' = FALSE
  /\ verdict' = IF signalled /\ verdict = "preempted" THEN "cancelled" ELSE verdict
  /\ GoOn(IF Retries(verdict') THEN "retry" ELSE "ended")
  /\ UNCHANGED <<tree, tracked, gone, reason, signalled, confirmed, final, runs, met, regime>>

(* The second run starts from nothing but what of the first one lives on   *)
(* unseen.                                                                 *)
Retry ==
  /\ gpc = "retry"
  /\ runs' = 2
  /\ GoOn("acquire")
  /\ life' = [p \in Process |-> IF life[p] = "alive" THEN "alive" ELSE "unborn"]
  /\ parent' = [p \in Process |-> IF life[p] = "alive" THEN parent[p] ELSE Supervisor]
  /\ group' = [p \in Process |-> IF life[p] = "alive" THEN group[p] ELSE p]
  /\ tracked' = {} /\ met' = {} /\ gone' = FALSE /\ reason' = "none" /\ verdict' = "setup_error"
  /\ signalled' = FALSE /\ confirmed' = FALSE /\ final' = FALSE
  /\ UNCHANGED <<deaf, adopter, held, regime>>

(* A signal from outside, while the handlers of run are installed. *)
Cancel ==
  /\ gpc \notin {"off", "retry", "ended"}
  /\ signalled' = TRUE
  /\ UNCHANGED <<tree, gpc, tracked, gone, reason, verdict, confirmed, final, held, runs, met, regime>>

GuardRuns ==
  \/ Acquire \/ Spawn \/ Watch \/ Sample \/ Fails \/ Peek \/ Exited
  \/ StopSignals \/ StopLooks \/ StopConfirms \/ StopEscalates \/ StopGivesUp
  \/ Drain \/ Reap \/ Release \/ Retry

GuardNext == GuardRuns \/ TimesOut \/ Cancel

(* The guard runs, and its deadlines pass: the timeout of the loop, the    *)
(* grace period, the five seconds after KILL.                              *)
GuardSpec ==
  /\ GuardInit
  /\ [][GuardNext \/ (TreeStep /\ UNCHANGED guard)]_<<tree, guard>>
  /\ WF_<<tree, guard>>(GuardRuns)
  /\ WF_<<tree, guard>>(StopEscalates \/ StopGivesUp)
  /\ SF_<<tree, guard>>(TimesOut)

-----------------------------------------------------------------------------
(* Properties.                                                             *)

(* The guard gives its slots up only when nothing that it ever saw of the  *)
(* workload lives, in or out of the leader's group, whatever was signalled *)
(* or could not be read; or it says that the cleanup failed.               *)
SlotsOutliveWorkload ==
  gpc # "off" /\ ~held /\ verdict # "cleanup_failed" =>
    \A p \in Alive : p \notin met /\ group[p] # Leader

(* A preempted run that was told to stop is not run again.                 *)
CancelEndsPreempted == gpc = "retry" /\ signalled => regime = "part"

GuardKept == SlotsOutliveWorkload /\ CancelEndsPreempted

=============================================================================
