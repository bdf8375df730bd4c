-------------------------------- MODULE AuditRun -------------------------------
(***************************************************************************)
(* The auditor under the worker of a proof receipt                         *)
(* (scripts/proof-receipt.py, run_child): a command in a process group of  *)
(* its own, stopped when the worker is cancelled or when the command ends  *)
(* before the other processes of its group.                                *)
(*                                                                         *)
(* SIGINT, SIGTERM and SIGHUP are one signal, which is raised as an        *)
(* exception once.  That the pid of a leader that was waited for names     *)
(* another group by then is left out, as are processes that leave the      *)
(* group: the guard around the worker follows them.                        *)
(***************************************************************************)
EXTENDS ProcessTree

VARIABLES
  upc,        \* where the worker is
  cancelled,  \* a signal was raised
  ending      \* why run_child ended, or "none"

auditor == <<upc, cancelled, ending>>

AuditorOK ==
  /\ upc \in {"off", "launch", "forked", "wait", "look", "term", "grace", "ended"}
  /\ cancelled \in BOOLEAN
  /\ ending \in {"none", "returned", "left children", "cancelled", "abandoned"}

AuditorAt(l) == upc = l /\ cancelled = FALSE /\ ending = "none"

AuditorInit == TreeInit /\ adopter = Reaper /\ AuditorAt("launch")

InGroup == {p \in Alive : group[p] = Leader}

GoTo(l, o) == upc' = l /\ ending' = o /\ UNCHANGED cancelled

-----------------------------------------------------------------------------
(* The worker.                                                             *)

(* Popen: the child exists before the worker has its name. *)
ForkAuditor ==
  /\ upc = "launch"
  /\ Popen
  /\ GoTo("forked", ending)

Named ==
  /\ upc = "forked"
  /\ GoTo("wait", ending)
  /\ UNCHANGED tree

AuditorEnds ==
  /\ upc = "wait"
  /\ life[Leader] # "alive"
  /\ GoTo("look", ending)
  /\ UNCHANGED tree

(* Mutant: a command that has ended is not asked for its children. *)
TakesResult ==
  /\ upc = "look"
  /\ GoTo("ended", "returned")
  /\ UNCHANGED tree

(* A command that ended with live children did not pass. *)
LooksForChildren ==
  /\ upc = "look"
  /\ IF InGroup = {} THEN GoTo("ended", "returned") ELSE GoTo("term", "left children")
  /\ UNCHANGED tree

TermsGroup ==
  /\ upc = "term"
  /\ End(Victims(InGroup, "TERM"))
  /\ GoTo("grace", ending)

(* The leader was waited for and the group is gone. *)
IsGone ==
  /\ upc = "grace"
  /\ InGroup = {}
  /\ GoTo("ended", ending)
  /\ UNCHANGED tree

(* Mutant: the end of the leader is enough. *)
KillsLeader ==
  /\ upc = "grace"
  /\ life[Leader] = "alive"
  /\ End({Leader})
  /\ GoTo("ended", ending)

(* The grace period has passed. *)
KillsGroup ==
  /\ upc = "grace"
  /\ End(InGroup)
  /\ GoTo("ended", ending)

-----------------------------------------------------------------------------
(* The handler.                                                            *)

(* Mutant: every signal is raised. *)
CancelAlways ==
  /\ upc \in {"launch", "forked", "wait", "look", "term", "grace"}
  /\ cancelled' = TRUE
  /\ \/ upc = "launch" /\ upc' = "ended" /\ ending' = "cancelled"
     \/ upc = "forked" /\ upc' = "ended" /\ ending' = "abandoned"
     \/ upc \in {"wait", "look"} /\ upc' = "term" /\ ending' = "cancelled"
     \/ upc \in {"term", "grace"} /\ upc' = "ended"
        /\ ending' = IF cancelled THEN ending ELSE "abandoned"
  /\ UNCHANGED tree

(* It raises the first signal: before there is a child; in Popen, which    *)
(* forgets the child; while the worker waits, which stops the group; or in *)
(* a stop that the children the command left had begun, which is           *)
(* abandoned.                                                              *)
CancelOnce ==
  /\ ~cancelled /\ cancelled' = TRUE
  /\ \/ upc = "launch" /\ upc' = "ended" /\ ending' = "cancelled"
     \/ upc = "forked" /\ upc' = "ended" /\ ending' = "abandoned"
     \/ upc \in {"wait", "look"} /\ upc' = "term" /\ ending' = "cancelled"
     \/ upc \in {"term", "grace"} /\ upc' = "ended" /\ ending' = "abandoned"
  /\ UNCHANGED tree

AuditorRuns ==
  \/ ForkAuditor \/ Named \/ AuditorEnds \/ LooksForChildren
  \/ TermsGroup \/ IsGone \/ KillsGroup

AuditorNext == AuditorRuns \/ CancelOnce

(* The worker runs, and the grace period passes. *)
AuditorSpec ==
  /\ AuditorInit
  /\ [][AuditorNext \/ (TreeStep /\ UNCHANGED auditor)]_<<tree, auditor>>
  /\ WF_<<tree, auditor>>(AuditorRuns)

-----------------------------------------------------------------------------
(* Properties.                                                             *)

(* No process of the auditor's group outlives run_child, however it ends,  *)
(* unless a signal made it abandon the group; a signal while it stops a    *)
(* group that a signal has cancelled does not.                             *)
AuditorStopped == upc = "ended" /\ ending # "abandoned" => InGroup = {}

=============================================================================
