----------------------------- MODULE ProcessTree ------------------------------
(***************************************************************************)
(* The processes of one supervised command as the kernel runs them: the    *)
(* leader that a supervisor starts in a session of its own, and what       *)
(* descends from it.  Both supervisors, scripts/build-guard.py and         *)
(* scripts/safe-output.py, are specified over this tree.                   *)
(*                                                                         *)
(* A process identifier stands for a pid with its start time: the          *)
(* supervisors compare both, so a reused pid is another process.  A        *)
(* process that takes its time on TERM is one that ignores TERM and ends   *)
(* later.  An ended process is reaped at once by a parent in the tree or   *)
(* by the reaper, but stays a zombie of a supervisor that adopted it.      *)
(***************************************************************************)
EXTENDS Integers, FiniteSets

CONSTANTS
  Process,     \* the processes the command may start
  Leader,      \* the command itself, and its process group
  Supervisor,  \* the supervising process
  Reaper       \* the process that adopts orphans elsewhere (init)

ASSUME TreeAssumption ==
  /\ Leader \in Process
  /\ Supervisor \notin Process /\ Reaper \notin Process /\ Supervisor # Reaper
  /\ IsFiniteSet(Process)

VARIABLES
  life,     \* "unborn", "alive", "zombie" or "dead"
  parent,   \* who a process is a child of
  group,    \* its process group
  deaf,     \* the processes that ignore TERM
  adopter   \* who adopts orphans: the supervisor if it is a subreaper

tree == <<life, parent, group, deaf, adopter>>

TreeOK ==
  /\ life \in [Process -> {"unborn", "alive", "zombie", "dead"}]
  /\ parent \in [Process -> Process \cup {Supervisor, Reaper}]
  /\ group \in [Process -> Process]
  /\ deaf \subseteq Process
  /\ adopter \in {Supervisor, Reaper}
  /\ \A p \in Process : life[p] = "alive" /\ parent[p] \in Process => life[parent[p]] = "alive"

TreeInit ==
  /\ life = [p \in Process |-> "unborn"]
  /\ parent = [p \in Process |-> Supervisor]
  /\ group = [p \in Process |-> p]
  /\ deaf \in SUBSET Process
  /\ adopter \in {Supervisor, Reaper}

Alive == {p \in Process : life[p] = "alive"}

(* The processes a signal of the supervisor ends. *)
Victims(S, sig) == IF sig = "KILL" THEN S ELSE S \ deaf

(* Of processes that end, those the supervisor has to reap; it waits for   *)
(* the leader anyhow.                                                      *)
Unreaped(S) ==
  {p \in S \ {Leader} : parent[p] = Supervisor \/ (parent[p] \in S /\ adopter = Supervisor)}

(* Processes end, their children are adopted.  Nothing is recorded of a    *)
(* process that is reaped.                                                 *)
End(S) ==
  LET ended == S \cap Alive
      reaped == ended \ Unreaped(ended)
  IN
  /\ life' = [p \in Process |-> CASE p \in reaped -> "dead"
                                   [] p \in ended \ reaped -> "zombie"
                                   [] OTHER -> life[p]]
  /\ parent' = [p \in Process |-> CASE p \in reaped -> Supervisor
                                     [] p \notin reaped /\ parent[p] \in ended -> adopter
                                     [] OTHER -> parent[p]]
  /\ group' = [p \in Process |-> IF p \in reaped THEN p ELSE group[p]]
  /\ UNCHANGED <<deaf, adopter>>

(* The supervisor starts its command (Popen with start_new_session). *)
Popen ==
  /\ life' = [life EXCEPT ![Leader] = "alive"]
  /\ UNCHANGED <<parent, group, deaf, adopter>>

-----------------------------------------------------------------------------
(* What the processes of the command do.                                   *)

Fork(p) ==
  \E q \in Process \ {Leader} :
    /\ life[p] = "alive"
    /\ life[q] = "unborn"
    /\ life' = [life EXCEPT ![q] = "alive"]
    /\ parent' = [parent EXCEPT ![q] = p]
    /\ group' = [group EXCEPT ![q] = group[p]]
    /\ UNCHANGED <<deaf, adopter>>

(* setsid: a process leaves the group it was born in. *)
Setsid(p) ==
  /\ life[p] = "alive"
  /\ group[p] # p
  /\ group' = [group EXCEPT ![p] = p]
  /\ UNCHANGED <<life, parent, deaf, adopter>>

Exit(p) ==
  /\ life[p] = "alive"
  /\ End({p})

TreeStep == \E p \in Process : Fork(p) \/ Setsid(p) \/ Exit(p)

=============================================================================
