------------------------------- MODULE Generated ------------------------------
(***************************************************************************)
(* The generated branch (scripts/generated.py, publish): one entry per     *)
(* main commit, from the files its CI run produced.                        *)
(*                                                                         *)
(* A commit is its place on main.  A commit has one CI run, which may be   *)
(* run again; what is kept of it is whether it goes on and whether its     *)
(* producing jobs passed.  The workflow publishes when a run completes: at *)
(* most one of its jobs runs and one waits.  publish may also be started   *)
(* by hand, beside the workflow.  The contents of an entry, and the        *)
(* freshness check, are left out.                                          *)
(***************************************************************************)
EXTENDS Integers, Sequences, SequencesExt, FiniteSetsExt

CONSTANTS
  MaxMain,    \* bound on the commits of main
  MaxReruns,  \* bound on the runs that are run again
  Attempts,   \* the attempts of a job of the workflow
  Job1,       \* the job of the workflow that runs
  Hand        \* publish started by hand

ASSUME GeneratedAssumption == {MaxMain, MaxReruns} \subseteq Nat /\ Attempts \in Nat \ {0} /\ Job1 # Hand

VARIABLES
  main,       \* the length of main
  ci,         \* the CI run of each commit: "none", "active", "passed" or "failed"
  reruns,
  branch,     \* the entries of the generated branch, oldest first
  waiting,    \* a job of the workflow waits
  gpub,       \* where a publisher is
  attempt,    \* its attempts so far
  clone,      \* its clone of main
  base,       \* the branch as it last fetched it
  todo,       \* the pending commits it has not looked at
  fresh,      \* the entries it adds
  skipped,    \* commits that were skipped (history)
  alarm,      \* a job of the workflow has failed, which is reported (history)
  byHand      \* an entry was pushed by hand (history)

runs_ == <<main, ci, reruns>>
pubs  == <<gpub, attempt, clone, base, todo, fresh>>
generated == <<runs_, branch, waiting, pubs, skipped, alarm, byHand>>

Publishers == {Job1, Hand}
Commit == 1..MaxMain
Entries(b) == ToSet(b)

GeneratedOK ==
  /\ main \in 0..MaxMain /\ reruns \in 0..MaxReruns
  /\ ci \in [Commit -> {"none", "active", "passed", "failed"}]
  /\ \A p \in Publishers :
       /\ gpub[p] \in {"idle", "clone", "look"}
       /\ attempt[p] \in 0..Attempts /\ clone[p] \in 0..main
       /\ Entries(base[p]) \cup Entries(todo[p]) \cup Entries(fresh[p]) \subseteq Commit
       /\ IsPrefix(base[p], branch)
  /\ {waiting, alarm, byHand} \subseteq BOOLEAN

GeneratedInit ==
  /\ main = 0 /\ ci = [c \in Commit |-> "none"] /\ reruns = 0
  /\ branch = <<>>
  /\ waiting = FALSE
  /\ gpub = [p \in Publishers |-> "idle"]
  /\ attempt = [p \in Publishers |-> 0] /\ clone = attempt
  /\ base = [p \in Publishers |-> <<>>] /\ todo = base /\ fresh = base
  /\ skipped = {} /\ alarm = FALSE /\ byHand = FALSE

-----------------------------------------------------------------------------
(* Main and its CI runs.                                                   *)

(* A commit lands; only the last commit of a push has a run. *)
Land ==
  /\ main < MaxMain
  /\ main' = main + 1
  /\ \E s \in {"none", "active"} : ci' = [ci EXCEPT ![main + 1] = s]
  /\ UNCHANGED <<reruns, branch, waiting, pubs, skipped, alarm, byHand>>

(* A run completes, which starts a job of the workflow or has it wait. *)
Completes(c) ==
  /\ ci[c] = "active"
  /\ \E s \in {"passed", "failed"} : ci' = [ci EXCEPT ![c] = s]
  /\ waiting' = TRUE
  /\ UNCHANGED <<main, reruns, branch, pubs, skipped, alarm, byHand>>

RunAgain(c) ==
  /\ ci[c] \in {"passed", "failed"}
  /\ reruns < MaxReruns
  /\ reruns' = reruns + 1
  /\ ci' = [ci EXCEPT ![c] = "active"]
  /\ UNCHANGED <<main, branch, waiting, pubs, skipped, alarm, byHand>>

-----------------------------------------------------------------------------
(* A publisher.                                                            *)

(* The checkout, with the branches there are. *)
Checkout(p) ==
  /\ gpub[p] = "idle"
  /\ p = Job1 => waiting
  /\ waiting' = IF p = Job1 THEN FALSE ELSE waiting
  /\ gpub' = [gpub EXCEPT ![p] = "clone"]
  /\ clone' = [clone EXCEPT ![p] = main]
  /\ base' = [base EXCEPT ![p] = branch]
  /\ UNCHANGED <<runs_, branch, attempt, todo, fresh, skipped, alarm, byHand>>

(* Mutant: the walk goes past the published commits. *)
PendingAll(p, b) == [i \in 1..clone[p] |-> i]

(* pending: the commits after the newest published one. *)
Pending(p, b) ==
  LET newest == Max({0} \cup {c \in Entries(b) : c <= clone[p]})
  IN  [i \in 1..(clone[p] - newest) |-> newest + i]

(* fetch_branch, which may fail silently, and pending. *)
Fetch(p) ==
  /\ gpub[p] = "clone"
  /\ \E b \in {branch, base[p]} :
       base' = [base EXCEPT ![p] = b] /\ todo' = [todo EXCEPT ![p] = Pending(p, b)]
  /\ fresh' = [fresh EXCEPT ![p] = <<>>]
  /\ gpub' = [gpub EXCEPT ![p] = "look"]
  /\ UNCHANGED <<runs_, branch, waiting, attempt, clone, skipped, alarm, byHand>>

(* Mutant: a commit whose run goes on is passed over. *)
WaitsNot(p) ==
  /\ gpub[p] = "look" /\ todo[p] # <<>>
  /\ ci[Head(todo[p])] = "active"
  /\ todo' = [todo EXCEPT ![p] = Tail(@)]
  /\ UNCHANGED <<runs_, branch, waiting, gpub, attempt, clone, base, fresh, skipped, alarm, byHand>>

(* evidence: a run that goes on is waited for. *)
Waits(p) ==
  /\ gpub[p] = "look" /\ todo[p] # <<>>
  /\ ci[Head(todo[p])] = "active"
  /\ todo' = [todo EXCEPT ![p] = <<>>]
  /\ UNCHANGED <<runs_, branch, waiting, gpub, attempt, clone, base, fresh, skipped, alarm, byHand>>

(* A commit without a run whose producing jobs passed is skipped. *)
Skips(p) ==
  /\ gpub[p] = "look" /\ todo[p] # <<>>
  /\ ci[Head(todo[p])] \in {"none", "failed"}
  /\ todo' = [todo EXCEPT ![p] = Tail(@)]
  /\ skipped' = skipped \cup {Head(todo[p])}
  /\ UNCHANGED <<runs_, branch, waiting, gpub, attempt, clone, base, fresh, alarm, byHand>>

(* The files are downloaded and verified, and an entry is made. *)
Makes(p) ==
  /\ gpub[p] = "look" /\ todo[p] # <<>>
  /\ ci[Head(todo[p])] = "passed"
  /\ fresh' = [fresh EXCEPT ![p] = Append(@, Head(todo[p]))]
  /\ todo' = [todo EXCEPT ![p] = Tail(@)]
  /\ UNCHANGED <<runs_, branch, waiting, gpub, attempt, clone, base, skipped, alarm, byHand>>

Done(p) ==
  /\ gpub' = [gpub EXCEPT ![p] = "idle"]
  /\ attempt' = [attempt EXCEPT ![p] = 0]
  /\ clone' = [clone EXCEPT ![p] = 0]
  /\ base' = [base EXCEPT ![p] = <<>>]
  /\ todo' = [todo EXCEPT ![p] = <<>>]
  /\ fresh' = [fresh EXCEPT ![p] = <<>>]

(* Mutant: the push is forced. *)
PushForced(p) ==
  /\ gpub[p] = "look" /\ todo[p] = <<>>
  /\ branch' = IF fresh[p] = <<>> THEN branch ELSE base[p] \o fresh[p]
  /\ byHand' = (byHand \/ (p = Hand /\ fresh[p] # <<>>))
  /\ Done(p)
  /\ UNCHANGED <<runs_, waiting, skipped, alarm>>

(* All that may be looked at is: git push, which moves the branch forward  *)
(* only.                                                                   *)
Push(p) ==
  /\ gpub[p] = "look" /\ todo[p] = <<>>
  /\ \/ fresh[p] = <<>> /\ UNCHANGED branch
     \/ fresh[p] # <<>> /\ branch = base[p] /\ branch' = base[p] \o fresh[p]
  /\ byHand' = (byHand \/ (p = Hand /\ fresh[p] # <<>>))
  /\ Done(p)
  /\ UNCHANGED <<runs_, waiting, skipped, alarm>>

(* A request, a download, a check or the push fails: the workflow tries    *)
(* again in the same clone, Attempts times in all.                         *)
Fails_(p) ==
  /\ gpub[p] = "look"
  /\ IF p = Job1 /\ attempt[p] + 1 < Attempts
       THEN /\ attempt' = [attempt EXCEPT ![p] = @ + 1]
            /\ gpub' = [gpub EXCEPT ![p] = "clone"]
            /\ todo' = [todo EXCEPT ![p] = <<>>]
            /\ fresh' = [fresh EXCEPT ![p] = <<>>]
            /\ UNCHANGED <<clone, base, alarm>>
       ELSE Done(p) /\ alarm' = (alarm \/ p = Job1)
  /\ UNCHANGED <<runs_, branch, waiting, skipped, byHand>>

PublisherActs(p) ==
  Fetch(p) \/ Waits(p) \/ Skips(p) \/ Makes(p) \/ Push(p) \/ Fails_(p)

(* The job of the workflow goes on; one started by hand may not. *)
GeneratedRuns == PublisherActs(Job1) \/ Checkout(Job1)

RunsComplete == \E c \in Commit : Completes(c)

GeneratedNext ==
  \/ Land
  \/ \E c \in Commit : RunAgain(c)
  \/ RunsComplete
  \/ GeneratedRuns
  \/ Checkout(Hand) \/ PublisherActs(Hand)

GeneratedSpec ==
  GeneratedInit /\ [][GeneratedNext]_generated
    /\ WF_generated(GeneratedRuns) /\ WF_generated(RunsComplete)

-----------------------------------------------------------------------------
(* Properties.                                                             *)

(* The branch has at most one entry for a main commit, whoever publishes   *)
(* at the same time; and while only the workflow publishes, in main's      *)
(* order.  (A clone of main that is behind the branch puts an older commit *)
(* after a newer one.)                                                     *)
OneEntryEach ==
  \A i, j \in 1..Len(branch) : i < j =>
    branch[i] # branch[j] /\ (byHand \/ branch[i] < branch[j])

(* It only grows. *)
OnlyGrows == [][IsPrefix(branch, branch')]_branch

(* A commit whose producing jobs have passed has its entry in the end,     *)
(* once its run completes, however runs overlap with publishers; unless it *)
(* was skipped before, when it had no passing run, or a job of the         *)
(* workflow failed, which opens an issue.                                  *)
EntriesCame ==
  \A c \in Commit : ci[c] = "passed" /\ c \notin skipped /\ ~alarm => c \in Entries(branch)

BranchKept == []OneEntryEach /\ OnlyGrows
EntriesCome == <>[]EntriesCame

=============================================================================
