------------------------------- MODULE RowRun --------------------------------
(***************************************************************************)
(* One row of a local CI run (scripts/local-ci-steps.py, run_row): the     *)
(* steps of a job, in a checkout whose files outside the declared inputs   *)
(* are withheld, or watched when the inputs are being discovered           *)
(* (scripts/ci-reuse.py, restrict, discover and check_restricted), and the *)
(* receipt that is written whatever happens.                               *)
(*                                                                         *)
(* The steps run as root, as in the container: a withheld file can be      *)
(* read, and the read shows.  What a step changes stays changed.           *)
(***************************************************************************)
EXTENDS Integers, Sequences

CONSTANTS
  Recipes   \* the jobs: sequences of the kinds of their steps

(* A step with a status condition, with continue-on-error, and the one     *)
(* that restricts the checkout of a support job. *)
StepKind == {"plain", "always", "lenient", "restrict"}

ASSUME RecipesAssumption == Recipes \subseteq Seq(StepKind)

VARIABLES
  rowpc,      \* where the row is
  job,        \* the job: "test", "native", "support" or "host"
  goal,       \* "part", "discover" or "plain"
  recipe,     \* its steps
  stepAt,         \* the step it is at
  zone,       \* the checkout: "open", "half", "withheld" or "watched"
  readSeen,       \* an access time shows a read of a file outside the inputs
  changed,    \* such a file differs
  outcomes,    \* of each step, as in the receipt
  good,       \* context['success']
  qfail,      \* qualification_failed
  success,    \* report['success']
  raised,     \* an exception is on its way
  receipt,    \* row.json: "none", or what it says
  readers,    \* steps that read a file outside the inputs (history)
  rowSignalled   \* a signal came (history)

checkout == <<zone, readSeen, changed, readers>>
rowReport == <<outcomes, good, qfail, success>>
rowrun == <<rowpc, job, goal, recipe, stepAt, checkout, rowReport, raised, receipt, rowSignalled>>

Receipts == [success : BOOLEAN, qualified : BOOLEAN]
NoReceipt == [success |-> FALSE, qualified |-> FALSE, none |-> TRUE]
Written == [success |-> success, qualified |-> success /\ zone = "withheld" /\ goal # "discover" /\ job # "host"]

RowRunOK ==
  /\ rowpc \in {"off", "setup", "step", "look", "write", "return", "ended"}
  /\ job \in {"test", "native", "support", "host"} /\ goal \in {"part", "discover", "plain"}
  /\ recipe \in Recipes /\ stepAt \in 1..Len(recipe) + 1
  /\ zone \in {"open", "half", "withheld", "watched"}
  /\ {readSeen, changed, good, qfail, success, raised, rowSignalled} \subseteq BOOLEAN
  /\ outcomes \in [DOMAIN recipe -> {"none", "passed", "failed", "prior-step-failed", "condition-false"}]
  /\ receipt \in Receipts \cup {NoReceipt}
  /\ readers \subseteq DOMAIN recipe

(* Only a support job restricts its checkout itself. *)
RowRunAt(l, recipes) ==
  /\ rowpc = l
  /\ recipe \in recipes
  /\ job \in {"test", "native", "support", "host"} /\ goal \in {"part", "discover", "plain"}
  /\ job = "support" <=> \E i \in DOMAIN recipe : recipe[i] = "restrict"
  /\ stepAt = 1
  /\ zone = "open" /\ readSeen = FALSE /\ changed = FALSE
  /\ outcomes = [i \in DOMAIN recipe |-> "none"]
  /\ good = TRUE /\ qfail = FALSE /\ success = FALSE /\ raised = FALSE
  /\ receipt = NoReceipt
  /\ readers = {} /\ rowSignalled = FALSE

RowRunInit == RowRunAt("setup", Recipes)

Discovers == goal = "discover"
Throws == raised' = TRUE /\ rowpc' = "write"

-----------------------------------------------------------------------------
(* The checkout.                                                           *)

(* A native row is restricted always, a test row when it is asked to be. *)
Restricts == job = "native" \/ (job = "test" /\ goal # "plain")

(* The platform, the job, the history or the preparation is refused. *)
SetupRefused ==
  /\ rowpc = "setup"
  /\ Throws
  /\ UNCHANGED <<job, goal, recipe, stepAt, checkout, rowReport, receipt, rowSignalled>>

(* restrict_part: a part that declares reuse false stays open; a           *)
(* restriction that fails half way leaves files withheld and no record.    *)
Setup ==
  /\ rowpc = "setup"
  /\ ~(job = "host" /\ goal = "part")
  /\ ~(job = "support" /\ Discovers)
  /\ IF Restricts
       THEN \/ zone' \in {"open", IF Discovers THEN "watched" ELSE "withheld"} /\ rowpc' = "step" /\ UNCHANGED raised
            \/ zone' \in {"open", "half"} /\ Throws
       ELSE rowpc' = "step" /\ UNCHANGED <<zone, raised>>
  /\ UNCHANGED <<job, goal, recipe, stepAt, readSeen, changed, rowReport, receipt, readers, rowSignalled>>

-----------------------------------------------------------------------------
(* The steps.                                                              *)

Step_(o) == outcomes' = [outcomes EXCEPT ![stepAt] = o]
Runs(i) == Discovers \/ good \/ recipe[i] = "always"

StepSkips ==
  /\ rowpc = "step"
  /\ stepAt <= Len(recipe)
  /\ ~Runs(stepAt)
  /\ Step_("prior-step-failed")
  /\ stepAt' = stepAt + 1
  /\ UNCHANGED <<rowpc, job, goal, recipe, checkout, good, qfail, success, raised, receipt, rowSignalled>>

(* Its condition is false, or a local substitute was verified before. *)
NotNeeded ==
  /\ rowpc = "step"
  /\ stepAt <= Len(recipe)
  /\ Runs(stepAt)
  /\ recipe[stepAt] # "restrict"
  /\ Step_("condition-false")
  /\ stepAt' = stepAt + 1
  /\ UNCHANGED <<rowpc, job, goal, recipe, checkout, good, qfail, success, raised, receipt, rowSignalled>>

(* What the command of a step does to the files outside the inputs, and    *)
(* how it ends: one that restricts cannot pass twice.                      *)
Executes(o) ==
  IF recipe[stepAt] = "restrict"
    THEN /\ IF o = "passed" THEN zone = "open" /\ zone' = "withheld"
            ELSE zone' \in IF zone = "open" THEN {"open", "half"} ELSE {zone}
         /\ UNCHANGED <<readSeen, changed, readers>>
    ELSE /\ \/ UNCHANGED <<readSeen, changed, readers>>
            \/ /\ zone \in {"withheld", "watched"}
               /\ \/ readSeen' = TRUE /\ readers' = readers \cup {stepAt} /\ UNCHANGED changed
                  \/ changed' = TRUE /\ UNCHANGED <<readSeen, readers>>
         /\ UNCHANGED zone

Moves_(l) == rowpc' = l /\ stepAt' = IF l = "step" THEN stepAt + 1 ELSE stepAt

(* Mutant: a step with continue-on-error may fail. *)
RowExecutesLeniently ==
  /\ rowpc = "step"
  /\ stepAt <= Len(recipe)
  /\ Runs(stepAt)
  /\ \E o \in {"passed", "failed"} :
       /\ Step_(o)
       /\ Executes(o)
       /\ qfail' = (qfail \/ (o = "failed" /\ recipe[stepAt] # "lenient"))
       /\ good' = (good /\ (o = "passed" \/ recipe[stepAt] = "lenient"))
  /\ Moves_(IF Discovers /\ job # "host" THEN "look" ELSE "step")
  /\ UNCHANGED <<job, goal, recipe, success, raised, receipt, rowSignalled>>

RowExecutes ==
  /\ rowpc = "step"
  /\ stepAt <= Len(recipe)
  /\ Runs(stepAt)
  /\ \E o \in {"passed", "failed"} :
       /\ Step_(o)
       /\ Executes(o)
       /\ qfail' = (qfail \/ o = "failed")
       /\ good' = (good /\ (o = "passed" \/ recipe[stepAt] = "lenient"))
  /\ Moves_(IF Discovers /\ job # "host" THEN "look" ELSE "step")
  /\ UNCHANGED <<job, goal, recipe, success, raised, receipt, rowSignalled>>

(* A condition or a recipe that cannot be evaluated. *)
StepRefused ==
  /\ rowpc = "step"
  /\ stepAt <= Len(recipe)
  /\ Throws
  /\ UNCHANGED <<job, goal, recipe, stepAt, checkout, rowReport, receipt, rowSignalled>>

-----------------------------------------------------------------------------
(* check-restricted.                                                       *)

(* Without a record nothing is checked; what a step changes in a watched   *)
(* checkout is not a problem.                                              *)
Problems ==
  \/ zone = "watched" /\ readSeen
  \/ zone = "withheld" /\ (readSeen \/ changed)

(* Mutant: the access times are reset before they are looked at. *)
RowLooksAfterReset ==
  /\ rowpc = "look"
  /\ readSeen' = FALSE
  /\ rowpc' = "step" /\ stepAt' = stepAt + 1
  /\ UNCHANGED <<job, goal, recipe, zone, changed, readers, rowReport, raised, receipt, rowSignalled>>

(* Discovery looks after each step, and goes on; the reads it has reported *)
(* do not show again.                                                      *)
RowLooks ==
  /\ rowpc = "look"
  /\ IF Problems THEN good' = FALSE /\ qfail' = TRUE ELSE UNCHANGED <<good, qfail>>
  /\ readSeen' = IF zone = "watched" THEN FALSE ELSE readSeen
  /\ rowpc' = "step" /\ stepAt' = stepAt + 1
  /\ UNCHANGED <<job, goal, recipe, zone, changed, readers, outcomes, success, raised, receipt, rowSignalled>>

(* Mutant: the row has passed when its steps have. *)
ChecksNot ==
  /\ rowpc = "step"
  /\ stepAt > Len(recipe)
  /\ rowpc' = "write"
  /\ success' = (good /\ ~qfail)
  /\ UNCHANGED <<job, goal, recipe, stepAt, checkout, outcomes, good, qfail, raised, receipt, rowSignalled>>

Checks ==
  /\ rowpc = "step"
  /\ stepAt > Len(recipe)
  /\ \/ /\ ~(job # "host" /\ Problems)
        /\ success' = (good /\ ~qfail)
        /\ rowpc' = "write" /\ UNCHANGED raised
     \/ job # "host" /\ Throws /\ UNCHANGED success
  /\ UNCHANGED <<job, goal, recipe, stepAt, checkout, outcomes, good, qfail, receipt, rowSignalled>>

-----------------------------------------------------------------------------
(* The receipt.                                                            *)

(* Mutant: a row is qualified when it was restricted as it was asked to be. *)
WritesAsAsked ==
  /\ rowpc = "write"
  /\ receipt' = [success |-> success, qualified |-> success /\ goal = "part" /\ job # "host"]
  /\ rowpc' = "return"
  /\ UNCHANGED <<job, goal, recipe, stepAt, checkout, rowReport, raised, rowSignalled>>

(* In the finally: a restriction record that cannot be read fails the row; *)
(* so does a receipt that cannot be written.                               *)
RowWrites ==
  /\ rowpc = "write"
  /\ \/ receipt' = Written /\ UNCHANGED <<success, raised>>
     \/ /\ job # "host"
        /\ success' = FALSE
        /\ receipt' = [success |-> FALSE, qualified |-> FALSE]
        /\ UNCHANGED raised
     \/ success' = FALSE /\ UNCHANGED <<receipt, raised>>
     \/ raised' = TRUE /\ UNCHANGED <<receipt, success>>
  /\ rowpc' = "return"
  /\ UNCHANGED <<job, goal, recipe, stepAt, checkout, outcomes, good, qfail, rowSignalled>>

(* A row without success raises; the container ends with zero otherwise. *)
RowReturns ==
  /\ rowpc = "return"
  /\ raised' = (raised \/ ~success)
  /\ rowpc' = "ended"
  /\ UNCHANGED <<job, goal, recipe, stepAt, checkout, rowReport, receipt, rowSignalled>>

(* The handler raises Cancelled: in the try the receipt is still written,  *)
(* in the finally it is not.                                               *)
Cancels ==
  /\ rowpc \notin {"off", "ended"}
  /\ raised' = TRUE /\ rowSignalled' = TRUE
  /\ rowpc' = IF rowpc \in {"write", "return"} THEN "ended" ELSE "write"
  /\ UNCHANGED <<job, goal, recipe, stepAt, checkout, rowReport, receipt>>

(* As above, where the last statement of the try has been executed. *)
CancelsLate ==
  /\ rowpc = "write"
  /\ raised' = TRUE /\ rowSignalled' = TRUE
  /\ UNCHANGED <<rowpc, job, goal, recipe, stepAt, checkout, rowReport, receipt>>

RowSteps ==
  \/ SetupRefused \/ Setup \/ StepSkips \/ NotNeeded \/ RowExecutes \/ StepRefused \/ RowLooks \/ Checks \/ RowWrites
  \/ RowReturns

RowRunNext == RowSteps \/ Cancels \/ CancelsLate

RowRunSpec == RowRunInit /\ [][RowRunNext]_rowrun /\ WF_rowrun(RowSteps)

-----------------------------------------------------------------------------
(* Properties.                                                             *)

(* A receipt of success is earned: every step was considered, none failed  *)
(* whatever its continue-on-error or the mode says, none read a file       *)
(* outside the inputs, and the withheld files are as they were left.       *)
SuccessIsEarned ==
  receipt.success =>
    /\ \A i \in DOMAIN recipe : outcomes[i] \in {"passed", "condition-false"}
    /\ readers = {}
    /\ zone = "withheld" => ~changed

(* A qualified receipt is one of success, in a checkout that was withheld, *)
(* never a discovery or a half restricted checkout.                        *)
QualifiedIsRestricted ==
  receipt.qualified => receipt.success /\ zone = "withheld" /\ ~Discovers

(* The host takes the row's status and receipt to agree: zero only with a  *)
(* receipt of success, such a receipt without it only after a signal.      *)
StatusAgrees ==
  rowpc = "ended" =>
    /\ ~raised => receipt.success
    /\ receipt.success /\ raised => rowSignalled

(* After a step that failed only those that ask for the status run, unless *)
(* the inputs are being discovered.                                        *)
FailureStops ==
  \A i, j \in DOMAIN recipe :
    /\ i < j /\ ~Discovers
    /\ outcomes[i] = "failed" /\ recipe[i] # "lenient"
    /\ outcomes[j] \in {"passed", "failed"}
    => recipe[j] = "always"

(* local-ci-steps.py run_row. *)
RowKept == SuccessIsEarned /\ QualifiedIsRestricted /\ StatusAgrees /\ FailureStops

=============================================================================
