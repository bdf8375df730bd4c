---------------------------- MODULE CommandsProofs ----------------------------
(***************************************************************************)
(* The commands, each for every value of its constants: publication, the   *)
(* calls, rows and containers of a local CI run, the check and the export  *)
(* of a project, and the generated branch.  For each an invariant, what    *)
(* it promises, and the types of the rest of its state.                    *)
(***************************************************************************)
EXTENDS Publication, LocalCall, RowRun, LocalRun, ProjectCheck, ExportRun, Generated,
  TLAPS, FiniteSetTheorems, SequenceTheorems

-----------------------------------------------------------------------------
(* Publication.  A file is linked or renamed only when it is synced, so    *)
(* everything the directory may hold on disk is synced.                    *)

Shaped ==
  /\ ppc \in [Publisher -> {"open", "copy", "put", "clean", "syncdir", "ended"}]
  /\ temp \in [Publisher -> {"none", "part", "whole", "synced"}]
  /\ report \in [Publisher -> {"nothing", "published", "refused", "interrupted"}]

Synced == {[by |-> q, data |-> "synced"] : q \in Publisher \cup {Before}}

Durable ==
  /\ dest \in disk
  /\ \A d \in disk : d \subseteq Synced
  /\ \A p \in Publisher : ppc[p] = "put" => temp[p] = "synced"

Beside == \A p \in Publisher : ppc[p] \in {"open", "syncdir"} => temp[p] = "none"

PublicationInv == Shaped /\ Durable /\ Beside /\ NothingBeside

LEMMA StepTo ==
  ASSUME Shaped, NEW p \in Publisher, NEW l, To(p, l)
  PROVE  ppc'[p] = l /\ \A q \in Publisher : q # p => ppc'[q] = ppc[q]
BY DEF Shaped, To

(* Losing the power does not cut a file that was synced. *)
LEMMA SyncedStays ==
  ASSUME NEW d, d \subseteq Synced
  PROVE  {[f EXCEPT !.data = IF @ = "synced" THEN "synced" ELSE "part"] : f \in d} \subseteq Synced
<1> SUFFICES ASSUME NEW f \in d
             PROVE  [f EXCEPT !.data = IF @ = "synced" THEN "synced" ELSE "part"] \in Synced
  OBVIOUS
<1>1. PICK q \in Publisher \cup {Before} : f = [by |-> q, data |-> "synced"]
  BY DEF Synced
<1>2. [f EXCEPT !.data = IF @ = "synced" THEN "synced" ELSE "part"] = [by |-> q, data |-> "synced"]
  BY <1>1
<1> QED
  BY <1>2 DEF Synced

LEMMA StepPublication ==
  ASSUME PublicationInv, [PublicationNext]_publication
  PROVE  PublicationInv'
<1> USE DEF PublicationInv, Shaped, Durable, Beside, NothingBeside
<1>1. ASSUME NEW p \in Publisher, Open(p) PROVE PublicationInv'
  BY <1>1 DEF Open, To
<1>2. ASSUME NEW p \in Publisher, Copy(p) PROVE PublicationInv'
  BY <1>2 DEF Copy, To
<1>3. ASSUME NEW p \in Publisher, Replace(p) PROVE PublicationInv'
  <2>1. dest' \subseteq Synced /\ disk' = disk \cup {dest'}
    BY <1>3 DEF Replace, Place, Synced
  <2> QED
    BY <1>3, <2>1 DEF Replace, To
<1>4. ASSUME NEW p \in Publisher, Link(p) PROVE PublicationInv'
  <2>1. \/ dest' \subseteq Synced /\ disk' = disk \cup {dest'}
        \/ dest' = dest /\ disk' = disk
    BY <1>4 DEF Link, Place, Synced
  <2> QED
    BY <1>4, <2>1 DEF Link, To
<1>5. ASSUME NEW p \in Publisher, Clean(p) PROVE PublicationInv'
  BY <1>5 DEF Clean, To
<1>6. ASSUME NEW p \in Publisher, SyncDirectory(p) PROVE PublicationInv'
  BY <1>6 DEF SyncDirectory, To
<1>7. ASSUME NEW p \in Publisher, Interrupted(p) PROVE PublicationInv'
  BY <1>7 DEF Interrupted, To
<1>8. ASSUME NEW p \in Publisher, Killed(p) PROVE PublicationInv'
  BY <1>8 DEF Killed, To
<1>9. ASSUME PowerFails PROVE PublicationInv'
  <2>1. dest' \subseteq Synced /\ disk' = {dest'}
    BY <1>9, SyncedStays DEF PowerFails
  <2>2. UNCHANGED temp /\ \A p \in Publisher : ppc'[p] = "ended"
    BY <1>9 DEF PowerFails
  <2>3. \A p \in Publisher : report'[p] = IF ppc[p] = "ended" THEN report[p] ELSE "nothing"
    BY <1>9 DEF PowerFails
  <2>4. Shaped'
    BY <1>9 DEF PowerFails
  <2> QED
    BY <2>1, <2>2, <2>3, <2>4
<1>10. ASSUME UNCHANGED publication PROVE PublicationInv'
  BY <1>10 DEF publication
<1> QED
  BY <1>1, <1>2, <1>3, <1>4, <1>5, <1>6, <1>7, <1>8, <1>9, <1>10 DEF PublicationNext, PublisherStep

LEMMA PublicationInvHolds == PublicationSpec => []PublicationInv
<1>1. PublicationInit => PublicationInv
  BY DEF PublicationInit, PublicationInv, Shaped, Durable, Beside, NothingBeside, Old, Synced
<1> QED
  BY <1>1, StepPublication, PTL DEF PublicationSpec

(* Whatever publishers do and suffer, the destination is never part of an  *)
(* artifact, those that end leave nothing beside it, and only --overwrite  *)
(* replaces a file.                                                        *)
THEOREM PublicationIsKept == PublicationSpec => PublicationKept
<1>1. PublicationInv => DestinationWhole /\ NothingBeside
  BY DEF PublicationInv, Durable, Synced, DestinationWhole
<1>2. PublicationInv /\ [PublicationNext]_publication =>
        [dest' # dest /\ power' => dest = {} \/ \A f \in dest' : f.by \in Overwriter]_publication
  BY DEF PublicationNext, PublisherStep, Open, Copy, Replace, Link, Place, Clean, SyncDirectory,
    Interrupted, Killed, PowerFails, publication
<1> QED
  BY <1>1, <1>2, PublicationInvHolds, PTL DEF PublicationSpec, PublicationKept, NoClobber

-----------------------------------------------------------------------------
(* The calls of a local CI run, any number of them, with signals at every  *)
(* step.  What makes the handler safe is where the flags are set: a        *)
(* handler that raises finds a child that is not reaped or a run between   *)
(* two commands, and a signal that is kept is looked at before a status is *)
(* returned.                                                               *)

Flags ==
  /\ cpc \in {"off", "idle", "popen", "launched", "poll", "peeked", "wait", "stopping", "unwind", "after",
              "ended"}
  /\ {launching, cancelling, deferred, others, heard, taken} \subseteq BOOLEAN
  /\ cancelling = TRUE <=> cpc \in {"stopping", "unwind"}
  /\ cpc \in {"popen", "wait"} => launching = TRUE
  /\ cpc \in {"launched", "poll", "peeked", "after", "idle"} => launching = FALSE

(* The child while the run is there, and why a call ends.                  *)
Children ==
  /\ child \in {"none", "runs", "zombie", "reaped"}
  /\ why \in {"none", "signal", "timeout", "unconfirmed"}
  /\ cpc \in {"launched", "poll", "stopping"} => child \in {"runs", "zombie"}
  /\ cpc \in {"stopping", "unwind"} => why # "none"
  /\ cpc = "peeked" => child = "zombie"
  /\ cpc = "wait" => child \in {"zombie", "reaped"}
  /\ cpc = "after" => child = "reaped"
  /\ cpc = "popen" => child = "none"
  /\ cpc = "idle" => child \in {"none", "reaped"}
  /\ cpc = "unwind" /\ why \in {"signal", "timeout"} => child = "reaped"
  /\ cpc = "ended" /\ why \in {"signal", "timeout"} => child \in {"none", "reaped"}
  /\ cpc = "ended" /\ why = "none" => child \in {"none", "reaped"}

(* A signal that did not end the call is kept.                             *)
Kept ==
  /\ taken = FALSE
  /\ cpc \in {"idle", "popen", "launched", "wait", "after"} /\ heard = TRUE => deferred = TRUE
  /\ cpc \in {"poll", "peeked"} => heard = FALSE

CallInv == Flags /\ Children /\ Kept

LEMMA CallStarts ==
  ASSUME NEW l \in {"off", "idle"}, CallAt(l)
  PROVE  CallInv
BY DEF CallAt, CallInv, Flags, Children, Kept

LEMMA StepCall ==
  ASSUME CallInv, [CallNext]_call
  PROVE  CallInv'
<1> USE DEF CallInv, Flags, Children, Kept
<1>1. ASSUME Calls PROVE CallInv'
  BY <1>1 DEF Calls, Raises, flags, group_
<1>2. ASSUME RunEnds PROVE CallInv'
  BY <1>2 DEF RunEnds, Raises, flags, group_
<1>3. ASSUME PopenFails PROVE CallInv'
  BY <1>3 DEF PopenFails, Raises, flags, group_
<1>4. ASSUME Started PROVE CallInv'
  BY <1>4 DEF Started, Raises, flags, group_
<1>5. ASSUME Launched PROVE CallInv'
  BY <1>5 DEF Launched, Raises, flags, group_
<1>6. ASSUME Polls PROVE CallInv'
  BY <1>6 DEF Polls, Raises, flags, group_
<1>7. ASSUME Defers PROVE CallInv'
  BY <1>7 DEF Defers, Raises, flags, group_
<1>8. ASSUME Reaped PROVE CallInv'
  BY <1>8 DEF Reaped, Raises, flags, group_
<1>9. ASSUME Leaves PROVE CallInv'
  BY <1>9 DEF Leaves, Raises, flags, group_
<1>10. ASSUME Returns PROVE CallInv'
  BY <1>10 DEF Returns, Raises, flags, group_
<1>11. ASSUME GroupStops PROVE CallInv'
  BY <1>11 DEF GroupStops, Raises, flags, group_
<1>12. ASSUME Unwinds PROVE CallInv'
  BY <1>12 DEF Unwinds, Raises, flags, group_
<1>13. ASSUME Handler PROVE CallInv'
  BY <1>13 DEF Handler, Raises, flags, group_
<1>14. ASSUME Spawns PROVE CallInv'
  BY <1>14 DEF Spawns, Raises, flags, group_
<1>15. ASSUME ChildEnds PROVE CallInv'
  BY <1>15 DEF ChildEnds, Raises, flags, group_
<1>16. ASSUME OthersEnd PROVE CallInv'
  BY <1>16 DEF OthersEnd, Raises, flags, group_
<1>17. ASSUME UNCHANGED call PROVE CallInv'
  BY <1>17 DEF call, flags, group_
<1> QED
  BY <1>1, <1>2, <1>3, <1>4, <1>5, <1>6, <1>7, <1>8, <1>9, <1>10, <1>11, <1>12, <1>13, <1>14,
     <1>15, <1>16, <1>17
    DEF CallNext, CallRuns

LEMMA CallInvKept == CallInv => CallKept
BY DEF CallInv, Flags, Children, Kept, CallKept, GroupIsOurs, CancelLeavesNothing, SignalKept

(* A call only signals a group of its own, a run that is cancelled has     *)
(* reaped its child, and no status is returned after a signal: for any     *)
(* number of commands and signals.                                         *)
THEOREM CallIsKept == CallSpec => []CallKept
<1>1. CallInit => CallInv
  BY CallStarts DEF CallInit
<1> QED
  BY <1>1, StepCall, CallInvKept, PTL DEF CallSpec

-----------------------------------------------------------------------------
(* A row of a local CI run.  A step that did not do its work, or read what *)
(* is not its input, leaves a mark until the row is judged: in the access  *)
(* times of a withheld checkout, or as a failed qualification.             *)

Earned ==
  /\ \A i \in DOMAIN recipe : outcomes[i] \in {"passed", "condition-false"}
  /\ readers = {}
  /\ zone = "withheld" => changed = FALSE

RowTypes ==
  /\ rowpc \in {"off", "setup", "step", "look", "write", "return", "ended"}
  /\ job \in {"test", "native", "support", "host"}
  /\ recipe \in Seq(StepKind) /\ stepAt \in 1..Len(recipe) + 1
  /\ job = "host" => \A i \in DOMAIN recipe : recipe[i] # "restrict"
  /\ zone \in {"open", "half", "withheld", "watched"}
  /\ readSeen \in BOOLEAN /\ changed \in BOOLEAN /\ good \in BOOLEAN /\ qfail \in BOOLEAN
  /\ success \in BOOLEAN /\ raised \in BOOLEAN /\ rowSignalled \in BOOLEAN
  /\ outcomes \in [DOMAIN recipe -> {"none", "passed", "failed", "prior-step-failed", "condition-false"}]

(* What the steps have left.                                               *)
RowMarks ==
  /\ zone \in {"withheld", "watched"} => job # "host"
  /\ good = FALSE => qfail = TRUE
  /\ rowpc \in {"off", "setup"} => zone = "open"
  /\ rowpc = "look" => stepAt <= Len(recipe)
  /\ readers # {} => zone \in {"withheld", "watched"} /\ (qfail = TRUE \/ readSeen = TRUE)
  /\ \A i \in DOMAIN recipe :
       /\ i < stepAt \/ (i = stepAt /\ rowpc = "look") => qfail = TRUE \/ outcomes[i] \in {"passed", "condition-false"}
       /\ i > stepAt \/ (i = stepAt /\ rowpc \in {"off", "setup", "step"}) => outcomes[i] = "none"
       /\ outcomes[i] = "failed" /\ recipe[i] # "lenient" => good = FALSE

(* What the receipt says of it.                                            *)
RowJudged ==
  /\ rowpc \in {"off", "setup", "step", "look"} => success = FALSE /\ raised = FALSE
  /\ rowpc \in {"off", "setup", "step", "look", "write"} => receipt = NoReceipt
  /\ receipt = NoReceipt \/ \E s, q \in BOOLEAN : receipt = [success |-> s, qualified |-> q]
  /\ success = TRUE => Earned
  /\ receipt.success = TRUE => success = TRUE
  /\ receipt.qualified = TRUE => receipt.success = TRUE /\ zone = "withheld" /\ goal # "discover"
  /\ rowpc = "write" /\ success = TRUE /\ raised = TRUE => rowSignalled = TRUE
  /\ receipt.success = TRUE /\ raised = TRUE => rowSignalled = TRUE
  /\ rowpc = "return" /\ success = TRUE /\ raised = FALSE => receipt.success = TRUE
  /\ rowpc = "ended" /\ raised = FALSE => receipt.success = TRUE

RowInv == RowTypes /\ RowMarks /\ RowJudged /\ FailureStops

LEMMA RowStarts ==
  ASSUME NEW l \in {"off", "setup"}, RowRunAt(l, Recipes)
  PROVE  RowInv
<1>1. recipe \in Seq(StepKind) /\ Len(recipe) \in Nat /\ DOMAIN recipe = 1..Len(recipe)
  BY RecipesAssumption DEF RowRunAt
<1>2. RowTypes
  <2>1. /\ readSeen \in BOOLEAN /\ changed \in BOOLEAN /\ good \in BOOLEAN /\ qfail \in BOOLEAN
        /\ success \in BOOLEAN /\ raised \in BOOLEAN /\ rowSignalled \in BOOLEAN
    BY Zenon DEF RowRunAt
  <2>. QED
    BY <1>1, <2>1 DEF RowRunAt, RowTypes
<1>3. RowMarks
  BY <1>1 DEF RowRunAt, RowMarks
<1>4. RowJudged
  <2>1. NoReceipt.success = FALSE /\ NoReceipt.qualified = FALSE
    BY DEF NoReceipt
  <2>. QED
    BY <2>1 DEF RowRunAt, RowJudged
<1>5. FailureStops
  BY <1>1 DEF RowRunAt, FailureStops
<1>. QED
  BY <1>2, <1>3, <1>4, <1>5 DEF RowInv

(* Steps that end no step of the job: what is done stays done.             *)
LEMMA RowMovesOn ==
  ASSUME RowInv, UNCHANGED <<job, goal, recipe, stepAt, outcomes, good, qfail, readers, readSeen, changed>>,
         zone' \in {"withheld", "watched"} => job # "host",
         zone' = zone \/ readers = {},
         rowpc' \in {"step", "write", "return", "ended"},
         rowpc' = "step" => rowpc = "setup"
  PROVE  RowMarks' /\ FailureStops'
<1>1. RowMarks'
  BY DEF RowInv, RowMarks
<1>. QED
  BY <1>1 DEF RowInv, FailureStops, Discovers

LEMMA StepRow ==
  ASSUME RowInv, [RowRunNext]_rowrun
  PROVE  RowInv'
<1>. DEFINE frame == <<job, goal, recipe>>
<1>0. /\ recipe \in Seq(StepKind) /\ Len(recipe) \in Nat /\ DOMAIN recipe = 1..Len(recipe)
      /\ stepAt \in 1..Len(recipe) + 1
      /\ NoReceipt.success = FALSE /\ NoReceipt.qualified = FALSE
  BY DEF RowInv, RowTypes, NoReceipt
<1>1. ASSUME SetupRefused PROVE RowInv'
  <2>1. /\ rowpc = "setup" /\ rowpc' = "write" /\ raised' = TRUE
        /\ UNCHANGED <<job, goal, recipe, stepAt, zone, readSeen, changed, readers, outcomes, good, qfail, success, receipt, rowSignalled>>
    BY <1>1 DEF SetupRefused, Throws, checkout, rowReport
  <2>2. RowTypes'
    BY <2>1 DEF RowInv, RowTypes
  <2>3. RowMarks' /\ FailureStops'
    BY <2>1, RowMovesOn DEF RowInv, RowMarks
  <2>4. RowJudged'
    BY <2>1, <1>0 DEF RowInv, RowJudged, Earned
  <2>. QED
    BY <2>2, <2>3, <2>4 DEF RowInv
<1>2. ASSUME Setup PROVE RowInv'
  <2>1. /\ rowpc = "setup" /\ rowpc' \in {"step", "write"}
        /\ zone' \in {"withheld", "watched"} => job # "host"
        /\ zone' \in {"open", "half", "withheld", "watched"}
        /\ \/ raised' = TRUE /\ rowpc' = "write"
           \/ raised' = raised /\ rowpc' = "step"
        /\ UNCHANGED <<job, goal, recipe, stepAt, readSeen, changed, readers, outcomes, good, qfail, success, receipt, rowSignalled>>
    BY <1>2 DEF Setup, Throws, Restricts, rowReport, RowInv, RowTypes, RowMarks
  <2>2. readers = {}
    BY <2>1 DEF RowInv, RowMarks
  <2>3. RowTypes'
    BY <2>1 DEF RowInv, RowTypes
  <2>4. RowMarks' /\ FailureStops'
    BY <2>1, <2>2, RowMovesOn
  <2>5. RowJudged'
    BY <2>1, <1>0 DEF RowInv, RowJudged
  <2>. QED
    BY <2>3, <2>4, <2>5 DEF RowInv
<1>3. ASSUME StepSkips PROVE RowInv'
  <2>1. /\ rowpc = "step" /\ stepAt \in DOMAIN recipe /\ stepAt' = stepAt + 1
        /\ good = FALSE
        /\ outcomes' = [outcomes EXCEPT ![stepAt] = "prior-step-failed"]
        /\ UNCHANGED <<rowpc, job, goal, recipe, zone, readSeen, changed, readers, good, qfail, success, raised, receipt, rowSignalled>>
    BY <1>3, <1>0 DEF StepSkips, Step_, Runs, checkout, RowInv, RowTypes
  <2>2. /\ outcomes'[stepAt] = "prior-step-failed" /\ \A i \in DOMAIN recipe \ {stepAt} : outcomes'[i] = outcomes[i]
        /\ outcomes' \in [DOMAIN recipe -> {"none", "passed", "failed", "prior-step-failed", "condition-false"}]
    BY <2>1 DEF RowInv, RowTypes
  <2>3. RowTypes'
    BY <2>1, <2>2, <1>0 DEF RowInv, RowTypes
  <2>4. RowMarks'
    BY <2>1, <2>2, <1>0 DEF RowInv, RowMarks
  <2>5. FailureStops'
    BY <2>1, <2>2, <1>0 DEF RowInv, FailureStops, Discovers
  <2>6. RowJudged'
    BY <2>1, <1>0 DEF RowInv, RowJudged
  <2>. QED
    BY <2>3, <2>4, <2>5, <2>6 DEF RowInv
<1>4. ASSUME NotNeeded PROVE RowInv'
  <2>1. /\ rowpc = "step" /\ stepAt \in DOMAIN recipe /\ stepAt' = stepAt + 1
        /\ outcomes' = [outcomes EXCEPT ![stepAt] = "condition-false"]
        /\ UNCHANGED <<rowpc, job, goal, recipe, zone, readSeen, changed, readers, good, qfail, success, raised, receipt, rowSignalled>>
    BY <1>4, <1>0 DEF NotNeeded, Step_, checkout
  <2>2. /\ outcomes'[stepAt] = "condition-false" /\ \A i \in DOMAIN recipe \ {stepAt} : outcomes'[i] = outcomes[i]
        /\ outcomes' \in [DOMAIN recipe -> {"none", "passed", "failed", "prior-step-failed", "condition-false"}]
    BY <2>1 DEF RowInv, RowTypes
  <2>3. RowTypes'
    BY <2>1, <2>2, <1>0 DEF RowInv, RowTypes
  <2>4. RowMarks'
    BY <2>1, <2>2, <1>0 DEF RowInv, RowMarks
  <2>5. FailureStops'
    BY <2>1, <2>2, <1>0 DEF RowInv, FailureStops, Discovers
  <2>6. RowJudged'
    BY <2>1, <1>0 DEF RowInv, RowJudged
  <2>. QED
    BY <2>3, <2>4, <2>5, <2>6 DEF RowInv
<1>5. ASSUME RowExecutes PROVE RowInv'
  <2>1. PICK o \in {"passed", "failed"} :
          /\ Step_(o) /\ Executes(o)
          /\ qfail' = (qfail \/ o = "failed")
          /\ good' = (good /\ (o = "passed" \/ recipe[stepAt] = "lenient"))
    BY <1>5 DEF RowExecutes
  <2>2. /\ rowpc = "step" /\ stepAt \in DOMAIN recipe
        /\ \/ rowpc' = "look" /\ stepAt' = stepAt
           \/ rowpc' = "step" /\ stepAt' = stepAt + 1
        /\ goal = "discover" \/ good = TRUE \/ recipe[stepAt] = "always"
        /\ outcomes' = [outcomes EXCEPT ![stepAt] = o]
        /\ UNCHANGED <<job, goal, recipe, success, raised, receipt, rowSignalled>>
    BY <1>5, <2>1, <1>0 DEF RowExecutes, Step_, Runs, Discovers, Moves_, RowInv, RowTypes
  <2>3. /\ outcomes'[stepAt] = o /\ \A i \in DOMAIN recipe \ {stepAt} : outcomes'[i] = outcomes[i]
        /\ outcomes' \in [DOMAIN recipe -> {"none", "passed", "failed", "prior-step-failed", "condition-false"}]
    BY <2>2 DEF RowInv, RowTypes
  <2>4. /\ qfail' \in BOOLEAN /\ good' \in BOOLEAN
        /\ qfail = TRUE => qfail' = TRUE
        /\ o = "failed" => qfail' = TRUE
        /\ o = "failed" /\ recipe[stepAt] # "lenient" => good' = FALSE
        /\ good = FALSE => good' = FALSE
        /\ good' = FALSE => good = FALSE \/ o = "failed"
    BY <2>1 DEF RowInv, RowTypes
  <2>5. /\ zone' \in {"open", "half", "withheld", "watched"}
        /\ zone' \in {"withheld", "watched"} => job # "host"
        /\ readers' # {} => zone' \in {"withheld", "watched"} /\ (qfail = TRUE \/ readSeen' = TRUE)
        /\ readSeen' \in BOOLEAN /\ changed' \in BOOLEAN
    <3>1. CASE recipe[stepAt] = "restrict"
      BY <2>1, <2>2, <3>1 DEF Executes, RowInv, RowTypes, RowMarks
    <3>2. CASE recipe[stepAt] # "restrict"
      BY <2>1, <2>2, <3>2 DEF Executes, RowInv, RowTypes, RowMarks
    <3>. QED
      BY <3>1, <3>2
  <2>6. RowTypes'
    BY <2>2, <2>3, <2>4, <2>5, <1>0 DEF RowInv, RowTypes
  <2>7. RowMarks'
    <3>1. ASSUME NEW i \in DOMAIN recipe, i < stepAt' \/ (i = stepAt' /\ rowpc' = "look")
          PROVE  qfail' = TRUE \/ outcomes'[i] \in {"passed", "condition-false"}
      BY <2>1, <2>2, <2>3, <2>4, <3>1, <1>0 DEF RowInv, RowMarks
    <3>2. ASSUME NEW i \in DOMAIN recipe
          PROVE  /\ i > stepAt' \/ (i = stepAt' /\ rowpc' \in {"off", "setup", "step"}) => outcomes'[i] = "none"
                 /\ outcomes'[i] = "failed" /\ recipe[i] # "lenient" => good' = FALSE
      BY <2>1, <2>2, <2>3, <2>4, <1>0 DEF RowInv, RowMarks
    <3>3. /\ zone' \in {"withheld", "watched"} => job' # "host"
          /\ good' = FALSE => qfail' = TRUE
          /\ rowpc' \notin {"off", "setup"}
          /\ rowpc' = "look" => stepAt' <= Len(recipe')
          /\ recipe' = recipe
          /\ readers' # {} => zone' \in {"withheld", "watched"} /\ (qfail' = TRUE \/ readSeen' = TRUE)
      BY <2>2, <2>4, <2>5, <1>0 DEF RowInv, RowMarks
    <3>. QED
      BY <3>1, <3>2, <3>3 DEF RowMarks
  <2>8. FailureStops'
    <3>. SUFFICES ASSUME NEW i \in DOMAIN recipe, NEW j \in DOMAIN recipe, i < j, goal # "discover",
                         outcomes'[i] = "failed", recipe[i] # "lenient", outcomes'[j] \in {"passed", "failed"}
                  PROVE  recipe[j] = "always"
      BY <2>2 DEF FailureStops, Discovers
    <3>1. CASE j = stepAt
      BY <2>2, <2>3, <3>1, <1>0 DEF RowInv, RowMarks
    <3>2. CASE i = stepAt
      BY <2>2, <2>3, <3>2, <1>0 DEF RowInv, RowMarks
    <3>3. CASE i # stepAt /\ j # stepAt
      BY <2>2, <2>3, <3>3, <1>0 DEF RowInv, FailureStops, Discovers
    <3>. QED
      BY <3>1, <3>2, <3>3
  <2>9. RowJudged'
    BY <2>2, <1>0 DEF RowInv, RowJudged
  <2>. QED
    BY <2>6, <2>7, <2>8, <2>9 DEF RowInv
<1>6. ASSUME StepRefused PROVE RowInv'
  <2>1. /\ rowpc = "step" /\ rowpc' = "write" /\ raised' = TRUE
        /\ UNCHANGED <<job, goal, recipe, stepAt, zone, readSeen, changed, readers, outcomes, good, qfail, success, receipt, rowSignalled>>
    BY <1>6 DEF StepRefused, Throws, checkout, rowReport
  <2>2. RowTypes'
    BY <2>1 DEF RowInv, RowTypes
  <2>3. RowMarks' /\ FailureStops'
    BY <2>1, RowMovesOn DEF RowInv, RowMarks
  <2>4. RowJudged'
    BY <2>1, <1>0 DEF RowInv, RowJudged, Earned
  <2>. QED
    BY <2>2, <2>3, <2>4 DEF RowInv
<1>7. ASSUME RowLooks PROVE RowInv'
  <2>1. /\ rowpc = "look" /\ rowpc' = "step" /\ stepAt' = stepAt + 1
        /\ UNCHANGED <<job, goal, recipe, zone, changed, readers, outcomes, success, raised, receipt, rowSignalled>>
        /\ readSeen' = IF zone = "watched" THEN FALSE ELSE readSeen
        /\ \/ Problems /\ good' = FALSE /\ qfail' = TRUE
           \/ ~Problems /\ UNCHANGED <<good, qfail>>
    BY <1>7 DEF RowLooks
  <2>2. /\ stepAt \in DOMAIN recipe
        /\ qfail = TRUE => qfail' = TRUE
        /\ good' = FALSE => qfail' = TRUE
        /\ good = FALSE => good' = FALSE
    BY <2>1, <1>0 DEF RowInv, RowTypes, RowMarks
  <2>3. readSeen' \in BOOLEAN /\ good' \in BOOLEAN /\ qfail' \in BOOLEAN
    BY <2>1, Zenon DEF RowInv, RowTypes
  <2>4. RowTypes'
    <3>. HIDE <2>1
    <3>1. /\ rowpc' = "step" /\ stepAt' = stepAt + 1
          /\ UNCHANGED <<job, recipe, zone, changed, outcomes, success, raised, rowSignalled>>
      BY <2>1
    <3>. QED
      BY <3>1, <2>2, <2>3, <1>0 DEF RowInv, RowTypes
  <2>5. readers # {} => qfail' = TRUE \/ readSeen' = TRUE
    BY <2>1 DEF RowInv, RowMarks, RowTypes, Problems
  <2>6. RowMarks'
    BY <2>1, <2>2, <2>5, <1>0 DEF RowInv, RowMarks
  <2>7. FailureStops'
    BY <2>1 DEF RowInv, FailureStops, Discovers
  <2>8. RowJudged'
    BY <2>1, <1>0 DEF RowInv, RowJudged
  <2>. QED
    BY <2>4, <2>6, <2>7, <2>8 DEF RowInv
<1>8. ASSUME Checks PROVE RowInv'
  <2>1. /\ rowpc = "step" /\ rowpc' = "write" /\ stepAt > Len(recipe)
        /\ UNCHANGED <<job, goal, recipe, stepAt, zone, readSeen, changed, readers, outcomes, good, qfail, receipt, rowSignalled>>
        /\ \/ ~(job # "host" /\ Problems) /\ success' = (good /\ ~qfail) /\ raised' = raised
           \/ raised' = TRUE /\ success' = success
    BY <1>8 DEF Checks, Throws, checkout
  <2>2. success' \in BOOLEAN /\ raised' \in BOOLEAN
    BY <2>1 DEF RowInv, RowTypes
  <2>3. RowTypes'
    BY <2>1, <2>2 DEF RowInv, RowTypes
  <2>4. RowMarks' /\ FailureStops'
    BY <2>1, RowMovesOn DEF RowInv, RowMarks
  <2>5. ASSUME success' = TRUE PROVE Earned' /\ raised' = FALSE
    <3>1. ~(job # "host" /\ Problems) /\ qfail = FALSE /\ raised' = raised /\ success = FALSE /\ raised = FALSE
      BY <2>1, <2>5 DEF RowInv, RowTypes, RowJudged
    <3>2. \A i \in DOMAIN recipe : outcomes[i] \in {"passed", "condition-false"}
      BY <3>1, <2>1, <1>0 DEF RowInv, RowMarks
    <3>3. readers = {} /\ (zone = "withheld" => changed = FALSE)
      BY <3>1 DEF RowInv, RowMarks, RowTypes, Problems
    <3>. QED
      BY <3>1, <3>2, <3>3, <2>1 DEF Earned
  <2>6. RowJudged'
    BY <2>1, <2>5, <1>0 DEF RowInv, RowJudged
  <2>. QED
    BY <2>3, <2>4, <2>6 DEF RowInv
<1>9. ASSUME RowWrites PROVE RowInv'
  <2>1. /\ rowpc = "write" /\ rowpc' = "return"
        /\ UNCHANGED <<job, goal, recipe, stepAt, zone, readSeen, changed, readers, outcomes, good, qfail, rowSignalled>>
        /\ \/ receipt' = Written /\ success' = success /\ raised' = raised
           \/ success' = FALSE /\ receipt' = [success |-> FALSE, qualified |-> FALSE] /\ raised' = raised
           \/ success' = FALSE /\ receipt' = receipt /\ raised' = raised
           \/ raised' = TRUE /\ receipt' = receipt /\ success' = success
    BY <1>9 DEF RowWrites, checkout
  <2>2. RowTypes'
    <3>1. success' \in BOOLEAN /\ raised' \in BOOLEAN
      BY <2>1, Zenon DEF RowInv, RowTypes
    <3>. QED
      BY <2>1, <3>1 DEF RowInv, RowTypes
  <2>3. RowMarks' /\ FailureStops'
    BY <2>1, RowMovesOn DEF RowInv, RowMarks
  <2>4. receipt = NoReceipt
    BY <2>1 DEF RowInv, RowJudged
  <2>5. RowJudged'
    <3>1. CASE receipt' = Written /\ success' = success /\ raised' = raised
      <4>1. /\ \E s, q \in BOOLEAN : receipt' = [success |-> s, qualified |-> q]
            /\ receipt'.success = success
            /\ receipt'.qualified = TRUE => success = TRUE /\ zone = "withheld" /\ goal # "discover"
        BY <3>1 DEF Written, RowInv, RowTypes
      <4>. QED
        BY <3>1, <4>1, <2>1 DEF RowInv, RowJudged, RowTypes, Earned
    <3>2. CASE success' = FALSE /\ receipt' = [success |-> FALSE, qualified |-> FALSE] /\ raised' = raised
      BY <3>2, <2>1 DEF RowInv, RowJudged
    <3>3. CASE success' = FALSE /\ receipt' = receipt /\ raised' = raised
      BY <3>3, <2>1, <2>4, <1>0 DEF RowInv, RowJudged
    <3>4. CASE raised' = TRUE /\ receipt' = receipt /\ success' = success
      BY <3>4, <2>1, <2>4, <1>0 DEF RowInv, RowJudged, Earned
    <3>. QED
      BY <2>1, <3>1, <3>2, <3>3, <3>4
  <2>. QED
    BY <2>2, <2>3, <2>5 DEF RowInv
<1>10. ASSUME RowReturns PROVE RowInv'
  <2>1. /\ rowpc = "return" /\ rowpc' = "ended" /\ raised' = (raised \/ ~success)
        /\ UNCHANGED <<job, goal, recipe, stepAt, zone, readSeen, changed, readers, outcomes, good, qfail, success, receipt, rowSignalled>>
    BY <1>10 DEF RowReturns, checkout, rowReport
  <2>2. /\ raised' \in BOOLEAN
        /\ raised' = TRUE /\ success = TRUE => raised = TRUE
        /\ raised' = FALSE => raised = FALSE /\ success = TRUE
    BY <2>1 DEF RowInv, RowTypes
  <2>3. RowTypes'
    BY <2>1, <2>2 DEF RowInv, RowTypes
  <2>4. RowMarks' /\ FailureStops'
    BY <2>1, RowMovesOn DEF RowInv, RowMarks
  <2>5. RowJudged'
    BY <2>1, <2>2 DEF RowInv, RowJudged, Earned
  <2>. QED
    BY <2>3, <2>4, <2>5 DEF RowInv
<1>11. ASSUME Cancels \/ CancelsLate PROVE RowInv'
  <2>1. /\ rowpc \in {"setup", "step", "look", "write", "return"} /\ rowpc' \in {"write", "ended"}
        /\ rowpc' = "ended" => rowpc \in {"write", "return"}
        /\ raised' = TRUE /\ rowSignalled' = TRUE
        /\ UNCHANGED <<job, goal, recipe, stepAt, zone, readSeen, changed, readers, outcomes, good, qfail, success, receipt>>
        /\ rowpc' = "write" => rowpc # "return"
    BY <1>11 DEF Cancels, CancelsLate, checkout, rowReport, RowInv, RowTypes
  <2>2. RowTypes'
    BY <2>1 DEF RowInv, RowTypes
  <2>3. RowMarks' /\ FailureStops'
    BY <2>1, RowMovesOn DEF RowInv, RowMarks
  <2>4. RowJudged'
    BY <2>1, <1>0 DEF RowInv, RowJudged, Earned
  <2>. QED
    BY <2>2, <2>3, <2>4 DEF RowInv
<1>12. ASSUME UNCHANGED rowrun PROVE RowInv'
  BY <1>12
    DEF rowrun, checkout, rowReport, RowInv, RowTypes, RowMarks, RowJudged, Earned, FailureStops,
        Discovers
<1>. QED
  BY <1>1, <1>2, <1>3, <1>4, <1>5, <1>6, <1>7, <1>8, <1>9, <1>10, <1>11, <1>12 DEF RowRunNext, RowSteps

(* What a row that ended or wrote its receipt has done, is as the host     *)
(* takes it.                                                               *)
LEMMA RowInvKept ==
  ASSUME RowInv
  PROVE  RowKept
<1>1. SuccessIsEarned
  BY DEF RowInv, RowTypes, RowJudged, SuccessIsEarned, Earned
<1>2. QualifiedIsRestricted
  BY DEF RowInv, RowJudged, QualifiedIsRestricted, Discovers, NoReceipt
<1>3. StatusAgrees
  BY DEF RowInv, RowTypes, RowJudged, StatusAgrees
<1>. QED
  BY <1>1, <1>2, <1>3 DEF RowInv, RowKept

(* run_row of local-ci-steps.py: a receipt of success is earned, a         *)
(* qualified one is of a withheld checkout, the status agrees with it, and *)
(* a failure stops what does not ask for the status, whatever the recipes. *)
THEOREM RowIsJudged == RowRunSpec => []RowKept
<1>1. RowRunInit => RowInv
  BY RowStarts DEF RowRunInit
<1>2. RowInv /\ [RowRunNext]_rowrun => RowInv'
  BY StepRow
<1>3. RowInv => RowKept
  BY RowInvKept
<1>. QED
  BY <1>1, <1>2, <1>3, PTL DEF RowRunSpec

-----------------------------------------------------------------------------
(* A local CI run.  Only a row on top of the walk has a container of its   *)
(* own that is not done with, and what it sends belongs to no other row    *)
(* from the moment it is fetched.                                          *)

Serving == {"create", "fill", "run", "answer", "inspect", "fetch", "publish", "move", "remove"}
Walking == Serving \cup {"needs"}
Leaving == {"cleanup", "ended"}

(* The walk: rows that wait for a need, none of which is done; each one's  *)
(* needs before the one it looks at are, but for the next of the walk.     *)
WalkOK ==
  /\ dpc \in {"off", "next"} => path = <<>>
  /\ dpc \in Walking => path # <<>>
  /\ dpc \notin Leaving =>
       \A i \in DOMAIN path :
         /\ path[i].row \notin completed
         /\ \A j \in DOMAIN path : i # j => path[i].row # path[j].row
         /\ \A n \in needs[path[i].row] :
              n < path[i].next => n \in completed \/ (i + 1 \in DOMAIN path /\ n = path[i + 1].row)
  /\ dpc \in Serving => needs[Current] \subseteq completed

(* The requests: all before the next one are done but for the one at the   *)
(* bottom of the walk.                                                     *)
AskedOK ==
  /\ dpc \notin Leaving =>
       /\ runVerdict # "ok"
       /\ \A i \in DOMAIN asked :
            i < turn => asked[i] \in completed \/ (path # <<>> /\ i = turn - 1 /\ path[1].row = asked[i])
  /\ runVerdict = "ok" => \A i \in DOMAIN asked : asked[i] \in completed

(* The containers.                                                         *)
BoxOK(r) ==
  /\ box[r] # "none" => needs[r] \subseteq completed
  /\ r \in completed => box[r] = "removed" /\ remains[r].zero = TRUE /\ remains[r].receipt = "success"
  /\ box[r] # "none" /\ dpc \notin Leaving => r \in completed \/ (dpc \in Serving \ {"create"} /\ r = Current)
  /\ box[r] \in {"none", "created", "running"} => \A a \in Artifact : shared[a] # r
  /\ box[r] = "removed" => r \in kept /\ \A a \in remains[r].uploads : shared[a] = r
  /\ dpc = "ended" /\ BoxPresent(r) => retained = TRUE /\ runVerdict = "failed"

(* The export of the row on top.                                           *)
SendOK(r) ==
  /\ dpc \in {"create", "fill", "run", "answer", "inspect", "fetch", "publish"} => \A a \in Artifact : shared[a] # r
  /\ dpc \in {"fetch", "publish", "move"} => box[r] = "exited"
  /\ dpc = "remove" => box[r] = "removed"
  /\ dpc \in {"fetch", "publish", "move", "remove"} => (remains[r].zero = TRUE <=> runVerdict # "failed")
  /\ dpc \in {"publish", "move", "remove"} =>
       /\ remains[r].receipt = IF runVerdict # "failed" THEN "success" ELSE "failure"
       /\ remains[r].uploads \subseteq Declared[r]
       /\ \A a \in remains[r].uploads : accepted[a] = NoRow
  /\ dpc = "publish" => \A a \in remains[r].uploads : shared[a] = NoRow
  /\ dpc = "move" =>
       /\ r \in kept /\ moving \subseteq remains[r].uploads
       /\ \A a \in remains[r].uploads : shared[a] = IF a \in moving THEN NoRow ELSE r

(* The artifacts.                                                          *)
FileOK(a) ==
  /\ shared[a] # NoRow => a \in Declared[shared[a]] \cap remains[shared[a]].uploads
  /\ accepted[a] # NoRow => shared[a] = accepted[a] /\ accepted[a] \in completed
  /\ \A r \in completed : a \in remains[r].uploads => accepted[a] = r
  /\ imports[a] # NoRow => imports[a] \in needs[Current] /\ accepted[a] = imports[a]
  /\ dpc \in {"off", "next", "needs"} => imports[a] = NoRow

LocalInv ==
  /\ LocalRunOK
  /\ WalkOK
  /\ AskedOK
  /\ \A r \in Row : BoxOK(r)
  /\ dpc \in Serving => SendOK(Current)
  /\ \A a \in Artifact : FileOK(a)

LEMMA LocalStarts ==
  ASSUME NEW l \in {"off", "next"}, LocalRunAt(l, Workflows, Requests)
  PROVE  LocalInv
<1>1. needs \in [Row -> SUBSET Row] /\ asked \in Seq(Row) /\ Rows \in Nat /\ Len(asked) \in Nat
  BY RowsAssumption DEF LocalRunAt
<1>2. LocalRunOK
  <2>1. /\ accepted \in [Artifact -> Row \cup {NoRow}] /\ imports = accepted /\ shared = accepted
        /\ box \in [Row -> {"none", "created", "running", "exited", "removed"}]
        /\ remains \in [Row -> [zero : BOOLEAN, receipt : {"none", "success", "failure", "foreign"},
                             uploads : SUBSET Artifact]]
    BY DEF LocalRunAt, Nothing
  <2>2. retained \in BOOLEAN
    BY Zenon DEF LocalRunAt
  <2>. QED
    BY <1>1, <2>1, <2>2 DEF LocalRunAt, LocalRunOK
<1>3. WalkOK /\ AskedOK
  BY <1>1 DEF LocalRunAt, WalkOK, AskedOK, Serving, Walking, Leaving
<1>4. \A r \in Row : BoxOK(r)
  BY <1>1 DEF LocalRunAt, BoxOK, Row, NoRow, BoxPresent
<1>5. \A a \in Artifact : FileOK(a)
  BY <1>1 DEF LocalRunAt, FileOK, NoRow
<1>6. dpc \notin Serving
  BY DEF LocalRunAt, Serving
<1>. QED
  BY <1>2, <1>3, <1>4, <1>5, <1>6 DEF LocalInv

LEMMA TopOfWalk ==
  ASSUME LocalInv
  PROVE  /\ Rows \in Nat /\ NoRow \notin Row /\ Len(path) \in Nat /\ DOMAIN path = 1..Len(path)
         /\ \A i \in DOMAIN path : path[i].row \in Row /\ path[i].next \in 1..Rows + 1
         /\ dpc \in Walking => Len(path) \in DOMAIN path /\ Current \in Row /\ Current \notin completed
<1>1. /\ Rows \in Nat /\ NoRow \notin Row /\ Len(path) \in Nat /\ DOMAIN path = 1..Len(path)
      /\ \A i \in DOMAIN path : path[i].row \in Row /\ path[i].next \in 1..Rows + 1
  <2>. DEFINE Frames == [row : Row, next : 1..Rows + 1]
  <2>1. path \in Seq(Frames)
    BY DEF LocalInv, LocalRunOK
  <2>2. Len(path) \in Nat /\ DOMAIN path = 1..Len(path) /\ \A i \in DOMAIN path : path[i] \in Frames
    <3>. HIDE DEF Frames
    <3>. QED
      BY <2>1
  <2>3. Rows \in Nat /\ NoRow \notin Row
    BY RowsAssumption DEF Row, NoRow
  <2>. QED
    BY <2>2, <2>3
<1>2. ASSUME dpc \in Walking PROVE Len(path) \in DOMAIN path /\ Current \in Row /\ Current \notin completed
  <2>1. Len(path) \in DOMAIN path
    BY <1>1, <1>2 DEF LocalInv, LocalRunOK, WalkOK
  <2>. QED
    BY <1>1, <1>2, <2>1 DEF LocalInv, WalkOK, Current, Walking, Serving, Leaving
<1>. QED
  BY <1>1, <1>2

(* A step that ends the run changes nothing else.                          *)
LEMMA LocalFails ==
  ASSUME LocalInv, dpc \in Walking \cup {"next"}, RunFails,
         UNCHANGED <<needs, asked, turn, path, completed, accepted, box, remains, imports, moving, results, retained>>
  PROVE  LocalInv'
<1>. USE DEF RunFails, results
<1>1. LocalRunOK'
  BY DEF LocalInv, LocalRunOK
<1>2. WalkOK' /\ AskedOK'
  BY DEF LocalInv, WalkOK, AskedOK, Walking, Serving, Leaving
<1>3. \A r \in Row : BoxOK(r)'
  BY DEF LocalInv, BoxOK, Serving, Leaving, BoxPresent
<1>4. \A a \in Artifact : FileOK(a)'
  BY DEF LocalInv, FileOK, Current
<1>5. dpc' \notin Serving
  BY DEF Serving
<1>. QED
  BY <1>1, <1>2, <1>3, <1>4, <1>5 DEF LocalInv

(* A step of a served row that neither moves nor completes it: the walk,   *)
(* the requests and the artifacts are as they were.                        *)
LEMMA ServesOn ==
  ASSUME LocalInv, dpc \in Serving, dpc' \in Serving, runVerdict' \in {runVerdict, "failed"},
         UNCHANGED <<needs, asked, turn, path, completed, accepted, imports>>,
         \A a \in Artifact : shared'[a] # NoRow => a \in Declared[shared'[a]] \cap remains'[shared'[a]].uploads,
         \A a \in Artifact : accepted[a] # NoRow => shared'[a] = accepted[a],
         \A r \in completed : remains'[r].uploads = remains[r].uploads
  PROVE  /\ WalkOK' /\ AskedOK' /\ Current' = Current
         /\ \A a \in Artifact : FileOK(a)'
<1>1. WalkOK' /\ AskedOK' /\ Current' = Current
  BY DEF LocalInv, WalkOK, AskedOK, Walking, Serving, Leaving, Current
<1>2. \A a \in Artifact : FileOK(a)'
  BY <1>1 DEF LocalInv, FileOK, Serving
<1>. QED
  BY <1>1, <1>2

LEMMA StepWalk ==
  ASSUME LocalInv, NextAsked \/ AskedDone \/ Visits \/ RowRefused \/ Dispatches
  PROVE  LocalInv'
<1>0. /\ Rows \in Nat /\ NoRow \notin Row /\ Len(path) \in Nat /\ DOMAIN path = 1..Len(path)
      /\ \A i \in DOMAIN path : path[i].row \in Row /\ path[i].next \in 1..Rows + 1
      /\ asked \in Seq(Row) /\ turn \in 1..Len(asked) + 1 /\ Len(asked) \in Nat /\ DOMAIN asked = 1..Len(asked)
      /\ needs \in [Row -> SUBSET Row]
  BY TopOfWalk DEF LocalInv, LocalRunOK
<1>. DEFINE Frames == [row : Row, next : 1..Rows + 1]
<1>p. path \in Seq(Frames)
  BY DEF LocalInv, LocalRunOK
<1>1. ASSUME NextAsked PROVE LocalInv'
  <2>1. /\ dpc = "next" /\ path = <<>> /\ turn <= Len(asked) /\ turn' = turn + 1
        /\ UNCHANGED <<needs, asked, completed, accepted, box, remains, imports, moving, kept, shared, runVerdict, retained>>
    BY <1>1 DEF NextAsked, results, LocalInv, WalkOK
  <2>2. dpc' \in {"next", "needs"} /\ (dpc' = "next" => asked[turn] \in completed /\ path' = <<>>)
    BY <1>1, <2>1 DEF NextAsked
  <2>3. ASSUME dpc' = "needs"
        PROVE  /\ path' = <<[row |-> asked[turn], next |-> 1]>> /\ asked[turn] \in Row \ completed
               /\ path'[1] = [row |-> asked[turn], next |-> 1] /\ DOMAIN path' = {1} /\ Len(path') = 1
    BY <1>1, <2>1, <2>3, <1>0 DEF NextAsked, Begin
  <2>4. LocalRunOK'
    <3>1. path' \in Seq(Frames)
      <4>1. CASE dpc' = "next"
        BY <2>2, <4>1
      <4>2. CASE dpc' = "needs"
        <5>. DEFINE start1 == [row |-> asked[turn], next |-> 1]
        <5>1. start1 \in Frames /\ path' = <<start1>>
          BY <2>3, <4>2, <1>0
        <5>. HIDE DEF Frames, start1
        <5>. QED
          BY <5>1
      <4>. QED
        BY <2>2, <4>1, <4>2
    <3>. QED
      BY <2>1, <2>2, <3>1, <1>0 DEF LocalInv, LocalRunOK
  <2>5. WalkOK'
    BY <2>1, <2>2, <2>3, <1>0 DEF LocalInv, WalkOK, Walking, Serving, Leaving
  <2>6. AskedOK'
    BY <2>1, <2>2, <2>3, <1>0 DEF LocalInv, AskedOK, Leaving
  <2>7. \A r \in Row : BoxOK(r)'
    BY <2>1, <2>2 DEF LocalInv, BoxOK, Serving, Leaving, BoxPresent
  <2>8. \A a \in Artifact : FileOK(a)'
    BY <2>1, <2>2 DEF LocalInv, FileOK
  <2>9. dpc' \notin Serving
    BY <2>2 DEF Serving
  <2>. QED
    BY <2>4, <2>5, <2>6, <2>7, <2>8, <2>9 DEF LocalInv
<1>2. ASSUME AskedDone PROVE LocalInv'
  <2>1. /\ dpc = "next" /\ path = <<>> /\ turn > Len(asked) /\ dpc' = "cleanup" /\ runVerdict' = "ok"
        /\ UNCHANGED <<needs, asked, turn, path, completed, accepted, box, remains, imports, moving, kept, shared, retained>>
    BY <1>2 DEF AskedDone, results, LocalInv, WalkOK
  <2>4. LocalRunOK'
    BY <2>1 DEF LocalInv, LocalRunOK
  <2>5. WalkOK'
    BY <2>1 DEF LocalInv, WalkOK, Walking, Serving, Leaving
  <2>6. AskedOK'
    BY <2>1, <1>0 DEF LocalInv, AskedOK, Leaving
  <2>7. \A r \in Row : BoxOK(r)'
    BY <2>1 DEF LocalInv, BoxOK, Serving, Leaving, BoxPresent
  <2>8. \A a \in Artifact : FileOK(a)'
    BY <2>1 DEF LocalInv, FileOK
  <2>9. dpc' \notin Serving
    BY <2>1 DEF Serving
  <2>. QED
    BY <2>4, <2>5, <2>6, <2>7, <2>8, <2>9 DEF LocalInv
<1>3. ASSUME Visits PROVE LocalInv'
  <2>. DEFINE top == path[Len(path)]
              past == [path EXCEPT ![Len(path)].next = @ + 1]
              pushed == [row |-> top.next, next |-> 1]
  <2>1. /\ dpc = "needs" /\ top.next <= Rows
        /\ UNCHANGED <<needs, asked, turn, completed, accepted, box, remains, imports, moving, kept, shared, retained>>
        /\ \/ /\ top.next \notin needs[top.row] \/ top.next \in completed
              /\ path' = past /\ UNCHANGED <<dpc, runVerdict>>
           \/ RunFails /\ UNCHANGED path
           \/ /\ top.next \in needs[top.row] /\ top.next \notin completed /\ top.next \notin Visiting
              /\ path' = Append(past, pushed) /\ UNCHANGED <<dpc, runVerdict>>
    BY <1>3 DEF Visits, results
  <2>2. /\ Len(path) \in DOMAIN path /\ top.row \in Row /\ top.next \in 1..Rows /\ top.row \notin completed
        /\ top \in Frames /\ Len(path) >= 1
    <3>1. Len(path) \in DOMAIN path /\ top.row \in Row \ completed
      BY <2>1, TopOfWalk DEF Walking, Current
    <3>2. top \in Frames
      <4>. HIDE DEF Frames
      <4>. QED
        BY <3>1, <1>p
    <3>. QED
      BY <3>1, <3>2, <2>1, <1>0
  <2>3. /\ past \in Seq(Frames) /\ Len(past) = Len(path) /\ DOMAIN past = DOMAIN path
        /\ past[Len(path)].row = top.row /\ past[Len(path)].next = top.next + 1
        /\ \A i \in DOMAIN path : i # Len(path) => past[i] = path[i]
        /\ \A i \in DOMAIN path : past[i].row = path[i].row
    <3>. DEFINE more == [top EXCEPT !.next = @ + 1]
    <3>1. past = [path EXCEPT ![Len(path)] = more]
      OBVIOUS
    <3>2. more \in Frames /\ more.row = top.row /\ more.next = top.next + 1
      BY <2>2, <1>0
    <3>3. past \in Seq(Frames) /\ Len(past) = Len(path) /\ past[Len(path)] = more
          /\ DOMAIN past = DOMAIN path /\ \A i \in DOMAIN path : i # Len(path) => past[i] = path[i]
      <4>. HIDE DEF more, past, Frames
      <4>. QED
        BY <3>1, <3>2, <2>2, <1>0, <1>p
    <3>. QED
      BY <3>2, <3>3
  <2>. HIDE DEF past
  <2>4. ASSUME RunFails, UNCHANGED path PROVE LocalInv'
    BY <2>1, <2>4, LocalFails DEF Walking, results
  <2>5. ASSUME top.next \notin needs[top.row] \/ top.next \in completed, path' = past, UNCHANGED <<dpc, runVerdict>>
        PROVE  LocalInv'
    <3>1. LocalRunOK'
      BY <2>1, <2>3, <2>5 DEF LocalInv, LocalRunOK
    <3>2. WalkOK'
      <4>1. ASSUME NEW i \in DOMAIN path, NEW n \in needs[path[i].row], n < past[i].next
            PROVE  n \in completed \/ (i + 1 \in DOMAIN path /\ n = path[i + 1].row)
        <5>1. CASE i = Len(path)
          <6>1. n < top.next + 1 /\ n \in Row /\ n \in needs[top.row]
            BY <4>1, <5>1, <2>2, <2>3, <1>0
          <6>2. n = top.next \/ n < top.next
            BY <6>1, <2>2, <1>0 DEF Row
          <6>. QED
            BY <6>1, <6>2, <2>5, <2>1, <5>1, <1>0 DEF LocalInv, WalkOK, Leaving
        <5>2. CASE i # Len(path)
          BY <4>1, <5>2, <2>1, <2>3 DEF LocalInv, WalkOK, Leaving
        <5>. QED
          BY <5>1, <5>2
      <4>2. past # <<>>
        BY <2>2, <2>3
      <4>3. \A i \in DOMAIN path :
              /\ past[i].row \notin completed
              /\ \A j \in DOMAIN path : i # j => past[i].row # past[j].row
        BY <2>1, <2>3 DEF LocalInv, WalkOK, Leaving
      <4>4. \A i \in DOMAIN past : \A n \in needs[past[i].row] :
              n < past[i].next => n \in completed \/ (i + 1 \in DOMAIN past /\ n = past[i + 1].row)
        BY <2>3, <4>1
      <4>. QED
        BY <2>1, <2>3, <2>5, <4>2, <4>3, <4>4 DEF WalkOK, Walking, Serving, Leaving
    <3>3. AskedOK'
      <4>1. path # <<>> /\ past # <<>> /\ past[1].row = path[1].row
        <5>1. 1 \in DOMAIN path
          BY <2>2, <1>0
        <5>2. path # <<>>
          BY <2>1 DEF LocalInv, WalkOK, Walking
        <5>3. past # <<>>
          BY <2>2, <2>3
        <5>4. past[1].row = path[1].row
          BY <5>1, <2>3
        <5>. QED
          BY <5>2, <5>3, <5>4
      <4>. QED
        BY <2>1, <2>5, <4>1 DEF LocalInv, AskedOK, Leaving
    <3>4. \A r \in Row : BoxOK(r)'
      BY <2>1, <2>5 DEF LocalInv, BoxOK, Serving, Leaving, BoxPresent
    <3>5. \A a \in Artifact : FileOK(a)'
      BY <2>1, <2>5 DEF LocalInv, FileOK
    <3>6. dpc' \notin Serving
      BY <2>1, <2>5 DEF Serving
    <3>. QED
      BY <3>1, <3>2, <3>3, <3>4, <3>5, <3>6 DEF LocalInv
  <2>6. ASSUME top.next \in needs[top.row], top.next \notin completed, top.next \notin Visiting,
               path' = Append(past, pushed), UNCHANGED <<dpc, runVerdict>>
        PROVE  LocalInv'
    <3>0. pushed \in Frames /\ pushed.row = top.next /\ pushed.next = 1
      BY <2>2, <1>0 DEF Row
    <3>1. /\ path' \in Seq(Frames) /\ DOMAIN path' = 1..Len(path) + 1 /\ Len(path') = Len(path) + 1
          /\ path'[Len(path) + 1] = pushed /\ \A i \in DOMAIN path : path'[i] = past[i]
      <4>. HIDE DEF pushed, Frames
      <4>. QED
        BY <3>0, <2>3, <2>6, <1>0
    <3>. HIDE DEF pushed
    <3>2. LocalRunOK'
      BY <2>1, <3>1, <2>6 DEF LocalInv, LocalRunOK
    <3>3. \A i \in DOMAIN path : path[i].row # top.next
      BY <2>6 DEF Visiting
    <3>4. WalkOK'
      <4>1. \A i \in DOMAIN path' : i \in DOMAIN path \/ i = Len(path) + 1
        BY <3>1, <1>0
      <4>2. ASSUME NEW i \in DOMAIN path'
            PROVE  /\ path'[i].row \notin completed
                   /\ \A j \in DOMAIN path' : i # j => path'[i].row # path'[j].row
                   /\ \A n \in needs[path'[i].row] :
                        n < path'[i].next => n \in completed \/ (i + 1 \in DOMAIN path' /\ n = path'[i + 1].row)
        <5>1. CASE i = Len(path) + 1
          <6>1. \A n \in needs[top.next] : ~(n < 1)
            BY <2>2, <1>0 DEF Row
          <6>. QED
            BY <5>1, <6>1, <4>1, <3>0, <3>1, <3>3, <2>3, <2>6
        <5>2. CASE i \in DOMAIN path
          <6>1. path'[i].row = path[i].row /\ path'[i] = past[i]
            BY <5>2, <3>1, <2>3
          <6>2. path'[i].row \notin completed
            BY <6>1, <5>2, <2>1 DEF LocalInv, WalkOK, Leaving
          <6>3. ASSUME NEW j \in DOMAIN path', i # j PROVE path'[i].row # path'[j].row
            <7>1. CASE j \in DOMAIN path
              BY <7>1, <6>1, <6>3, <5>2, <3>1, <2>3, <2>1 DEF LocalInv, WalkOK, Leaving
            <7>2. CASE j = Len(path) + 1
              BY <7>2, <6>1, <5>2, <3>0, <3>1, <3>3
            <7>. QED
              BY <7>1, <7>2, <4>1
          <6>4. ASSUME NEW n \in needs[path'[i].row], n < path'[i].next
                PROVE  n \in completed \/ (i + 1 \in DOMAIN path' /\ n = path'[i + 1].row)
            <7>1. CASE i # Len(path)
              <8>1. i + 1 \in DOMAIN path /\ i + 1 \in DOMAIN path' /\ path'[i + 1].row = path[i + 1].row
                BY <7>1, <5>2, <1>0, <3>1, <2>3
              <8>. QED
                BY <7>1, <8>1, <6>1, <6>4, <5>2, <2>3, <2>1 DEF LocalInv, WalkOK, Leaving
            <7>2. CASE i = Len(path)
              <8>1. n < top.next + 1 /\ n \in Row /\ n \in needs[top.row]
                BY <6>1, <6>4, <7>2, <2>2, <2>3, <1>0
              <8>2. n = top.next \/ n < top.next
                BY <8>1, <2>2, <1>0 DEF Row
              <8>3. ASSUME n = top.next PROVE i + 1 \in DOMAIN path' /\ n = path'[i + 1].row
                BY <8>3, <7>2, <3>0, <3>1, <1>0
              <8>4. ASSUME n < top.next PROVE n \in completed
                BY <8>1, <8>4, <7>2, <2>2, <2>1, <1>0 DEF LocalInv, WalkOK, Leaving
              <8>. QED
                BY <8>2, <8>3, <8>4
            <7>. QED
              BY <7>1, <7>2
          <6>. QED
            BY <6>2, <6>3, <6>4
        <5>. QED
          BY <4>1, <5>1, <5>2
      <4>3. path' # <<>>
        BY <3>1, <1>0
      <4>. QED
        BY <2>1, <2>6, <4>2, <4>3 DEF WalkOK, Walking, Serving, Leaving
    <3>5. AskedOK'
      <4>1. path # <<>> /\ path' # <<>> /\ path'[1].row = path[1].row
        <5>1. 1 \in DOMAIN path /\ 1 \in DOMAIN path'
          BY <2>2, <1>0, <3>1
        <5>2. path # <<>>
          BY <2>1 DEF LocalInv, WalkOK, Walking
        <5>3. path' # <<>>
          BY <5>1, <3>1, <1>0
        <5>4. path'[1].row = path[1].row
          BY <5>1, <2>3, <3>1
        <5>. QED
          BY <5>2, <5>3, <5>4
      <4>. QED
        BY <2>1, <2>6, <4>1 DEF LocalInv, AskedOK, Leaving
    <3>6. \A r \in Row : BoxOK(r)'
      BY <2>1, <2>6 DEF LocalInv, BoxOK, Serving, Leaving, BoxPresent
    <3>7. \A a \in Artifact : FileOK(a)'
      BY <2>1, <2>6 DEF LocalInv, FileOK
    <3>8. dpc' \notin Serving
      BY <2>1, <2>6 DEF Serving
    <3>. QED
      BY <3>2, <3>4, <3>5, <3>6, <3>7, <3>8 DEF LocalInv
  <2>. QED
    BY <2>1, <2>4, <2>5, <2>6
<1>4. ASSUME RowRefused PROVE LocalInv'
  BY <1>4, LocalFails DEF RowRefused, Walking
<1>5. ASSUME Dispatches PROVE LocalInv'
  <2>1. /\ dpc = "needs" /\ path[Len(path)].next > Rows /\ dpc' = "create"
        /\ imports' = [a \in Artifact |-> IF accepted[a] \in needs[Current] THEN accepted[a] ELSE NoRow]
        /\ UNCHANGED <<needs, asked, turn, path, completed, accepted, box, remains, moving, kept, shared, runVerdict, retained>>
        /\ Current' = Current
    BY <1>5 DEF Dispatches, results, Current
  <2>2. Len(path) \in DOMAIN path /\ Current \in Row \ completed
    BY <2>1, TopOfWalk DEF Walking
  <2>3. needs[Current] \subseteq completed
    <3>1. \A n \in needs[Current] : n \in 1..Rows
      BY <2>2, <1>0 DEF Row
    <3>2. path[Len(path)].next \in 1..Rows + 1
      BY <2>2, <1>0
    <3>3. \A n \in needs[Current] : n < path[Len(path)].next
      BY <3>1, <3>2, <2>1, <1>0
    <3>. QED
      BY <3>3, <2>1, <2>2, <1>0 DEF LocalInv, WalkOK, Leaving, Current
  <2>4. LocalRunOK'
    BY <2>1 DEF LocalInv, LocalRunOK
  <2>5. WalkOK' /\ AskedOK'
    BY <2>1, <2>3 DEF LocalInv, WalkOK, AskedOK, Walking, Serving, Leaving
  <2>6. \A r \in Row : BoxOK(r)'
    BY <2>1 DEF LocalInv, BoxOK, Serving, Leaving, BoxPresent
  <2>7. SendOK(Current)'
    BY <2>1, <2>2 DEF LocalInv, BoxOK, SendOK, Serving, Leaving
  <2>8. \A a \in Artifact : FileOK(a)'
    BY <2>1 DEF LocalInv, FileOK
  <2>. QED
    BY <2>4, <2>5, <2>6, <2>7, <2>8 DEF LocalInv
<1>. QED
  BY <1>1, <1>2, <1>3, <1>4, <1>5

(* The container of the row on top, until its uploads are to be moved.     *)
LEMMA StepServes ==
  ASSUME LocalInv, Creates \/ Fills \/ AwaitsBox \/ Answers \/ Inspects \/ Fetches \/ Publishes
  PROVE  LocalInv'
<1>0. /\ dpc \in Serving /\ Current \in Row \ completed /\ NoRow \notin Row /\ SendOK(Current)
      /\ box \in [Row -> {"none", "created", "running", "exited", "removed"}]
      /\ remains \in [Row -> [zero : BOOLEAN, receipt : {"none", "success", "failure", "foreign"},
                           uploads : SUBSET Artifact]]
  <2>1. dpc \in Serving
    BY DEF Creates, Fills, AwaitsBox, Answers, Inspects, Fetches, Publishes, Serving
  <2>. QED
    BY <2>1, TopOfWalk DEF LocalInv, LocalRunOK, Walking
<1>1. ASSUME Creates \/ Fills PROVE LocalInv'
  <2>1. /\ dpc \in {"create", "fill"} /\ dpc' \in {"fill", "run", "answer"}
        /\ UNCHANGED <<needs, asked, turn, path, completed, accepted, remains, imports, moving, kept, shared, runVerdict, retained>>
        /\ \/ box' = [box EXCEPT ![Current] = "created"]
           \/ box' = [box EXCEPT ![Current] = "running"]
           \/ box' = box
    BY <1>1 DEF Creates, Fills, results
  <2>2. /\ box' \in [Row -> {"none", "created", "running", "exited", "removed"}]
        /\ box'[Current] \in {box[Current], "created", "running"}
        /\ \A r \in Row : r # Current => box'[r] = box[r]
    BY <2>1, <1>0
  <2>3. LocalRunOK'
    BY <2>1, <2>2 DEF LocalInv, LocalRunOK
  <2>4. WalkOK' /\ AskedOK' /\ Current' = Current /\ (\A a \in Artifact : FileOK(a)') /\ dpc' \in Serving
    <3>1. dpc' \in Serving
      BY <2>1 DEF Serving
    <3>. QED
      BY <3>1, <2>1, <1>0, ServesOn DEF LocalInv, FileOK
  <2>5. \A a \in Artifact : shared[a] # Current
    BY <2>1, <1>0 DEF SendOK
  <2>6. needs[Current] \subseteq completed
    BY <1>0 DEF LocalInv, WalkOK
  <2>7. \A r \in Row : BoxOK(r)'
    <3>. SUFFICES ASSUME NEW r \in Row PROVE BoxOK(r)'
      OBVIOUS
    <3>1. CASE r = Current
      BY <3>1, <2>1, <2>2, <2>4, <2>5, <2>6, <1>0 DEF LocalInv, BoxOK, Serving
    <3>2. CASE r # Current
      BY <3>2, <2>1, <2>2, <1>0 DEF LocalInv, BoxOK, Serving, Leaving
    <3>. QED
      BY <3>1, <3>2
  <2>8. SendOK(Current)'
    BY <2>1, <2>4, <2>5 DEF SendOK
  <2>. QED
    BY <2>3, <2>4, <2>7, <2>8 DEF LocalInv
<1>2. ASSUME AwaitsBox PROVE LocalInv'
  <2>1. /\ dpc = "run" /\ dpc' = "answer"
        /\ UNCHANGED <<needs, asked, turn, path, completed, accepted, imports, moving, kept, shared, runVerdict, retained>>
        /\ \/ box' = box /\ remains' = remains
           \/ /\ box[Current] = "running" /\ box' = [box EXCEPT ![Current] = "exited"]
              /\ \E mark \in {"none", "failure"}, uploads \in SUBSET Artifact :
                   remains' = [remains EXCEPT ![Current] = [zero |-> FALSE, receipt |-> mark, uploads |-> uploads]]
    BY <1>2 DEF AwaitsBox, results
  <2>2. /\ box' \in [Row -> {"none", "created", "running", "exited", "removed"}]
        /\ remains' \in [Row -> [zero : BOOLEAN, receipt : {"none", "success", "failure", "foreign"},
                              uploads : SUBSET Artifact]]
        /\ \/ box'[Current] = box[Current] /\ remains'[Current] = remains[Current]
           \/ box[Current] = "running" /\ box'[Current] = "exited"
        /\ \A r \in Row : r # Current => box'[r] = box[r] /\ remains'[r] = remains[r]
    <3>1. CASE box' = box /\ remains' = remains
      BY <3>1, <1>0
    <3>2. CASE box' # box \/ remains' # remains
      <4>1. PICK mark \in {"none", "failure"}, uploads \in SUBSET Artifact :
              /\ box[Current] = "running" /\ box' = [box EXCEPT ![Current] = "exited"]
              /\ remains' = [remains EXCEPT ![Current] = [zero |-> FALSE, receipt |-> mark, uploads |-> uploads]]
        BY <3>2, <2>1
      <4>2. [zero |-> FALSE, receipt |-> mark, uploads |-> uploads]
              \in [zero : BOOLEAN, receipt : {"none", "success", "failure", "foreign"}, uploads : SUBSET Artifact]
        OBVIOUS
      <4>. QED
        BY <4>1, <4>2, <1>0
    <3>. QED
      BY <3>1, <3>2
  <2>3. LocalRunOK'
    BY <2>1, <2>2 DEF LocalInv, LocalRunOK
  <2>5. \A a \in Artifact : shared[a] # Current
    BY <2>1, <1>0 DEF SendOK
  <2>4. WalkOK' /\ AskedOK' /\ Current' = Current /\ (\A a \in Artifact : FileOK(a)') /\ dpc' \in Serving
    <3>1. dpc' \in Serving
      BY <2>1 DEF Serving
    <3>2. \A a \in Artifact : shared'[a] # NoRow => a \in Declared[shared'[a]] \cap remains'[shared'[a]].uploads
      <4>1. \A a \in Artifact : shared[a] \in Row \cup {NoRow}
        BY DEF LocalInv, LocalRunOK
      <4>. QED
        BY <4>1, <2>1, <2>2, <2>5 DEF LocalInv, FileOK
    <3>3. \A r \in completed : remains'[r].uploads = remains[r].uploads
      BY <2>2, <1>0 DEF LocalInv, LocalRunOK
    <3>. QED
      BY <3>1, <3>2, <3>3, <2>1, <1>0, ServesOn DEF LocalInv, FileOK
  <2>6. needs[Current] \subseteq completed
    BY <1>0 DEF LocalInv, WalkOK
  <2>7. \A r \in Row : BoxOK(r)'
    <3>. SUFFICES ASSUME NEW r \in Row PROVE BoxOK(r)'
      OBVIOUS
    <3>1. CASE r = Current
      BY <3>1, <2>1, <2>2, <2>4, <2>5, <2>6, <1>0 DEF LocalInv, BoxOK, Serving
    <3>2. CASE r # Current
      BY <3>2, <2>1, <2>2, <1>0 DEF LocalInv, BoxOK, Serving, Leaving
    <3>. QED
      BY <3>1, <3>2
  <2>8. SendOK(Current)'
    BY <2>1, <2>4, <2>5 DEF SendOK
  <2>. QED
    BY <2>3, <2>4, <2>7, <2>8 DEF LocalInv
<1>3. ASSUME Answers \/ Inspects \/ Fetches, dpc' # "cleanup" PROVE LocalInv'
  <2>1. /\ UNCHANGED <<needs, asked, turn, path, completed, accepted, box, remains, imports, moving, kept, shared, retained>>
        /\ \/ dpc = "answer" /\ dpc' = "inspect" /\ runVerdict' \in {runVerdict, "failed"}
           \/ /\ dpc = "inspect" /\ dpc' = "fetch" /\ runVerdict' = runVerdict
              /\ box[Current] = "exited" /\ (remains[Current].zero <=> Passes)
           \/ /\ dpc = "fetch" /\ dpc' = "publish" /\ runVerdict' = runVerdict
              /\ Genuine(Current) /\ remains[Current].uploads \subseteq Declared[Current]
              /\ \A a \in remains[Current].uploads : Fresh(a)
    BY <1>3 DEF Answers, Inspects, Fetches, RunFails, results
  <2>3. LocalRunOK'
    BY <2>1 DEF LocalInv, LocalRunOK
  <2>4. WalkOK' /\ AskedOK' /\ Current' = Current /\ (\A a \in Artifact : FileOK(a)') /\ dpc' \in Serving
    <3>1. dpc' \in Serving
      BY <2>1 DEF Serving
    <3>. QED
      BY <3>1, <2>1, <1>0, ServesOn DEF LocalInv, FileOK
  <2>7. \A r \in Row : BoxOK(r)'
    BY <2>1, <2>4, <1>0 DEF LocalInv, BoxOK, Serving, Leaving
  <2>8. SendOK(Current)'
    <3>1. remains[Current].zero \in BOOLEAN
      BY <1>0
    <3>. QED
      BY <3>1, <2>1, <2>4, <1>0 DEF SendOK, Passes, Genuine, Fresh
  <2>. QED
    BY <2>3, <2>4, <2>7, <2>8 DEF LocalInv
<1>4. ASSUME Publishes, dpc' # "cleanup" PROVE LocalInv'
  <2>1. /\ dpc = "publish" /\ dpc' = "move" /\ kept' = kept \cup {Current} /\ moving' = remains[Current].uploads
        /\ UNCHANGED <<needs, asked, turn, path, completed, accepted, box, remains, imports, shared, runVerdict, retained>>
    BY <1>4 DEF Publishes, RunFails
  <2>3. LocalRunOK'
    BY <2>1, <1>0 DEF LocalInv, LocalRunOK
  <2>4. WalkOK' /\ AskedOK' /\ Current' = Current /\ (\A a \in Artifact : FileOK(a)') /\ dpc' \in Serving
    <3>1. dpc' \in Serving
      BY <2>1 DEF Serving
    <3>. QED
      BY <3>1, <2>1, <1>0, ServesOn DEF LocalInv, FileOK
  <2>7. \A r \in Row : BoxOK(r)'
    BY <2>1, <2>4, <1>0 DEF LocalInv, BoxOK, Serving, Leaving
  <2>8. SendOK(Current)'
    BY <2>1, <2>4, <1>0 DEF SendOK
  <2>. QED
    BY <2>3, <2>4, <2>7, <2>8 DEF LocalInv
<1>5. ASSUME Answers \/ Inspects \/ Fetches \/ Publishes, dpc' = "cleanup" PROVE LocalInv'
  <2>1. RunFails /\ UNCHANGED <<needs, asked, turn, path, completed, accepted, box, remains, imports, moving, results, retained>>
    BY <1>5 DEF Answers, Inspects, Fetches, Publishes, RunFails, results
  <2>. QED
    BY <2>1, <1>0, LocalFails DEF Walking
<1>. QED
  BY <1>1, <1>2, <1>3, <1>4, <1>5

(* The uploads are moved, the container goes and the row is done.          *)
LEMMA StepSends ==
  ASSUME LocalInv, Moves \/ Removes \/ RowCompletes
  PROVE  LocalInv'
<1>0. /\ dpc \in Serving /\ Current \in Row \ completed /\ NoRow \notin Row /\ SendOK(Current)
      /\ box \in [Row -> {"none", "created", "running", "exited", "removed"}]
      /\ remains \in [Row -> [zero : BOOLEAN, receipt : {"none", "success", "failure", "foreign"},
                           uploads : SUBSET Artifact]]
      /\ shared \in [Artifact -> Row \cup {NoRow}] /\ accepted \in [Artifact -> Row \cup {NoRow}]
  <2>1. dpc \in Serving
    BY DEF Moves, Removes, RowCompletes, Serving
  <2>. QED
    BY <2>1, TopOfWalk DEF LocalInv, LocalRunOK, Walking
<1>1. ASSUME Moves, dpc' # "cleanup" PROVE LocalInv'
  <2>1. PICK a \in moving :
          /\ dpc = "move" /\ shared' = [shared EXCEPT ![a] = Current] /\ moving' = moving \ {a}
          /\ UNCHANGED <<dpc, needs, asked, turn, path, completed, accepted, box, remains, imports, kept, runVerdict, retained>>
    BY <1>1 DEF Moves, RunFails
  <2>2. /\ a \in Artifact /\ a \in remains[Current].uploads /\ shared[a] = NoRow /\ accepted[a] = NoRow
        /\ a \in Declared[Current] /\ box[Current] = "exited"
    BY <2>1, <1>0 DEF SendOK
  <2>3. /\ shared' \in [Artifact -> Row \cup {NoRow}] /\ shared'[a] = Current
        /\ \A b \in Artifact : b # a => shared'[b] = shared[b]
    BY <2>1, <2>2, <1>0
  <2>4. LocalRunOK'
    BY <2>1, <2>3 DEF LocalInv, LocalRunOK
  <2>5. WalkOK' /\ AskedOK' /\ Current' = Current /\ (\A b \in Artifact : FileOK(b)')
    <3>1. \A b \in Artifact : shared'[b] # NoRow => b \in Declared[shared'[b]] \cap remains'[shared'[b]].uploads
      BY <2>1, <2>2, <2>3 DEF LocalInv, FileOK
    <3>2. \A b \in Artifact : accepted[b] # NoRow => shared'[b] = accepted[b]
      BY <2>1, <2>2, <2>3 DEF LocalInv, FileOK
    <3>. QED
      BY <3>1, <3>2, <2>1, <1>0, ServesOn
  <2>6. \A r \in Row : BoxOK(r)'
    <3>. SUFFICES ASSUME NEW r \in Row PROVE BoxOK(r)'
      OBVIOUS
    <3>1. box[r] = "removed" => \A b \in remains[r].uploads : b # a
      BY <2>2, <1>0 DEF LocalInv, BoxOK
    <3>2. box[r] \in {"none", "created", "running"} => \A b \in Artifact : shared'[b] # r
      BY <2>2, <2>3 DEF LocalInv, BoxOK
    <3>3. \A b \in remains[r].uploads : b \in Artifact
      BY <1>0
    <3>. QED
      BY <3>1, <3>2, <3>3, <2>1, <2>3, <2>5 DEF LocalInv, BoxOK, Serving, Leaving
  <2>7. SendOK(Current)'
    <3>3. \A b \in remains[Current].uploads : b \in Artifact
      BY <1>0
    <3>. QED
      BY <3>3, <2>1, <2>2, <2>3, <2>5, <1>0 DEF SendOK
  <2>. QED
    BY <2>1, <2>4, <2>5, <2>6, <2>7 DEF LocalInv
<1>2. ASSUME Removes, dpc' # "cleanup" PROVE LocalInv'
  <2>1. /\ dpc = "move" /\ dpc' = "remove" /\ moving = {} /\ box' = [box EXCEPT ![Current] = "removed"]
        /\ UNCHANGED <<needs, asked, turn, path, completed, accepted, remains, imports, moving, kept, shared, runVerdict, retained>>
    BY <1>2 DEF Removes, RunFails, results
  <2>2. /\ box' \in [Row -> {"none", "created", "running", "exited", "removed"}]
        /\ box'[Current] = "removed"
        /\ \A r \in Row : r # Current => box'[r] = box[r]
    BY <2>1, <1>0
  <2>3. LocalRunOK'
    BY <2>1, <2>2 DEF LocalInv, LocalRunOK
  <2>4. WalkOK' /\ AskedOK' /\ Current' = Current /\ (\A a \in Artifact : FileOK(a)') /\ dpc' \in Serving
    <3>1. dpc' \in Serving
      BY <2>1 DEF Serving
    <3>. QED
      BY <3>1, <2>1, <1>0, ServesOn DEF LocalInv, FileOK
  <2>5. Current \in kept /\ \A a \in remains[Current].uploads : shared[a] = Current
    BY <2>1, <1>0 DEF SendOK
  <2>6. needs[Current] \subseteq completed
    BY <1>0 DEF LocalInv, WalkOK
  <2>7. \A r \in Row : BoxOK(r)'
    <3>. SUFFICES ASSUME NEW r \in Row PROVE BoxOK(r)'
      OBVIOUS
    <3>1. CASE r = Current
      BY <3>1, <2>1, <2>2, <2>4, <2>5, <2>6, <1>0 DEF LocalInv, BoxOK, Serving
    <3>2. CASE r # Current
      BY <3>2, <2>1, <2>2, <1>0 DEF LocalInv, BoxOK, Serving, Leaving
    <3>. QED
      BY <3>1, <3>2
  <2>8. SendOK(Current)'
    BY <2>1, <2>2, <2>4, <1>0 DEF SendOK
  <2>. QED
    BY <2>3, <2>4, <2>7, <2>8 DEF LocalInv
<1>3. ASSUME Moves \/ Removes, dpc' = "cleanup" PROVE LocalInv'
  <2>1. RunFails /\ UNCHANGED <<needs, asked, turn, path, completed, accepted, box, remains, imports, moving, results, retained>>
    BY <1>3 DEF Moves, Removes, RunFails, results
  <2>. QED
    BY <2>1, <1>0, LocalFails DEF Walking
<1>4. ASSUME RowCompletes, ~Passes PROVE LocalInv'
  <2>1. /\ dpc = "remove" /\ dpc' = "cleanup" /\ runVerdict' = "failed"
        /\ imports' = [a \in Artifact |-> NoRow]
        /\ UNCHANGED <<needs, asked, turn, path, completed, accepted, box, remains, moving, kept, shared, retained>>
    BY <1>4 DEF RowCompletes, RunFails, results
  <2>2. LocalRunOK'
    BY <2>1 DEF LocalInv, LocalRunOK
  <2>3. WalkOK' /\ AskedOK'
    BY <2>1 DEF LocalInv, WalkOK, AskedOK, Walking, Serving, Leaving
  <2>4. \A r \in Row : BoxOK(r)'
    BY <2>1 DEF LocalInv, BoxOK, Serving, Leaving, BoxPresent
  <2>5. \A a \in Artifact : FileOK(a)'
    BY <2>1 DEF LocalInv, FileOK
  <2>6. dpc' \notin Serving
    BY <2>1 DEF Serving
  <2>. QED
    BY <2>2, <2>3, <2>4, <2>5, <2>6 DEF LocalInv
<1>5. ASSUME RowCompletes, Passes PROVE LocalInv'
  <2>1. /\ dpc = "remove"
        /\ accepted' = [a \in Artifact |-> IF a \in remains[Current].uploads THEN Current ELSE accepted[a]]
        /\ completed' = completed \cup {Current}
        /\ path' = SubSeq(path, 1, Len(path) - 1)
        /\ dpc' = IF Len(path) = 1 THEN "next" ELSE "needs"
        /\ imports' = [a \in Artifact |-> NoRow]
        /\ runVerdict # "failed"
        /\ UNCHANGED <<needs, asked, turn, box, remains, moving, kept, shared, runVerdict, retained>>
    BY <1>5 DEF RowCompletes, Passes, results
  <2>2. /\ box[Current] = "removed" /\ remains[Current].zero = TRUE /\ remains[Current].receipt = "success"
        /\ \A a \in remains[Current].uploads : accepted[a] = NoRow /\ shared[a] = Current
        /\ \A a \in remains[Current].uploads : a \in Artifact
        /\ needs[Current] \subseteq completed
    <3>1. \A a \in remains[Current].uploads : a \in Artifact
      BY <1>0
    <3>. QED
      BY <3>1, <2>1, <1>0 DEF SendOK, LocalInv, BoxOK, WalkOK
  <2>3. /\ Len(path) \in DOMAIN path /\ Len(path) \in Nat /\ DOMAIN path = 1..Len(path)
        /\ \A i \in DOMAIN path : path[i].row \in Row
    BY <1>0, TopOfWalk DEF Walking
  <2>. DEFINE Frames == [row : Row, next : 1..Rows + 1]
  <2>4. /\ path' \in Seq(Frames) /\ Len(path') = Len(path) - 1 /\ DOMAIN path' = 1..Len(path) - 1
        /\ \A i \in DOMAIN path' : path'[i] = path[i] /\ i \in DOMAIN path /\ i # Len(path)
    <3>1. path \in Seq(Frames)
      BY DEF LocalInv, LocalRunOK
    <3>. HIDE DEF Frames
    <3>. QED
      BY <3>1, <2>1, <2>3
  <2>5. /\ accepted' \in [Artifact -> Row \cup {NoRow}]
        /\ \A a \in Artifact : accepted'[a] = IF a \in remains[Current].uploads THEN Current ELSE accepted[a]
        /\ \A a \in Artifact : imports'[a] = NoRow
        /\ imports' \in [Artifact -> Row \cup {NoRow}]
    BY <2>1, <1>0
  <2>6. LocalRunOK'
    BY <2>1, <2>4, <2>5, <1>0 DEF LocalInv, LocalRunOK
  <2>7. WalkOK'
    <3>1. ASSUME NEW i \in DOMAIN path'
          PROVE  /\ path'[i].row \notin completed'
                 /\ \A j \in DOMAIN path' : i # j => path'[i].row # path'[j].row
                 /\ \A n \in needs[path'[i].row] :
                      n < path'[i].next => n \in completed' \/ (i + 1 \in DOMAIN path' /\ n = path'[i + 1].row)
      <4>1. path'[i] = path[i] /\ i \in DOMAIN path /\ i # Len(path)
        BY <2>4
      <4>2. path[i].row # Current /\ path[i].row \notin completed
        BY <4>1, <2>3, <2>1 DEF LocalInv, WalkOK, Leaving, Current
      <4>3. \A j \in DOMAIN path' : i # j => path'[i].row # path'[j].row
        BY <4>1, <2>4, <2>1 DEF LocalInv, WalkOK, Leaving
      <4>4. ASSUME NEW n \in needs[path'[i].row], n < path'[i].next
            PROVE  n \in completed' \/ (i + 1 \in DOMAIN path' /\ n = path'[i + 1].row)
        <5>1. n \in completed \/ (i + 1 \in DOMAIN path /\ n = path[i + 1].row)
          BY <4>1, <4>4, <2>1 DEF LocalInv, WalkOK, Leaving
        <5>2. CASE i + 1 = Len(path)
          BY <5>1, <5>2, <2>1 DEF Current
        <5>3. CASE i + 1 # Len(path)
          <6>1. i + 1 \in DOMAIN path => i + 1 \in DOMAIN path'
            BY <5>3, <2>3, <2>4
          <6>. QED
            BY <5>1, <6>1, <2>1, <2>4
        <5>. QED
          BY <5>2, <5>3
      <4>. QED
        BY <4>1, <4>2, <4>3, <4>4, <2>1
    <3>2. dpc' = "next" => path' = <<>>
      <4>1. dpc' = "next" => Len(path') = 0
        BY <2>1, <2>4
      <4>. HIDE DEF Frames
      <4>. QED
        BY <4>1, <2>4, EmptySeq
    <3>3. dpc' = "needs" => path' # <<>>
      BY <2>1, <2>3, <2>4
    <3>. QED
      BY <2>1, <3>1, <3>2, <3>3 DEF WalkOK, Walking, Serving, Leaving
  <2>8. AskedOK'
    <3>1. ASSUME NEW i \in DOMAIN asked, i < turn
          PROVE  asked[i] \in completed' \/ (path' # <<>> /\ i = turn - 1 /\ path'[1].row = asked[i])
      <4>1. asked[i] \in completed \/ (i = turn - 1 /\ path[1].row = asked[i])
        BY <3>1, <2>1 DEF LocalInv, AskedOK, Leaving
      <4>2. CASE Len(path) = 1
        BY <4>1, <4>2, <2>1 DEF Current
      <4>3. CASE Len(path) # 1
        <5>1. 1 \in DOMAIN path'
          BY <4>3, <2>3, <2>4
        <5>2. path'[1] = path[1] /\ path' # <<>>
          BY <5>1, <2>4
        <5>. QED
          BY <4>1, <5>2, <2>1
      <4>. QED
        BY <4>2, <4>3
    <3>2. runVerdict # "ok"
      BY <2>1 DEF LocalInv, AskedOK, Leaving
    <3>. QED
      BY <3>1, <3>2, <2>1 DEF AskedOK
  <2>9. \A r \in Row : BoxOK(r)'
    <3>. SUFFICES ASSUME NEW r \in Row PROVE BoxOK(r)'
      OBVIOUS
    <3>1. dpc' \in {"next", "needs"}
      BY <2>1
    <3>2. CASE r = Current
      BY <3>1, <3>2, <2>1, <2>2 DEF LocalInv, BoxOK, Serving, Leaving
    <3>3. CASE r # Current
      BY <3>1, <3>3, <2>1 DEF LocalInv, BoxOK, Serving, Leaving
    <3>. QED
      BY <3>2, <3>3
  <2>10. \A a \in Artifact : FileOK(a)'
    <3>. SUFFICES ASSUME NEW a \in Artifact PROVE FileOK(a)'
      OBVIOUS
    <3>1. \A r \in completed : a \in remains[r].uploads => accepted[a] = r /\ r \in Row
      BY DEF LocalInv, FileOK, LocalRunOK
    <3>2. \A r \in completed : a \in remains[r].uploads => accepted'[a] = r
      BY <3>1, <2>2, <2>5, <1>0
    <3>3. a \in remains[Current].uploads => accepted'[a] = Current /\ shared[a] = Current
      BY <2>2, <2>5
    <3>. QED
      BY <3>2, <3>3, <2>1, <2>5 DEF LocalInv, FileOK
  <2>11. dpc' \notin Serving
    BY <2>1 DEF Serving
  <2>. QED
    BY <2>6, <2>7, <2>8, <2>9, <2>10, <2>11 DEF LocalInv
<1>. QED
  BY <1>1, <1>2, <1>3, <1>4, <1>5

(* A container ends, a signal comes, the exit trap runs.                   *)
LEMMA StepEnds ==
  ASSUME LocalInv, BoxExits \/ RunInterrupted \/ CleansUp
  PROVE  LocalInv'
<1>0. /\ box \in [Row -> {"none", "created", "running", "exited", "removed"}]
      /\ remains \in [Row -> [zero : BOOLEAN, receipt : {"none", "success", "failure", "foreign"},
                           uploads : SUBSET Artifact]]
      /\ shared \in [Artifact -> Row \cup {NoRow}] /\ completed \subseteq Row
      /\ dpc \in Walking \cup {"off", "next", "cleanup", "ended"}
  BY DEF LocalInv, LocalRunOK, Walking, Serving
<1>1. ASSUME BoxExits PROVE LocalInv'
  <2>. DEFINE Remnant == [zero : BOOLEAN, receipt : {"none", "success", "failure", "foreign"}, uploads : SUBSET Artifact]
  <2>1. PICK r \in Row, e \in Remnant :
          /\ box[r] = "running" /\ box' = [box EXCEPT ![r] = "exited"]
          /\ remains' = [remains EXCEPT ![r] = e]
          /\ UNCHANGED <<dpc, needs, asked, turn, path, completed, accepted, imports, moving, kept, shared, runVerdict, retained>>
    <3>1. PICK r \in Row :
            /\ box[r] = "running"
            /\ box' = [box EXCEPT ![r] = "exited"]
            /\ \E zero \in BOOLEAN, mark \in {"none", "success", "failure", "foreign"},
                 uploads \in SUBSET Artifact :
                   remains' = [remains EXCEPT ![r] = [zero |-> zero, receipt |-> mark, uploads |-> uploads]]
      BY <1>1 DEF BoxExits
    <3>2. PICK zero \in BOOLEAN, mark \in {"none", "success", "failure", "foreign"}, uploads \in SUBSET Artifact :
            remains' = [remains EXCEPT ![r] = [zero |-> zero, receipt |-> mark, uploads |-> uploads]]
      BY <3>1
    <3>3. [zero |-> zero, receipt |-> mark, uploads |-> uploads] \in Remnant
      OBVIOUS
    <3>. QED
      BY <1>1, <3>1, <3>2, <3>3 DEF BoxExits, results
  <2>2. /\ box' \in [Row -> {"none", "created", "running", "exited", "removed"}]
        /\ remains' \in [Row -> Remnant]
        /\ box'[r] = "exited" /\ \A s \in Row : s # r => box'[s] = box[s] /\ remains'[s] = remains[s]
    <3>. HIDE DEF Remnant
    <3>1. remains \in [Row -> Remnant]
      BY <1>0 DEF Remnant
    <3>. QED
      BY <3>1, <2>1, <1>0
  <2>3. r \notin completed /\ \A a \in Artifact : shared[a] # r
    BY <2>1 DEF LocalInv, BoxOK
  <2>4. LocalRunOK'
    BY <2>1, <2>2 DEF LocalInv, LocalRunOK
  <2>5. WalkOK' /\ AskedOK' /\ Current' = Current
    BY <2>1 DEF LocalInv, WalkOK, AskedOK, Current
  <2>6. \A s \in Row : BoxOK(s)'
    <3>. SUFFICES ASSUME NEW s \in Row PROVE BoxOK(s)'
      OBVIOUS
    <3>1. CASE s = r
      BY <3>1, <2>1, <2>2, <2>3, <2>5 DEF LocalInv, BoxOK, BoxPresent
    <3>2. CASE s # r
      BY <3>2, <2>1, <2>2, <2>5 DEF LocalInv, BoxOK, BoxPresent
    <3>. QED
      BY <3>1, <3>2
  <2>7. \A a \in Artifact : FileOK(a)'
    <3>. SUFFICES ASSUME NEW a \in Artifact PROVE FileOK(a)'
      OBVIOUS
    <3>1. shared[a] # NoRow => remains'[shared[a]] = remains[shared[a]]
      BY <1>0, <2>2, <2>3
    <3>2. \A s \in completed : remains'[s] = remains[s]
      BY <1>0, <2>2, <2>3
    <3>. QED
      BY <3>1, <3>2, <2>1, <2>5 DEF LocalInv, FileOK
  <2>8. ASSUME dpc' \in Serving PROVE SendOK(Current)'
    <3>1. Current \in Row /\ SendOK(Current)
      BY <2>1, <2>8, TopOfWalk DEF LocalInv, Walking
    <3>2. CASE r = Current
      BY <3>1, <3>2, <2>1, <2>3, <2>5 DEF SendOK
    <3>3. CASE r # Current
      BY <3>1, <3>3, <2>1, <2>2, <2>5 DEF SendOK
    <3>. QED
      BY <3>2, <3>3
  <2>. QED
    BY <2>4, <2>5, <2>6, <2>7, <2>8 DEF LocalInv
<1>2. ASSUME RunInterrupted PROVE LocalInv'
  BY <1>0, <1>2, LocalFails DEF RunInterrupted
<1>3. ASSUME CleansUp PROVE LocalInv'
  <2>1. /\ dpc = "cleanup" /\ dpc' = "ended"
        /\ retained' = (\E r \in Row : BoxPresent(r))
        /\ runVerdict' = IF retained' THEN "failed" ELSE runVerdict
        /\ UNCHANGED <<needs, asked, turn, path, completed, accepted, remains, imports, moving, kept, shared>>
        /\ \/ box' = [r \in Row |-> IF box[r] = "running" THEN "exited" ELSE box[r]]
           \/ box' = box
    BY <1>3 DEF CleansUp, results
  <2>2. /\ box' \in [Row -> {"none", "created", "running", "exited", "removed"}]
        /\ \A r \in Row : box'[r] = box[r] \/ (box[r] = "running" /\ box'[r] = "exited")
        /\ retained' \in BOOLEAN
    BY <2>1, <1>0
  <2>3. /\ runVerdict' \in {runVerdict, "failed"}
        /\ \A r \in Row : BoxPresent(r) => retained' = TRUE /\ runVerdict' = "failed"
    BY <2>1
  <2>4. LocalRunOK'
    BY <2>1, <2>2, <2>3 DEF LocalInv, LocalRunOK
  <2>5. WalkOK' /\ AskedOK' /\ Current' = Current
    BY <2>1, <2>3 DEF LocalInv, WalkOK, AskedOK, Current, Walking, Serving, Leaving
  <2>6. \A s \in Row : BoxOK(s)'
    BY <2>1, <2>2, <2>3 DEF LocalInv, BoxOK, BoxPresent, Leaving
  <2>7. \A a \in Artifact : FileOK(a)'
    BY <2>1, <2>5 DEF LocalInv, FileOK
  <2>8. dpc' \notin Serving
    BY <2>1 DEF Serving
  <2>. QED
    BY <2>4, <2>5, <2>6, <2>7, <2>8 DEF LocalInv
<1>. QED
  BY <1>1, <1>2, <1>3

LEMMA StepLocal ==
  ASSUME LocalInv, [LocalRunNext]_local
  PROVE  LocalInv'
<1>1. ASSUME UNCHANGED local PROVE LocalInv'
  <2>1. LocalRunOK' /\ WalkOK' /\ AskedOK' /\ Current' = Current
    BY <1>1 DEF local, results, LocalInv, LocalRunOK, WalkOK, AskedOK, Current
  <2>2. (\A r \in Row : BoxOK(r)') /\ (\A a \in Artifact : FileOK(a)')
    BY <1>1, <2>1 DEF local, results, LocalInv, BoxOK, BoxPresent, FileOK
  <2>3. ASSUME dpc' \in Serving PROVE SendOK(Current)'
    BY <1>1, <2>1, <2>3 DEF local, results, LocalInv, SendOK
  <2>. QED
    BY <2>1, <2>2, <2>3 DEF LocalInv
<1>. QED
  BY <1>1, StepWalk, StepServes, StepSends, StepEnds DEF LocalRunNext, LocalRuns

LEMMA LocalInvKept ==
  ASSUME LocalInv
  PROVE  LocalRunKept
<1>1. NeedsFirst
  BY DEF LocalInv, BoxOK, NeedsFirst
<1>2. ImportsEarned
  BY DEF LocalInv, LocalRunOK, FileOK, BoxOK, ImportsEarned
<1>3. ArtifactsOwned
  BY DEF LocalInv, FileOK, ArtifactsOwned
<1>4. EvidenceKept
  BY DEF LocalInv, BoxOK, EvidenceKept
<1>5. OkMeansAll
  BY DEF LocalInv, LocalRunOK, BoxOK, AskedOK, OkMeansAll
<1>. QED
  BY <1>1, <1>2, <1>3, <1>4, <1>5 DEF LocalRunKept

(* local-ci-steps.py --dispatch: rows run after what they need, import     *)
(* what those earned, own their artifacts, lose no evidence, and a run     *)
(* that passes ran all, whatever the workflow and the containers do.       *)
THEOREM LocalRunIsKept == LocalRunSpec => []LocalRunKept
<1>1. LocalRunInit => LocalInv
  BY LocalStarts DEF LocalRunInit
<1>2. LocalInv /\ [LocalRunNext]_local => LocalInv'
  BY StepLocal
<1>3. LocalInv => LocalRunKept
  BY LocalInvKept
<1>. QED
  BY <1>1, <1>2, <1>3, PTL DEF LocalRunSpec

-----------------------------------------------------------------------------
(* A check of a project.  Versions only grow, so a part that is found at   *)
(* the end to be the one that was read first has been it all the time.     *)

AfterCollect ==
  {"hash", "run", "translate", "verify", "reproduce", "guard", "popen", "wait", "tell", "goals", "claims", "rescan"}
Publishing == {"record", "rename", "print"}

CheckTypes ==
  /\ kpc \in AfterCollect \cup Publishing \cup {"off", "scripts", "collect", "ended"}
  /\ toRead \subseteq Inputs
  /\ version \in [Part -> Nat] /\ first \in [Part -> Nat \cup {Unread}] /\ builtFrom \in Int
  /\ failed \in BOOLEAN /\ load \in BOOLEAN /\ guardTold \in BOOLEAN /\ gap \in BOOLEAN
  /\ gd \in {"none", "runs", "ended"} /\ kstatus \in {"none", "failed", "reproduced"}

(* What was read, and what was worked on since.                            *)
Known(p) == first[p] # Unread
Exact(p) == \A v \in Int : <<p, v>> \in workedOn => v = first[p]

CheckReads ==
  /\ kpc = "collect" => Known("scripts") /\ \A p \in Inputs \ toRead : Known(p)
  /\ kpc \in AfterCollect => Known("scripts") /\ \A p \in Inputs : Known(p)
  /\ kpc \in AfterCollect \ {"hash"} => Known("translator")
  /\ \A p \in Part : Known(p) => first[p] <= version[p]
  /\ kpc \in {"off", "scripts", "collect", "hash"} => workedOn = {}

CheckUses ==
  /\ workedOn \subseteq Part \X Int
  /\ \A p \in Part : \A v \in Int : <<p, v>> \in workedOn => Known(p) /\ first[p] <= v /\ v <= version[p]
  /\ "build" \in passed => <<"lean", builtFrom>> \in workedOn
  /\ "verify" \in passed => Exact("translator")
  /\ kpc = "rescan" /\ failed = FALSE => \A p \in Inputs \ toRead : Exact(p)

(* The stages that have passed.                                            *)
CheckPasses ==
  /\ kpc \in {"off", "scripts", "collect", "hash", "run", "translate"} => passed = {}
  /\ kpc = "verify" => passed = {"translate"}
  /\ kpc = "reproduce" => passed = {"translate", "verify"}
  /\ kpc \in {"guard", "popen", "wait", "tell"} =>
       \/ passed = {"translate", "verify", "reproduce"}
       \/ passed = {"translate", "verify", "reproduce", "build"}
  /\ kpc = "goals" => passed = {"translate", "verify", "reproduce", "build", "audit"}
  /\ kpc = "claims" => {"translate", "verify", "reproduce", "build", "audit"} \subseteq passed
  /\ kpc = "claims" /\ failed = FALSE => passed = {"translate", "verify", "reproduce", "build", "audit", "goals"}
  /\ kpc = "rescan" => "build" \in passed /\ "verify" \in passed
  /\ kpc = "rescan" /\ failed = FALSE =>
       passed = {"translate", "verify", "reproduce", "build", "audit", "goals", "claims"}

Backed == passed = CheckStages /\ (\A p \in Part : Exact(p)) /\ builtFrom = first["lean"]

CheckJudged ==
  /\ kpc \in Publishing /\ failed = FALSE => Backed
  /\ kstatus = "reproduced" => Backed
  /\ kstatus # "none" => kpc \in {"rename", "print", "ended"}

(* How it ends.                                                            *)
CheckEnds ==
  /\ kend # "none" => kpc = "ended"
  /\ kout = "record" => kpc \in {"print", "ended"}
  /\ kpc = "print" => kout = "record"
  /\ kend = "record" => kout = "record"
  /\ kpc \in {"rename", "print"} \/ kout = "record" => kstatus # "none"
  /\ kout = "record" => gd = "none"

(* The guard.                                                              *)
CheckGuards ==
  /\ gd # "none" => kpc \in {"popen", "wait", "tell", "ended"}
  /\ kpc \in {"popen", "wait", "tell"} => gd # "none"
  /\ load = TRUE => gd # "none"
  /\ load = TRUE /\ gd = "ended" => kpc = "ended" /\ guardTold = TRUE
  /\ kpc = "tell" => guardTold = TRUE
  /\ kpc = "ended" /\ gd = "runs" => gap = TRUE

CheckInv ==
  CheckTypes /\ CheckReads /\ CheckUses /\ CheckPasses /\ CheckJudged /\ CheckEnds /\ CheckGuards

LEMMA CheckStarts ==
  ASSUME NEW l \in {"off", "scripts"}, CheckAt(l)
  PROVE  CheckInv
<1>1. failed \in BOOLEAN /\ load \in BOOLEAN /\ guardTold \in BOOLEAN /\ gap \in BOOLEAN
  BY Zenon DEF CheckAt
<1>2. CheckTypes
  BY <1>1 DEF CheckAt, CheckTypes, Unread, Part
<1>3. CheckReads /\ CheckUses
  BY DEF CheckAt, CheckReads, CheckUses, AfterCollect, Known, Part
<1>4. CheckPasses
  BY DEF CheckAt, CheckPasses
<1>5. CheckJudged
  BY DEF CheckAt, CheckJudged, Publishing
<1>6. CheckEnds /\ CheckGuards
  BY DEF CheckAt, CheckEnds, CheckGuards
<1>. QED
  BY <1>2, <1>3, <1>4, <1>5, <1>6 DEF CheckInv

LEMMA StepCheck ==
  ASSUME CheckInv, [CheckNext]_check
  PROVE  CheckInv'
<1>. USE DEF Refuses, Uses, CheckFails, PassesTo, guarding, reading
<1>1. ASSUME ReadsScripts PROVE CheckInv'
  <2>1. CheckTypes' /\ CheckReads'
    BY <1>1
      DEF ReadsScripts, CheckInv, CheckTypes, CheckReads, Known, Next_, AfterCollect, Publishing,
          Part, Inputs, Unread
  <2>2. CheckUses'
    BY <1>1
      DEF ReadsScripts, CheckInv, CheckUses, CheckTypes, CheckReads, CheckPasses, Known, Exact,
          Next_, Differs, Stage_, AfterCollect, Publishing, Part, Inputs, Unread
  <2>3. CheckPasses' /\ CheckJudged'
    BY <1>1
      DEF ReadsScripts, CheckInv, CheckPasses, CheckJudged, Stage_, Backed, Exact, AfterCollect,
          Publishing
  <2>4. CheckEnds' /\ CheckGuards'
    BY <1>1 DEF ReadsScripts, CheckInv, CheckTypes, CheckEnds, CheckGuards, Publishing
  <2>. QED
    BY <2>1, <2>2, <2>3, <2>4 DEF CheckInv
<1>2. ASSUME Collects PROVE CheckInv'
  <2>1. CheckTypes' /\ CheckReads'
    BY <1>2
      DEF Collects, CheckInv, CheckTypes, CheckReads, Known, Next_, AfterCollect, Publishing, Part,
          Inputs, Unread
  <2>2. CheckUses'
    BY <1>2
      DEF Collects, CheckInv, CheckUses, CheckTypes, CheckReads, CheckPasses, Known, Exact, Next_,
          Differs, Stage_, AfterCollect, Publishing, Part, Inputs, Unread
  <2>3. CheckPasses' /\ CheckJudged'
    BY <1>2 DEF Collects, CheckInv, CheckPasses, CheckJudged, Stage_, Backed, Exact, AfterCollect, Publishing
  <2>4. CheckEnds' /\ CheckGuards'
    BY <1>2 DEF Collects, CheckInv, CheckTypes, CheckEnds, CheckGuards, Publishing
  <2>. QED
    BY <2>1, <2>2, <2>3, <2>4 DEF CheckInv
<1>3. ASSUME Invalidates PROVE CheckInv'
  <2>1. CheckTypes' /\ CheckReads'
    BY <1>3
      DEF Invalidates, CheckInv, CheckTypes, CheckReads, Known, Next_, AfterCollect, Publishing,
          Part, Inputs, Unread
  <2>2. CheckUses'
    BY <1>3
      DEF Invalidates, CheckInv, CheckUses, CheckTypes, CheckReads, CheckPasses, Known, Exact,
          Next_, Differs, Stage_, AfterCollect, Publishing, Part, Inputs, Unread
  <2>3. CheckPasses' /\ CheckJudged'
    BY <1>3
      DEF Invalidates, CheckInv, CheckPasses, CheckJudged, Stage_, Backed, Exact, AfterCollect,
          Publishing
  <2>4. CheckEnds' /\ CheckGuards'
    BY <1>3 DEF Invalidates, CheckInv, CheckTypes, CheckEnds, CheckGuards, Publishing
  <2>. QED
    BY <2>1, <2>2, <2>3, <2>4 DEF CheckInv
<1>4. ASSUME Collected PROVE CheckInv'
  <2>1. CheckTypes' /\ CheckReads'
    BY <1>4
      DEF Collected, CheckInv, CheckTypes, CheckReads, Known, Next_, AfterCollect, Publishing,
          Part, Inputs, Unread
  <2>2. CheckUses'
    BY <1>4
      DEF Collected, CheckInv, CheckUses, CheckTypes, CheckReads, CheckPasses, Known, Exact, Next_,
          Differs, Stage_, AfterCollect, Publishing, Part, Inputs, Unread
  <2>3. CheckPasses' /\ CheckJudged'
    BY <1>4 DEF Collected, CheckInv, CheckPasses, CheckJudged, Stage_, Backed, Exact, AfterCollect, Publishing
  <2>4. CheckEnds' /\ CheckGuards'
    BY <1>4 DEF Collected, CheckInv, CheckTypes, CheckEnds, CheckGuards, Publishing
  <2>. QED
    BY <2>1, <2>2, <2>3, <2>4 DEF CheckInv
<1>5. ASSUME HashesTranslator PROVE CheckInv'
  <2>1. CheckTypes' /\ CheckReads'
    BY <1>5
      DEF HashesTranslator, CheckInv, CheckTypes, CheckReads, Known, Next_, AfterCollect,
          Publishing, Part, Inputs, Unread
  <2>2. CheckUses'
    BY <1>5
      DEF HashesTranslator, CheckInv, CheckUses, CheckTypes, CheckReads, CheckPasses, Known, Exact,
          Next_, Differs, Stage_, AfterCollect, Publishing, Part, Inputs, Unread
  <2>3. CheckPasses' /\ CheckJudged'
    BY <1>5
      DEF HashesTranslator, CheckInv, CheckPasses, CheckJudged, Stage_, Backed, Exact,
          AfterCollect, Publishing
  <2>4. CheckEnds' /\ CheckGuards'
    BY <1>5 DEF HashesTranslator, CheckInv, CheckTypes, CheckEnds, CheckGuards, Publishing
  <2>. QED
    BY <2>1, <2>2, <2>3, <2>4 DEF CheckInv
<1>6. ASSUME StartsTranslator PROVE CheckInv'
  <2>1. CheckTypes' /\ CheckReads'
    BY <1>6
      DEF StartsTranslator, CheckInv, CheckTypes, CheckReads, Known, Next_, AfterCollect,
          Publishing, Part, Inputs, Unread
  <2>2. CheckUses'
    BY <1>6
      DEF StartsTranslator, CheckInv, CheckUses, CheckTypes, CheckReads, CheckPasses, Known, Exact,
          Next_, Differs, Stage_, AfterCollect, Publishing, Part, Inputs, Unread
  <2>3. CheckPasses' /\ CheckJudged'
    BY <1>6
      DEF StartsTranslator, CheckInv, CheckPasses, CheckJudged, Stage_, Backed, Exact,
          AfterCollect, Publishing
  <2>4. CheckEnds' /\ CheckGuards'
    BY <1>6 DEF StartsTranslator, CheckInv, CheckTypes, CheckEnds, CheckGuards, Publishing
  <2>. QED
    BY <2>1, <2>2, <2>3, <2>4 DEF CheckInv
<1>7. ASSUME Translated PROVE CheckInv'
  <2>1. CheckTypes' /\ CheckReads'
    BY <1>7
      DEF Translated, CheckInv, CheckTypes, CheckReads, Known, Next_, AfterCollect, Publishing,
          Part, Inputs, Unread
  <2>2. CheckUses'
    BY <1>7
      DEF Translated, CheckInv, CheckUses, CheckTypes, CheckReads, CheckPasses, Known, Exact,
          Next_, Differs, Stage_, AfterCollect, Publishing, Part, Inputs, Unread
  <2>3. CheckPasses' /\ CheckJudged'
    BY <1>7
      DEF Translated, CheckInv, CheckPasses, CheckJudged, Stage_, Backed, Exact, AfterCollect,
          Publishing
  <2>4. CheckEnds' /\ CheckGuards'
    BY <1>7 DEF Translated, CheckInv, CheckTypes, CheckEnds, CheckGuards, Publishing
  <2>. QED
    BY <2>1, <2>2, <2>3, <2>4 DEF CheckInv
<1>8. ASSUME Verifies PROVE CheckInv'
  <2>1. CheckTypes' /\ CheckReads'
    BY <1>8
      DEF Verifies, CheckInv, CheckTypes, CheckReads, Known, Next_, AfterCollect, Publishing, Part,
          Inputs, Unread
  <2>2. CheckUses'
    BY <1>8
      DEF Verifies, CheckInv, CheckUses, CheckTypes, CheckReads, CheckPasses, Known, Exact, Next_,
          Differs, Stage_, AfterCollect, Publishing, Part, Inputs, Unread
  <2>3. CheckPasses' /\ CheckJudged'
    BY <1>8 DEF Verifies, CheckInv, CheckPasses, CheckJudged, Stage_, Backed, Exact, AfterCollect, Publishing
  <2>4. CheckEnds' /\ CheckGuards'
    BY <1>8 DEF Verifies, CheckInv, CheckTypes, CheckEnds, CheckGuards, Publishing
  <2>. QED
    BY <2>1, <2>2, <2>3, <2>4 DEF CheckInv
<1>9. ASSUME VerifiesTranslator PROVE CheckInv'
  <2>1. CheckTypes' /\ CheckReads'
    BY <1>9
      DEF VerifiesTranslator, CheckInv, CheckTypes, CheckReads, Known, Next_, AfterCollect,
          Publishing, Part, Inputs, Unread
  <2>2. CheckUses'
    BY <1>9
      DEF VerifiesTranslator, CheckInv, CheckUses, CheckTypes, CheckReads, CheckPasses, Known,
          Exact, Next_, Differs, Stage_, AfterCollect, Publishing, Part, Inputs, Unread
  <2>3. CheckPasses' /\ CheckJudged'
    BY <1>9
      DEF VerifiesTranslator, CheckInv, CheckPasses, CheckJudged, Stage_, Backed, Exact,
          AfterCollect, Publishing
  <2>4. CheckEnds' /\ CheckGuards'
    BY <1>9 DEF VerifiesTranslator, CheckInv, CheckTypes, CheckEnds, CheckGuards, Publishing
  <2>. QED
    BY <2>1, <2>2, <2>3, <2>4 DEF CheckInv
<1>10. ASSUME Reproduces PROVE CheckInv'
  <2>1. CheckTypes' /\ CheckReads'
    BY <1>10
      DEF Reproduces, CheckInv, CheckTypes, CheckReads, Known, Next_, AfterCollect, Publishing,
          Part, Inputs, Unread
  <2>2. CheckUses'
    BY <1>10
      DEF Reproduces, CheckInv, CheckUses, CheckTypes, CheckReads, CheckPasses, Known, Exact,
          Next_, Differs, Stage_, AfterCollect, Publishing, Part, Inputs, Unread
  <2>3. CheckPasses' /\ CheckJudged'
    BY <1>10
      DEF Reproduces, CheckInv, CheckPasses, CheckJudged, Stage_, Backed, Exact, AfterCollect,
          Publishing
  <2>4. CheckEnds' /\ CheckGuards'
    BY <1>10 DEF Reproduces, CheckInv, CheckTypes, CheckEnds, CheckGuards, Publishing
  <2>. QED
    BY <2>1, <2>2, <2>3, <2>4 DEF CheckInv
<1>11. ASSUME StartsGuard PROVE CheckInv'
  <2>1. CheckTypes' /\ CheckReads'
    BY <1>11
      DEF StartsGuard, CheckInv, CheckTypes, CheckReads, Known, Next_, AfterCollect, Publishing,
          Part, Inputs, Unread
  <2>2. CheckUses'
    BY <1>11
      DEF StartsGuard, CheckInv, CheckUses, CheckTypes, CheckReads, CheckPasses, Known, Exact,
          Next_, Differs, Stage_, AfterCollect, Publishing, Part, Inputs, Unread
  <2>3. CheckPasses' /\ CheckJudged'
    BY <1>11
      DEF StartsGuard, CheckInv, CheckPasses, CheckJudged, Stage_, Backed, Exact, AfterCollect,
          Publishing
  <2>4. CheckEnds' /\ CheckGuards'
    BY <1>11 DEF StartsGuard, CheckInv, CheckTypes, CheckEnds, CheckGuards, Publishing
  <2>. QED
    BY <2>1, <2>2, <2>3, <2>4 DEF CheckInv
<1>12. ASSUME Communicates PROVE CheckInv'
  <2>1. CheckTypes' /\ CheckReads'
    BY <1>12
      DEF Communicates, CheckInv, CheckTypes, CheckReads, Known, Next_, AfterCollect, Publishing,
          Part, Inputs, Unread
  <2>2. CheckUses'
    BY <1>12
      DEF Communicates, CheckInv, CheckUses, CheckTypes, CheckReads, CheckPasses, Known, Exact,
          Next_, Differs, Stage_, AfterCollect, Publishing, Part, Inputs, Unread
  <2>3. CheckPasses' /\ CheckJudged'
    BY <1>12
      DEF Communicates, CheckInv, CheckPasses, CheckJudged, Stage_, Backed, Exact, AfterCollect,
          Publishing
  <2>4. CheckEnds' /\ CheckGuards'
    BY <1>12 DEF Communicates, CheckInv, CheckTypes, CheckEnds, CheckGuards, Publishing
  <2>. QED
    BY <2>1, <2>2, <2>3, <2>4 DEF CheckInv
<1>13. ASSUME StagePasses PROVE CheckInv'
  <2>1. CheckTypes' /\ CheckReads'
    BY <1>13
      DEF StagePasses, CheckInv, CheckTypes, CheckReads, Known, Next_, AfterCollect, Publishing,
          Part, Inputs, Unread
  <2>2. CheckUses'
    BY <1>13
      DEF StagePasses, CheckInv, CheckUses, CheckTypes, CheckReads, CheckPasses, Known, Exact,
          Next_, Differs, Stage_, AfterCollect, Publishing, Part, Inputs, Unread
  <2>3. CheckPasses' /\ CheckJudged'
    BY <1>13
      DEF StagePasses, CheckInv, CheckPasses, CheckJudged, Stage_, Backed, Exact, AfterCollect,
          Publishing
  <2>4. CheckEnds' /\ CheckGuards'
    BY <1>13 DEF StagePasses, CheckInv, CheckTypes, CheckEnds, CheckGuards, Publishing
  <2>. QED
    BY <2>1, <2>2, <2>3, <2>4 DEF CheckInv
<1>14. ASSUME StageFails PROVE CheckInv'
  <2>1. CheckTypes' /\ CheckReads'
    BY <1>14
      DEF StageFails, CheckInv, CheckTypes, CheckReads, Known, Next_, AfterCollect, Publishing,
          Part, Inputs, Unread
  <2>2. CheckUses'
    BY <1>14
      DEF StageFails, CheckInv, CheckUses, CheckTypes, CheckReads, CheckPasses, Known, Exact,
          Next_, Differs, Stage_, AfterCollect, Publishing, Part, Inputs, Unread
  <2>3. CheckPasses' /\ CheckJudged'
    BY <1>14
      DEF StageFails, CheckInv, CheckPasses, CheckJudged, Stage_, Backed, Exact, AfterCollect,
          Publishing
  <2>4. CheckEnds' /\ CheckGuards'
    BY <1>14 DEF StageFails, CheckInv, CheckTypes, CheckEnds, CheckGuards, Publishing
  <2>. QED
    BY <2>1, <2>2, <2>3, <2>4 DEF CheckInv
<1>15. ASSUME Overdue PROVE CheckInv'
  <2>1. CheckTypes' /\ CheckReads'
    BY <1>15
      DEF Overdue, CheckInv, CheckTypes, CheckReads, Known, Next_, AfterCollect, Publishing, Part,
          Inputs, Unread
  <2>2. CheckUses'
    BY <1>15
      DEF Overdue, CheckInv, CheckUses, CheckTypes, CheckReads, CheckPasses, Known, Exact, Next_,
          Differs, Stage_, AfterCollect, Publishing, Part, Inputs, Unread
  <2>3. CheckPasses' /\ CheckJudged'
    BY <1>15 DEF Overdue, CheckInv, CheckPasses, CheckJudged, Stage_, Backed, Exact, AfterCollect, Publishing
  <2>4. CheckEnds' /\ CheckGuards'
    BY <1>15 DEF Overdue, CheckInv, CheckTypes, CheckEnds, CheckGuards, Publishing
  <2>. QED
    BY <2>1, <2>2, <2>3, <2>4 DEF CheckInv
<1>16. ASSUME GuardAnswers PROVE CheckInv'
  <2>1. CheckTypes' /\ CheckReads'
    BY <1>16
      DEF GuardAnswers, CheckInv, CheckTypes, CheckReads, Known, Next_, AfterCollect, Publishing,
          Part, Inputs, Unread
  <2>2. CheckUses'
    BY <1>16
      DEF GuardAnswers, CheckInv, CheckUses, CheckTypes, CheckReads, CheckPasses, Known, Exact,
          Next_, Differs, Stage_, AfterCollect, Publishing, Part, Inputs, Unread
  <2>3. CheckPasses' /\ CheckJudged'
    BY <1>16
      DEF GuardAnswers, CheckInv, CheckPasses, CheckJudged, Stage_, Backed, Exact, AfterCollect,
          Publishing
  <2>4. CheckEnds' /\ CheckGuards'
    BY <1>16 DEF GuardAnswers, CheckInv, CheckTypes, CheckEnds, CheckGuards, Publishing
  <2>. QED
    BY <2>1, <2>2, <2>3, <2>4 DEF CheckInv
<1>17. ASSUME Judges PROVE CheckInv'
  <2>1. CheckTypes' /\ CheckReads'
    BY <1>17
      DEF Judges, CheckInv, CheckTypes, CheckReads, Known, Next_, AfterCollect, Publishing, Part,
          Inputs, Unread
  <2>2. CheckUses'
    BY <1>17
      DEF Judges, CheckInv, CheckUses, CheckTypes, CheckReads, CheckPasses, Known, Exact, Next_,
          Differs, Stage_, AfterCollect, Publishing, Part, Inputs, Unread
  <2>3. CheckPasses' /\ CheckJudged'
    BY <1>17 DEF Judges, CheckInv, CheckPasses, CheckJudged, Stage_, Backed, Exact, AfterCollect, Publishing
  <2>4. CheckEnds' /\ CheckGuards'
    BY <1>17 DEF Judges, CheckInv, CheckTypes, CheckEnds, CheckGuards, Publishing
  <2>. QED
    BY <2>1, <2>2, <2>3, <2>4 DEF CheckInv
<1>18. ASSUME JudgesClaims PROVE CheckInv'
  <2>1. CheckTypes' /\ CheckReads'
    BY <1>18
      DEF JudgesClaims, CheckInv, CheckTypes, CheckReads, Known, Next_, AfterCollect, Publishing,
          Part, Inputs, Unread
  <2>2. CheckUses'
    BY <1>18
      DEF JudgesClaims, CheckInv, CheckUses, CheckTypes, CheckReads, CheckPasses, Known, Exact,
          Next_, Differs, Stage_, AfterCollect, Publishing, Part, Inputs, Unread
  <2>3. CheckPasses' /\ CheckJudged'
    BY <1>18
      DEF JudgesClaims, CheckInv, CheckPasses, CheckJudged, Stage_, Backed, Exact, AfterCollect,
          Publishing
  <2>4. CheckEnds' /\ CheckGuards'
    BY <1>18 DEF JudgesClaims, CheckInv, CheckTypes, CheckEnds, CheckGuards, Publishing
  <2>. QED
    BY <2>1, <2>2, <2>3, <2>4 DEF CheckInv
<1>19. ASSUME Rescans PROVE CheckInv'
  <2>1. CheckTypes' /\ CheckReads'
    BY <1>19
      DEF Rescans, CheckInv, CheckTypes, CheckReads, Known, Next_, AfterCollect, Publishing, Part,
          Inputs, Unread
  <2>2. CheckUses'
    <3>1. PICK q \in Inputs :
            /\ kpc = "rescan" /\ kpc' = "rescan" /\ toRead' = toRead \ {q} /\ failed' = (failed \/ Differs(q))
            /\ UNCHANGED <<version, first, workedOn, builtFrom, passed>>
      BY <1>19 DEF Rescans
    <3>2. failed' = FALSE => failed = FALSE /\ version[q] = first[q]
      BY <3>1, Zenon DEF CheckInv, CheckTypes, Differs
    <3>3. failed' = FALSE => Exact(q)
      BY <3>1, <3>2 DEF CheckInv, CheckTypes, CheckUses, Exact, Known, Part, Inputs, Unread
    <3>. QED
      BY <3>1, <3>2, <3>3 DEF CheckInv, CheckUses, Exact, Known
  <2>3. CheckPasses' /\ CheckJudged'
    <3>1. failed' = FALSE => failed = FALSE
      BY <1>19, Zenon DEF Rescans, CheckInv, CheckTypes
    <3>. QED
      BY <1>19, <3>1 DEF Rescans, CheckInv, CheckPasses, CheckJudged, Backed, Exact, Publishing
  <2>4. CheckEnds' /\ CheckGuards'
    BY <1>19 DEF Rescans, CheckInv, CheckTypes, CheckEnds, CheckGuards, Publishing
  <2>. QED
    BY <2>1, <2>2, <2>3, <2>4 DEF CheckInv
<1>20. ASSUME Rescanned PROVE CheckInv'
  <2>1. CheckTypes' /\ CheckReads'
    BY <1>20
      DEF Rescanned, CheckInv, CheckTypes, CheckReads, Known, Next_, AfterCollect, Publishing,
          Part, Inputs, Unread
  <2>2. CheckUses'
    BY <1>20
      DEF Rescanned, CheckInv, CheckUses, CheckTypes, CheckReads, CheckPasses, Known, Exact, Next_,
          Differs, Stage_, AfterCollect, Publishing, Part, Inputs, Unread
  <2>3. CheckPasses' /\ CheckJudged'
    <3>1. /\ kpc = "rescan" /\ toRead = {} /\ kpc' = "record" /\ failed' = (failed \/ Differs("scripts"))
          /\ passed' = IF failed' THEN passed ELSE passed \cup {"stable"}
          /\ UNCHANGED <<version, first, workedOn, builtFrom, kstatus>>
      BY <1>20 DEF Rescanned
    <3>2. failed' = FALSE => failed = FALSE /\ version["scripts"] = first["scripts"]
      BY <3>1, Zenon DEF CheckInv, CheckTypes, Differs
    <3>3. ASSUME failed' = FALSE PROVE Backed'
      <4>1. Exact("scripts")
        BY <3>1, <3>2, <3>3 DEF CheckInv, CheckTypes, CheckUses, Exact, Known, Part, Unread
      <4>2. passed' = CheckStages /\ Exact("translator") /\ \A p \in Inputs : Exact(p)
        BY <3>1, <3>2, <3>3 DEF CheckInv, CheckPasses, CheckUses, CheckStages
      <4>3. \A p \in Part : Exact(p)
        BY <4>1, <4>2 DEF Part, Inputs
      <4>4. builtFrom = first["lean"]
        BY <3>1, <4>3 DEF CheckInv, CheckTypes, CheckPasses, CheckUses, Exact, Part
      <4>. QED
        BY <3>1, <4>2, <4>3, <4>4 DEF Backed, Exact
    <3>. QED
      BY <3>1, <3>3 DEF CheckInv, CheckPasses, CheckJudged, Publishing, AfterCollect
  <2>4. CheckEnds' /\ CheckGuards'
    BY <1>20 DEF Rescanned, CheckInv, CheckTypes, CheckEnds, CheckGuards, Publishing
  <2>. QED
    BY <2>1, <2>2, <2>3, <2>4 DEF CheckInv
<1>21. ASSUME WritesRecord PROVE CheckInv'
  <2>1. CheckTypes' /\ CheckReads'
    BY <1>21
      DEF WritesRecord, CheckInv, CheckTypes, CheckReads, Known, Next_, AfterCollect, Publishing,
          Part, Inputs, Unread
  <2>2. CheckUses'
    BY <1>21
      DEF WritesRecord, CheckInv, CheckUses, CheckTypes, CheckReads, CheckPasses, Known, Exact,
          Next_, Differs, Stage_, AfterCollect, Publishing, Part, Inputs, Unread
  <2>3. CheckPasses' /\ CheckJudged'
    BY <1>21
      DEF WritesRecord, CheckInv, CheckPasses, CheckJudged, Stage_, Backed, Exact, AfterCollect,
          Publishing
  <2>4. CheckEnds' /\ CheckGuards'
    BY <1>21 DEF WritesRecord, CheckInv, CheckTypes, CheckEnds, CheckGuards, Publishing
  <2>. QED
    BY <2>1, <2>2, <2>3, <2>4 DEF CheckInv
<1>22. ASSUME Renames PROVE CheckInv'
  <2>1. CheckTypes' /\ CheckReads'
    BY <1>22
      DEF Renames, CheckInv, CheckTypes, CheckReads, Known, Next_, AfterCollect, Publishing, Part,
          Inputs, Unread
  <2>2. CheckUses'
    BY <1>22
      DEF Renames, CheckInv, CheckUses, CheckTypes, CheckReads, CheckPasses, Known, Exact, Next_,
          Differs, Stage_, AfterCollect, Publishing, Part, Inputs, Unread
  <2>3. CheckPasses' /\ CheckJudged'
    BY <1>22 DEF Renames, CheckInv, CheckPasses, CheckJudged, Stage_, Backed, Exact, AfterCollect, Publishing
  <2>4. CheckEnds' /\ CheckGuards'
    BY <1>22 DEF Renames, CheckInv, CheckTypes, CheckEnds, CheckGuards, Publishing
  <2>. QED
    BY <2>1, <2>2, <2>3, <2>4 DEF CheckInv
<1>23. ASSUME Prints PROVE CheckInv'
  <2>1. CheckTypes' /\ CheckReads'
    BY <1>23
      DEF Prints, CheckInv, CheckTypes, CheckReads, Known, Next_, AfterCollect, Publishing, Part,
          Inputs, Unread
  <2>2. CheckUses'
    BY <1>23
      DEF Prints, CheckInv, CheckUses, CheckTypes, CheckReads, CheckPasses, Known, Exact, Next_,
          Differs, Stage_, AfterCollect, Publishing, Part, Inputs, Unread
  <2>3. CheckPasses' /\ CheckJudged'
    BY <1>23 DEF Prints, CheckInv, CheckPasses, CheckJudged, Stage_, Backed, Exact, AfterCollect, Publishing
  <2>4. CheckEnds' /\ CheckGuards'
    BY <1>23 DEF Prints, CheckInv, CheckTypes, CheckEnds, CheckGuards, Publishing
  <2>. QED
    BY <2>1, <2>2, <2>3, <2>4 DEF CheckInv
<1>24. ASSUME LoadEnds PROVE CheckInv'
  <2>1. CheckTypes' /\ CheckReads'
    <3>1. load' \in BOOLEAN
      BY <1>24, Zenon DEF LoadEnds
    <3>. QED
      BY <1>24, <3>1
        DEF LoadEnds, CheckInv, CheckTypes, CheckReads, Known, Next_, AfterCollect, Publishing,
            Part, Inputs, Unread
  <2>2. CheckUses'
    BY <1>24
      DEF LoadEnds, CheckInv, CheckUses, CheckTypes, CheckReads, CheckPasses, Known, Exact, Next_,
          Differs, Stage_, AfterCollect, Publishing, Part, Inputs, Unread
  <2>3. CheckPasses' /\ CheckJudged'
    BY <1>24 DEF LoadEnds, CheckInv, CheckPasses, CheckJudged, Stage_, Backed, Exact, AfterCollect, Publishing
  <2>4. CheckEnds' /\ CheckGuards'
    BY <1>24 DEF LoadEnds, CheckInv, CheckTypes, CheckEnds, CheckGuards, Publishing
  <2>. QED
    BY <2>1, <2>2, <2>3, <2>4 DEF CheckInv
<1>25. ASSUME GuardEnds PROVE CheckInv'
  <2>1. CheckTypes' /\ CheckReads'
    BY <1>25
      DEF GuardEnds, CheckInv, CheckTypes, CheckReads, Known, Next_, AfterCollect, Publishing,
          Part, Inputs, Unread
  <2>2. CheckUses'
    BY <1>25
      DEF GuardEnds, CheckInv, CheckUses, CheckTypes, CheckReads, CheckPasses, Known, Exact, Next_,
          Differs, Stage_, AfterCollect, Publishing, Part, Inputs, Unread
  <2>3. CheckPasses' /\ CheckJudged'
    BY <1>25
      DEF GuardEnds, CheckInv, CheckPasses, CheckJudged, Stage_, Backed, Exact, AfterCollect,
          Publishing
  <2>4. CheckEnds' /\ CheckGuards'
    BY <1>25 DEF GuardEnds, CheckInv, CheckTypes, CheckEnds, CheckGuards, Publishing
  <2>. QED
    BY <2>1, <2>2, <2>3, <2>4 DEF CheckInv
<1>26. ASSUME Edit PROVE CheckInv'
  <2>1. CheckTypes' /\ CheckReads'
    BY <1>26
      DEF Edit, CheckInv, CheckTypes, CheckReads, Known, Next_, AfterCollect, Publishing, Part,
          Inputs, Unread
  <2>2. CheckUses'
    BY <1>26
      DEF Edit, CheckInv, CheckUses, CheckTypes, CheckReads, CheckPasses, Known, Exact, Next_,
          Differs, Stage_, AfterCollect, Publishing, Part, Inputs, Unread
  <2>3. CheckPasses' /\ CheckJudged'
    BY <1>26 DEF Edit, CheckInv, CheckPasses, CheckJudged, Stage_, Backed, Exact, AfterCollect, Publishing
  <2>4. CheckEnds' /\ CheckGuards'
    BY <1>26 DEF Edit, CheckInv, CheckTypes, CheckEnds, CheckGuards, Publishing
  <2>. QED
    BY <2>1, <2>2, <2>3, <2>4 DEF CheckInv
<1>27. ASSUME OutAppears PROVE CheckInv'
  <2>1. CheckTypes' /\ CheckReads'
    BY <1>27
      DEF OutAppears, CheckInv, CheckTypes, CheckReads, Known, Next_, AfterCollect, Publishing,
          Part, Inputs, Unread
  <2>2. CheckUses'
    BY <1>27
      DEF OutAppears, CheckInv, CheckUses, CheckTypes, CheckReads, CheckPasses, Known, Exact,
          Next_, Differs, Stage_, AfterCollect, Publishing, Part, Inputs, Unread
  <2>3. CheckPasses' /\ CheckJudged'
    BY <1>27
      DEF OutAppears, CheckInv, CheckPasses, CheckJudged, Stage_, Backed, Exact, AfterCollect,
          Publishing
  <2>4. CheckEnds' /\ CheckGuards'
    BY <1>27 DEF OutAppears, CheckInv, CheckTypes, CheckEnds, CheckGuards, Publishing
  <2>. QED
    BY <2>1, <2>2, <2>3, <2>4 DEF CheckInv
<1>28. ASSUME Interrupt PROVE CheckInv'
  <2>1. CheckTypes' /\ CheckReads'
    <3>1. guardTold' \in BOOLEAN /\ gap' \in BOOLEAN
      <4>1. gap' = gap \/ gap' = TRUE \/ gap' = FALSE
        BY <1>28 DEF Interrupt
      <4>2. guardTold' = guardTold \/ guardTold' = TRUE
        BY <1>28 DEF Interrupt
      <4>3. guardTold \in BOOLEAN /\ gap \in BOOLEAN
        BY DEF CheckInv, CheckTypes
      <4>4. gap' \in BOOLEAN
        BY <4>1, <4>3, Zenon
      <4>5. guardTold' \in BOOLEAN
        BY <4>2, <4>3, Zenon
      <4>. QED
        BY <4>4, <4>5
    <3>. QED
      BY <1>28, <3>1
        DEF Interrupt, CheckInv, CheckTypes, CheckReads, Known, AfterCollect, Publishing, Part,
            Inputs
  <2>2. CheckUses'
    BY <1>28
      DEF Interrupt, CheckInv, CheckUses, CheckTypes, CheckReads, CheckPasses, Known, Exact, Next_,
          Differs, Stage_, AfterCollect, Publishing, Part, Inputs, Unread
  <2>3. CheckPasses' /\ CheckJudged'
    BY <1>28
      DEF Interrupt, CheckInv, CheckPasses, CheckJudged, Stage_, Backed, Exact, AfterCollect,
          Publishing
  <2>4. CheckEnds' /\ CheckGuards'
    BY <1>28 DEF Interrupt, CheckInv, CheckTypes, CheckEnds, CheckGuards, Publishing
  <2>. QED
    BY <2>1, <2>2, <2>3, <2>4 DEF CheckInv
<1>29. ASSUME UNCHANGED check PROVE CheckInv'
  BY <1>29
    DEF check, CheckInv, CheckTypes, CheckReads, CheckUses, CheckPasses, CheckJudged, CheckEnds,
        CheckGuards,
    Known, Exact, Backed
<1>. QED
  BY <1>1, <1>2, <1>3, <1>4, <1>5, <1>6, <1>7, <1>8, <1>9, <1>10, <1>11, <1>12, <1>13, <1>14,
     <1>15, <1>16, <1>17, <1>18,
    <1>19, <1>20, <1>21, <1>22, <1>23, <1>24, <1>25, <1>26, <1>27, <1>28, <1>29 DEF CheckNext, CheckRuns

LEMMA CheckInvKept ==
  ASSUME CheckInv
  PROVE  CheckKept
<1>1. RecordIsBacked
  <2>1. ASSUME kstatus = "reproduced", NEW use \in workedOn PROVE use[2] = first[use[1]]
    <3>1. use \in Part \X Int
      BY DEF CheckInv, CheckUses
    <3>2. use = <<use[1], use[2]>> /\ use[1] \in Part /\ use[2] \in Int
      BY <3>1
    <3>3. <<use[1], use[2]>> \in workedOn
      BY <3>2
    <3>4. Exact(use[1])
      BY <2>1, <3>2 DEF CheckInv, CheckJudged, Backed
    <3>. QED
      BY <3>2, <3>3, <3>4 DEF Exact
  <2>. QED
    BY <2>1 DEF CheckInv, CheckJudged, Backed, RecordIsBacked
<1>2. OutIsOurs
  <2>1. kout = "record" => gd = "none" /\ load = FALSE
    BY DEF CheckInv, CheckTypes, CheckEnds, CheckGuards
  <2>. QED
    BY <2>1 DEF CheckInv, CheckEnds, OutIsOurs
<1>3. GuardTold
  <2>1. kpc = "ended" /\ load = TRUE => guardTold = TRUE \/ gap = TRUE
    BY DEF CheckInv, CheckTypes, CheckGuards
  <2>. QED
    BY <2>1 DEF CheckInv, CheckTypes, CheckGuards, GuardTold
<1>. QED
  BY <1>1, <1>2, <1>3 DEF CheckKept

(* project.py check: a record that says reproduced is of one version of    *)
(* everything each stage worked on, --out is the command's own, and no     *)
(* guard is left that was not told, however many edits there are.          *)
THEOREM CheckIsKept == CheckSpec => []CheckKept
<1>1. CheckInit => CheckInv
  BY CheckStarts DEF CheckInit
<1>2. CheckInv /\ [CheckNext]_check => CheckInv'
  BY StepCheck
<1>3. CheckInv => CheckKept
  BY CheckInvKept
<1>. QED
  BY <1>1, <1>2, <1>3, PTL DEF CheckSpec

-----------------------------------------------------------------------------
(* An export.  The closure of the last AIR is closed in the sources that   *)
(* it is of, whatever functions have none.                                 *)

LEMMA CalledIsClosed ==
  ASSUME NEW from \in SUBSET Function, NEW graph \in [Function -> SUBSET Function], NEW through
  PROVE  /\ Called(from, graph, through) \subseteq Function
         /\ from \subseteq Called(from, graph, through)
         /\ \A g \in Called(from, graph, through) \cap through : graph[g] \subseteq Called(from, graph, through)
<1>1. ASSUME NEW g \in Called(from, graph, through) \cap through, NEW f \in graph[g]
      PROVE  f \in Called(from, graph, through)
  <2>. SUFFICES ASSUME NEW S \in SUBSET Function, from \subseteq S, \A h \in S \cap through : graph[h] \subseteq S
                PROVE  f \in S
    BY <1>1 DEF Called
  <2>1. g \in S
    BY <1>1 DEF Called
  <2>. QED
    BY <1>1, <2>1
<1>. QED
  BY <1>1 DEF Called

LEMMA CalledIsLeast ==
  ASSUME NEW from, NEW graph, NEW through,
         NEW S \in SUBSET Function, from \subseteq S, \A g \in S \cap through : graph[g] \subseteq S
  PROVE  Called(from, graph, through) \subseteq S
BY DEF Called

AirClosed ==
  /\ Roots \subseteq air.functions
  /\ Called(Roots, CallGraph[air.free], Function \ Modelled) \subseteq air.functions \cup Modelled

(* A fixed point with every root has all that they reach.                  *)
LEMMA FixedPointCloses ==
  ASSUME air.free \in Versions, air.functions \subseteq Function, Missing = {}, Roots \subseteq air.functions
  PROVE  AirClosed
<1>. DEFINE graph == CallGraph[air.free]
            through == air.functions \ Modelled
<1>1. Roots \in SUBSET Function /\ graph \in [Function -> SUBSET Function]
  BY ExportAssumption
<1>2. Closure = Called(Roots, graph, through)
  BY Roots \cap air.functions = Roots DEF Closure
<1>. HIDE DEF graph, through
<1>3. /\ Closure \subseteq Function /\ Roots \subseteq Closure
      /\ \A g \in Closure \cap through : graph[g] \subseteq Closure
  BY <1>1, <1>2, CalledIsClosed
<1>4. Closure \subseteq air.functions \cup Modelled
  BY DEF Missing
<1>5. \A g \in Closure \cap (Function \ Modelled) : graph[g] \subseteq Closure
  BY <1>3, <1>4 DEF through
<1>6. Called(Roots, graph, Function \ Modelled) \subseteq Closure
  BY <1>3, <1>5, CalledIsLeast
<1>. QED
  BY <1>4, <1>6 DEF AirClosed, graph

Outs == {"none", "empty", "previous", "foreign", "new"}

ExportTypes ==
  /\ xpc \in {"off", "start", "compile", "compiler", "recheck", "close", "translate", "finish", "publish", "report", "ended"}
  /\ pin \in Versions /\ free \in Versions
  /\ begun.pin \in Nat /\ begun.free \in Nat
  /\ air.pin \in Versions /\ air.pin <= pin /\ air.free \in Versions /\ air.functions \subseteq Function
  /\ parked \in BOOLEAN /\ xout \in Outs /\ had \in Outs \ {"new"}

ExportEarns ==
  /\ xpc \in {"close", "translate", "finish", "publish"} => air.pin = 0
  /\ xpc \in {"translate", "finish", "publish"} => AirClosed
  /\ xout = "new" => air.pin = 0 /\ AirClosed /\ xpc \in {"report", "ended"} /\ xend # "failed"
  /\ xend = "ok" => xout = "new"
  /\ xend # "none" => xpc \in {"report", "ended"}

ExportLeaves ==
  /\ had = "foreign" => xout = "foreign"
  /\ had = "previous" => xout \in {"previous", "new"} \/ parked = TRUE
  /\ parked = TRUE => xpc \in {"publish", "report", "ended"}

ExportInv == ExportTypes /\ ExportEarns /\ ExportLeaves

LEMMA ExportStartsWell ==
  ASSUME NEW l \in {"off", "start"}, ExportAt(l)
  PROVE  ExportInv
<1>1. 0 \in Versions /\ Versions \subseteq Nat
  BY ExportAssumption
<1>2. parked \in BOOLEAN
  BY Zenon DEF ExportAt
<1>. QED
  BY <1>1, <1>2 DEF ExportAt, NoAir, ExportInv, ExportTypes, ExportEarns, ExportLeaves, Outs

LEMMA StepExport ==
  ASSUME ExportInv, [ExportNext]_export
  PROVE  ExportInv'
<1>. USE DEF Ends, Concludes, KeepsOut, sources, search
<1>0. /\ Versions \subseteq Nat /\ 0 \in Versions /\ \A v \in Versions : 0..v \subseteq Versions
      /\ AirClosed /\ air' = air => AirClosed'
  BY ExportAssumption DEF AirClosed
<1>1. ASSUME ExportStarts \/ ExportRefused \/ CompilerStarts \/ Rechecks \/ Translates \/ Reports \/ ExportInterrupt PROVE ExportInv'
  <2>1. ExportTypes'
    BY <1>1, <1>0
      DEF ExportStarts, ExportRefused, CompilerStarts, Rechecks, Translates, Reports, ExportInterrupt,
          ExportInv,
      ExportTypes, ExportEarns, Outs
  <2>2. ExportEarns'
    <3>1. air' = air /\ xout' = xout
      BY <1>1 DEF ExportStarts, ExportRefused, CompilerStarts, Rechecks, Translates, Reports, ExportInterrupt
    <3>2. AirClosed => AirClosed'
      BY <1>0, <3>1
    <3>3. CASE ExportStarts \/ ExportRefused \/ CompilerStarts
      BY <3>1, <3>2, <3>3 DEF ExportStarts, ExportRefused, CompilerStarts, ExportInv, ExportEarns
    <3>4. CASE Rechecks
      <4>1. pin = 0 => air.pin = 0
        <5>1. air.pin \in Versions /\ air.pin <= pin
          BY Zenon DEF ExportInv, ExportTypes
        <5>2. air.pin \in Nat
          BY <1>0, <5>1, Zenon
        <5>3. \A m \in Nat : m <= 0 => m = 0
          OBVIOUS
        <5>. QED
          BY <5>1, <5>2, <5>3, Zenon
      <4>. QED
        BY <3>1, <3>2, <3>4, <4>1 DEF Rechecks, ExportInv, ExportEarns
    <3>5. CASE Translates
      BY <3>1, <3>2, <3>5 DEF Translates, ExportInv, ExportEarns
    <3>6. CASE ExportInterrupt
      BY <3>1, <3>2, <3>6 DEF ExportInterrupt, ExportInv, ExportEarns
    <3>7. CASE Reports
      BY <3>1, <3>2, <3>7 DEF Reports, ExportInv, ExportEarns
    <3>. QED
      BY <1>1, <3>3, <3>4, <3>5, <3>6, <3>7
  <2>3. ExportLeaves'
    BY <1>1 DEF ExportStarts, ExportRefused, CompilerStarts, Rechecks, Translates, Reports, ExportInterrupt, ExportInv,
      ExportTypes, ExportEarns, ExportLeaves
  <2>. QED
    BY <2>1, <2>2, <2>3 DEF ExportInv
<1>2. ASSUME CompilerEnds, xpc' # "report" PROVE ExportInv'
  <2>1. PICK p \in begun.pin..pin, f \in begun.free..free :
          /\ xpc = "compiler" /\ xpc' = "recheck"
          /\ air' = [pin |-> p, free |-> f,
                     functions |-> {g \in Called(Roots, CallGraph[f], Function) \ silent : PrefixOf[g] \in filter}]
          /\ UNCHANGED <<pin, free, begun, replace, xout, parked, had, xend>>
    BY <1>2 DEF CompilerEnds
  <2>2. p \in Versions /\ p <= pin /\ f \in Versions
    BY <2>1, <1>0 DEF ExportInv, ExportTypes
  <2>3. /\ air'.pin = p /\ air'.free = f
        /\ air'.functions = {g \in Called(Roots, CallGraph[f], Function) \ silent : PrefixOf[g] \in filter}
    BY <2>1
  <2>4. air'.functions \subseteq Function
    BY <2>3 DEF Called
  <2>. QED
    BY <2>1, <2>2, <2>3, <2>4 DEF ExportInv, ExportTypes, ExportEarns, ExportLeaves
<1>3. ASSUME CompilerEnds, xpc' = "report" PROVE ExportInv'
  BY <1>3, <1>0 DEF CompilerEnds, ExportInv, ExportTypes, ExportEarns, ExportLeaves
<1>4. ASSUME ClosureCloses PROVE ExportInv'
  <2>1. /\ xpc = "close" /\ xpc' \in {"translate", "compile", "report"}
        /\ xpc' = "translate" => Missing = {} /\ Roots \subseteq air.functions
        /\ xend' = xend \/ (xpc' = "report" /\ xend' = "failed")
        /\ UNCHANGED <<pin, free, begun, air, replace, xout, parked, had>>
    BY <1>4 DEF ClosureCloses
  <2>2. xpc' = "translate" => AirClosed'
    BY <2>1, <1>0, FixedPointCloses DEF ExportInv, ExportTypes
  <2>. QED
    BY <2>1, <2>2 DEF ExportInv, ExportTypes, ExportEarns, ExportLeaves
<1>5. ASSUME Finishes PROVE ExportInv'
  <2>1. /\ xpc = "finish" /\ UNCHANGED <<pin, free, begun, air, had>>
        /\ \/ xout = "foreign" /\ xpc' = "ended" /\ xend' = "refused" /\ UNCHANGED <<xout, parked>>
           \/ xout # "foreign" /\ xpc' = "publish" /\ xout' = "none" /\ xend' = xend /\ parked' = (xout = "previous")
    BY <1>5 DEF Finishes
  <2>2. parked' \in BOOLEAN
    BY <2>1 DEF ExportInv, ExportTypes
  <2>. QED
    BY <2>1, <2>2, <1>0 DEF ExportInv, ExportTypes, ExportEarns, ExportLeaves, Outs
<1>6. ASSUME ExportPublishes PROVE ExportInv'
  BY <1>6, <1>0 DEF ExportPublishes, ExportInv, ExportTypes, ExportEarns, ExportLeaves, Outs
<1>7. ASSUME SourceEdit PROVE ExportInv'
  <2>1. /\ pin' \in Versions /\ free' \in Versions /\ (pin' = pin \/ pin' = pin + 1)
        /\ UNCHANGED <<xpc, begun, air, replace, xout, parked, had, xend>>
    BY <1>7 DEF SourceEdit
  <2>2. pin <= pin'
    BY <2>1, <1>0 DEF ExportInv, ExportTypes
  <2>3. air.pin <= pin'
    <3>1. air.pin \in Nat /\ pin \in Nat /\ pin' \in Nat /\ air.pin <= pin
      BY <2>1, <1>0 DEF ExportInv, ExportTypes
    <3>. QED
      BY <3>1, <2>2
  <2>. QED
    BY <2>1, <2>3, <1>0 DEF ExportInv, ExportTypes, ExportEarns, ExportLeaves
<1>8. ASSUME ExportOutAppears PROVE ExportInv'
  BY <1>8, <1>0 DEF ExportOutAppears, ExportInv, ExportTypes, ExportEarns, ExportLeaves, Outs
<1>9. ASSUME UNCHANGED export PROVE ExportInv'
  BY <1>9, <1>0 DEF export, ExportInv, ExportTypes, ExportEarns, ExportLeaves
<1>. QED
  BY <1>1, <1>2, <1>3, <1>4, <1>5, <1>6, <1>7, <1>8, <1>9 DEF ExportNext, ExportRuns

LEMMA ExportInvKept ==
  ASSUME ExportInv
  PROVE  ExportKept
BY
  DEF ExportInv, ExportTypes, ExportEarns, ExportLeaves, AirClosed, ExportKept, ArtifactClosed,
      PinnedExact, OutKept, OutTold

(* project.py export: what is published is closed in the sources it is of, *)
(* of the pinned version, and what others have put there stays, whatever   *)
(* the sources, the functions without AIR and the bound on iterations.     *)
THEOREM ExportIsKept == ExportSpec => []ExportKept
<1>1. ExportInit => ExportInv
  BY ExportStartsWell DEF ExportInit
<1>2. ExportInv /\ [ExportNext]_export => ExportInv'
  BY StepExport
<1>3. ExportInv => ExportKept
  BY ExportInvKept
<1>. QED
  BY <1>1, <1>2, <1>3, PTL DEF ExportSpec

-----------------------------------------------------------------------------
(* The generated branch.  A publisher adds what its clone of main has and  *)
(* the branch had not, when it fetched the branch that it pushes to.       *)

(* A finite set of integers has a greatest one: one with the fewest above. *)
LEMMA MaxOfFinite ==
  ASSUME NEW S \in SUBSET Int, IsFiniteSet(S), S # {}
  PROVE  Max(S) \in S /\ \A x \in S : x <= Max(S)
<1>. DEFINE Above(x) == {y \in S : y > x}
            T == {Above(x) : x \in S}
            Wider == StrictSubsetOrdering(S)
<1>1. T \subseteq SUBSET S /\ T # {}
  OBVIOUS
<1>2. IsWellFoundedOn(Wider, SUBSET S)
  BY FS_StrictSubsetOrderingWellFounded, FS_FiniteSubsetsOfFinite
<1>3. PICK a \in T : \A b \in T : ~(<<b, a>> \in Wider)
  <2>. HIDE DEF T, Wider
  <2>. QED
    BY <1>1, <1>2, WFMin
<1>4. PICK m \in S : a = Above(m)
  BY <1>3
<1>5. ASSUME NEW x \in S, x > m PROVE FALSE
  <2>1. Above(x) \subseteq Above(m) /\ x \in Above(m) /\ x \notin Above(x)
    <3>1. x \in Int /\ m \in Int /\ S \subseteq Int
      OBVIOUS
    <3>2. \A y \in S : y > x => y > m
      BY <3>1, <1>5
    <3>3. x \in S /\ x > m /\ ~(x > x)
      BY <3>1, <1>5
    <3>. QED
      BY <3>2, <3>3, Zenon
  <2>2. <<Above(x), Above(m)>> \in Wider
    BY <2>1 DEF StrictSubsetOrdering
  <2>. QED
    BY <1>3, <1>4, <2>2
<1>6. \A x \in S : m >= x
  BY <1>5
<1>. QED
  BY <1>6 DEF Max

Increasing(s) == \A i, j \in DOMAIN s : i < j => s[i] < s[j]
Below(s, t) == \A i \in DOMAIN s, j \in DOMAIN t : s[i] < t[j]
UpTo(s, n) == \A i \in DOMAIN s : s[i] <= n

GeneratedTypes ==
  /\ main \in Nat /\ branch \in Seq(Nat) /\ UpTo(branch, main) /\ byHand \in BOOLEAN
  /\ gpub \in [Publishers -> {"idle", "clone", "look"}] /\ clone \in [Publishers -> Nat]
  /\ base \in [Publishers -> Seq(Nat)] /\ todo \in [Publishers -> Seq(Nat)] /\ fresh \in [Publishers -> Seq(Nat)]

(* What a publisher has made goes up to what it has still to look at; all  *)
(* is of its clone, and after what the branch it fetched has of the clone. *)
PublisherOK(p) ==
  /\ clone[p] <= main
  /\ gpub[p] = "look" =>
       /\ Increasing(fresh[p]) /\ Increasing(todo[p]) /\ Below(fresh[p], todo[p])
       /\ UpTo(fresh[p], clone[p]) /\ UpTo(todo[p], clone[p])
       /\ \A i \in DOMAIN base[p] : base[p][i] <= clone[p] =>
            /\ \A j \in DOMAIN fresh[p] : base[p][i] < fresh[p][j]
            /\ \A j \in DOMAIN todo[p] : base[p][i] < todo[p][j]
  /\ p = Job1 /\ gpub[p] # "idle" /\ byHand = FALSE => UpTo(branch, clone[p])

GeneratedInv ==
  /\ GeneratedTypes
  /\ \A p \in Publishers : PublisherOK(p)
  /\ OneEntryEach

(* pending: what is after the newest entry of the clone.                   *)
LEMMA PendingIsAfter ==
  ASSUME NEW p \in Publishers, clone[p] \in Nat, NEW b \in Seq(Nat)
  PROVE  /\ Pending(p, b) \in Seq(Nat) /\ Increasing(Pending(p, b)) /\ UpTo(Pending(p, b), clone[p])
         /\ \A i \in DOMAIN b : b[i] <= clone[p] => \A j \in DOMAIN Pending(p, b) : b[i] < Pending(p, b)[j]
<1>. DEFINE S == {0} \cup {c \in Entries(b) : c <= clone[p]}
            newest == Max(S)
<1>1. S \subseteq 0..clone[p] /\ 0 \in S
  BY DEF Entries, ToSet
<1>2. IsFiniteSet(S)
  <2>1. IsFiniteSet(0..clone[p])
    BY 0 \in Int, clone[p] \in Int, FS_Interval
  <2>. HIDE DEF S
  <2>. QED
    BY <1>1, <2>1, FS_Subset
<1>3. newest \in S /\ \A x \in S : x <= newest
  <2>. HIDE DEF S
  <2>. QED
    BY <1>1, <1>2, MaxOfFinite
<1>4. newest \in 0..clone[p]
  BY <1>1, <1>3
<1>5. \A i \in DOMAIN b : b[i] <= clone[p] => b[i] <= newest
  BY <1>3 DEF Entries, ToSet
<1>6. Pending(p, b) = [i \in 1..(clone[p] - newest) |-> newest + i]
  BY DEF Pending
<1>. HIDE DEF newest
<1>7. /\ DOMAIN Pending(p, b) = 1..(clone[p] - newest)
      /\ \A j \in 1..(clone[p] - newest) : Pending(p, b)[j] = newest + j
      /\ Pending(p, b) \in Seq(Nat)
  <2>1. clone[p] - newest \in Nat /\ \A j \in 1..(clone[p] - newest) : newest + j \in Nat
    BY <1>4
  <2>2. Pending(p, b) \in [1..(clone[p] - newest) -> Nat]
    BY <1>6, <2>1
  <2>3. Pending(p, b) \in Seq(Nat)
    <3>. DEFINE k == clone[p] - newest
    <3>1. k \in Nat /\ Pending(p, b) \in [1..k -> Nat]
      BY <2>1, <2>2
    <3>. HIDE DEF k
    <3>. QED
      BY <3>1
  <2>. QED
    BY <1>6, <2>3
<1>. HIDE DEF S
<1>. QED
  BY <1>4, <1>5, <1>7 DEF Increasing, UpTo

LEMMA GeneratedStarts ==
  ASSUME GeneratedInit
  PROVE  GeneratedInv
<1>1. <<>> \in Seq(Nat) /\ branch = <<>> /\ DOMAIN branch = {} /\ Len(branch) = 0
  BY DEF GeneratedInit
<1>2. byHand \in BOOLEAN
  BY Zenon DEF GeneratedInit
<1>3. GeneratedTypes
  BY <1>1, <1>2 DEF GeneratedInit, GeneratedTypes, UpTo
<1>4. \A p \in Publishers : PublisherOK(p)
  BY <1>1 DEF GeneratedInit, PublisherOK, UpTo
<1>. QED
  BY <1>1, <1>3, <1>4 DEF GeneratedInv, OneEntryEach

(* A step of a publisher leaves what the other one knows.                  *)
LEMMA OtherPublisher ==
  ASSUME GeneratedInv, NEW p, NEW q \in Publishers, q # p,
         gpub'[q] = gpub[q], clone'[q] = clone[q], base'[q] = base[q], todo'[q] = todo[q], fresh'[q] = fresh[q],
         main' = main, branch' = branch \/ (q = Job1 => byHand' = TRUE), byHand = TRUE => byHand' = TRUE,
         byHand \in BOOLEAN
  PROVE  PublisherOK(q)'
BY DEF GeneratedInv, PublisherOK

(* Where the branch stays.                                                 *)
LEMMA BranchStays ==
  ASSUME GeneratedInv, NEW p \in Publishers, UNCHANGED <<main, branch, byHand>>,
         gpub' \in [Publishers -> {"idle", "clone", "look"}], clone' \in [Publishers -> Nat],
         base' \in [Publishers -> Seq(Nat)], todo' \in [Publishers -> Seq(Nat)], fresh' \in [Publishers -> Seq(Nat)],
         \A q \in Publishers \ {p} :
           /\ gpub'[q] = gpub[q] /\ clone'[q] = clone[q] /\ base'[q] = base[q] /\ todo'[q] = todo[q]
           /\ fresh'[q] = fresh[q],
         PublisherOK(p)'
  PROVE  GeneratedInv'
<1>1. GeneratedTypes'
  BY DEF GeneratedInv, GeneratedTypes
<1>2. \A q \in Publishers : PublisherOK(q)'
  BY OtherPublisher DEF GeneratedInv, GeneratedTypes
<1>3. OneEntryEach'
  BY DEF GeneratedInv, OneEntryEach
<1>. QED
  BY <1>1, <1>2, <1>3 DEF GeneratedInv

(* What is left of a sequence after its first element.                     *)
LEMMA TailGoesOn ==
  ASSUME NEW s \in Seq(Nat), s # <<>>
  PROVE  /\ Tail(s) \in Seq(Nat) /\ Head(s) \in Nat /\ 1 \in DOMAIN s /\ Head(s) = s[1]
         /\ \A i \in DOMAIN Tail(s) : i + 1 \in DOMAIN s /\ Tail(s)[i] = s[i + 1] /\ i \in Nat /\ i > 0
<1>1. Len(s) \in Nat /\ Len(s) # 0 /\ DOMAIN s = 1..Len(s)
  BY EmptySeq
<1>. QED
  BY <1>1

LEMMA StepPublisher ==
  ASSUME GeneratedInv, NEW p \in Publishers,
         Checkout(p) \/ Fetch(p) \/ Waits(p) \/ Skips(p) \/ Makes(p) \/ Fails_(p)
  PROVE  GeneratedInv'
<1>0. /\ GeneratedTypes /\ PublisherOK(p) /\ <<>> \in Seq(Nat)
      /\ clone[p] \in Nat /\ base[p] \in Seq(Nat) /\ todo[p] \in Seq(Nat) /\ fresh[p] \in Seq(Nat)
      /\ DOMAIN <<>> = {}
  BY DEF GeneratedInv, GeneratedTypes
<1>1. ASSUME Checkout(p) PROVE GeneratedInv'
  <2>1. /\ gpub' = [gpub EXCEPT ![p] = "clone"] /\ clone' = [clone EXCEPT ![p] = main] /\ base' = [base EXCEPT ![p] = branch]
        /\ UNCHANGED <<main, branch, byHand, todo, fresh>>
    BY <1>1 DEF Checkout, runs_
  <2>2. PublisherOK(p)'
    BY <2>1, <1>0 DEF PublisherOK, GeneratedTypes
  <2>. QED
    BY <2>1, <2>2, <1>0, BranchStays DEF GeneratedTypes
<1>2. ASSUME Fetch(p) PROVE GeneratedInv'
  <2>1. PICK b \in {branch, base[p]} :
          /\ base' = [base EXCEPT ![p] = b] /\ todo' = [todo EXCEPT ![p] = Pending(p, b)]
          /\ fresh' = [fresh EXCEPT ![p] = <<>>] /\ gpub' = [gpub EXCEPT ![p] = "look"] /\ gpub[p] = "clone"
          /\ UNCHANGED <<main, branch, byHand, clone>>
    BY <1>2 DEF Fetch, runs_
  <2>2. b \in Seq(Nat)
    BY <1>0 DEF GeneratedTypes
  <2>. DEFINE due == Pending(p, b)
  <2>3. /\ due \in Seq(Nat) /\ Increasing(due) /\ UpTo(due, clone[p])
        /\ \A i \in DOMAIN b : b[i] <= clone[p] => \A j \in DOMAIN due : b[i] < due[j]
    BY <2>2, <1>0, PendingIsAfter
  <2>. HIDE DEF due
  <2>4. base'[p] = b /\ todo'[p] = due /\ fresh'[p] = <<>> /\ gpub'[p] = "look"
    BY <2>1, <1>0 DEF GeneratedTypes, due
  <2>5. PublisherOK(p)'
    BY <2>1, <2>3, <2>4, <1>0 DEF PublisherOK, Increasing, Below, UpTo
  <2>6. todo' \in [Publishers -> Seq(Nat)] /\ \A q \in Publishers \ {p} : todo'[q] = todo[q]
    BY <2>1, <2>3, <1>0 DEF GeneratedTypes, due
  <2>. QED
    BY <2>1, <2>2, <2>5, <2>6, <1>0, BranchStays DEF GeneratedTypes
<1>3. ASSUME Waits(p) PROVE GeneratedInv'
  <2>1. todo' = [todo EXCEPT ![p] = <<>>] /\ UNCHANGED <<main, branch, byHand, gpub, clone, base, fresh>>
    BY <1>3 DEF Waits, runs_
  <2>2. PublisherOK(p)'
    BY <2>1, <1>0 DEF PublisherOK, GeneratedTypes, Increasing, Below, UpTo
  <2>. QED
    BY <2>1, <2>2, <1>0, BranchStays DEF GeneratedTypes
<1>4. ASSUME Skips(p) PROVE GeneratedInv'
  <2>1. /\ todo[p] # <<>> /\ todo' = [todo EXCEPT ![p] = Tail(todo[p])]
        /\ UNCHANGED <<main, branch, byHand, gpub, clone, base, fresh>>
    BY <1>4 DEF Skips, runs_
  <2>. DEFINE rest == Tail(todo[p])
  <2>2. rest \in Seq(Nat) /\ \A i \in DOMAIN rest : i + 1 \in DOMAIN todo[p] /\ rest[i] = todo[p][i + 1] /\ i \in Nat /\ i > 0
    BY <2>1, <1>0, TailGoesOn
  <2>3. todo'[p] = rest
    BY <2>1, <1>0 DEF GeneratedTypes
  <2>. HIDE DEF rest
  <2>4. PublisherOK(p)'
    BY <2>1, <2>2, <2>3, <1>0 DEF PublisherOK, GeneratedTypes, Increasing, Below, UpTo
  <2>5. todo' \in [Publishers -> Seq(Nat)] /\ \A q \in Publishers \ {p} : todo'[q] = todo[q]
    BY <2>1, <2>2, <1>0 DEF GeneratedTypes, rest
  <2>. QED
    BY <2>1, <2>4, <2>5, <1>0, BranchStays DEF GeneratedTypes
<1>5. ASSUME Makes(p) PROVE GeneratedInv'
  <2>1. /\ todo[p] # <<>> /\ todo' = [todo EXCEPT ![p] = Tail(todo[p])] /\ gpub[p] = "look"
        /\ fresh' = [fresh EXCEPT ![p] = Append(fresh[p], Head(todo[p]))]
        /\ UNCHANGED <<main, branch, byHand, gpub, clone, base>>
    BY <1>5 DEF Makes, runs_
  <2>. DEFINE rest == Tail(todo[p])
              more == Append(fresh[p], Head(todo[p]))
  <2>2. /\ rest \in Seq(Nat) /\ Head(todo[p]) \in Nat /\ 1 \in DOMAIN todo[p] /\ Head(todo[p]) = todo[p][1]
        /\ \A i \in DOMAIN rest : i + 1 \in DOMAIN todo[p] /\ rest[i] = todo[p][i + 1] /\ i \in Nat /\ i > 0
    BY <2>1, <1>0, TailGoesOn
  <2>3. /\ more \in Seq(Nat)
        /\ \A j \in DOMAIN more : (j \in DOMAIN fresh[p] /\ more[j] = fresh[p][j])
             \/ (j = Len(fresh[p]) + 1 /\ more[j] = todo[p][1])
    BY <2>2, <1>0
  <2>4. /\ Len(fresh[p]) \in Nat /\ \A j \in DOMAIN fresh[p] : j \in Nat /\ j < Len(fresh[p]) + 1 /\ fresh[p][j] \in Nat
        /\ \A j \in DOMAIN todo[p] : j \in Nat /\ todo[p][j] \in Nat
    BY <1>0
  <2>5. todo'[p] = rest /\ fresh'[p] = more
    BY <2>1, <1>0 DEF GeneratedTypes
  <2>. HIDE DEF rest, more
  <2>6. PublisherOK(p)'
    <3>1. /\ Increasing(fresh[p]) /\ Increasing(todo[p]) /\ Below(fresh[p], todo[p])
          /\ UpTo(fresh[p], clone[p]) /\ UpTo(todo[p], clone[p])
          /\ \A i \in DOMAIN base[p] : base[p][i] <= clone[p] =>
               /\ \A j \in DOMAIN fresh[p] : base[p][i] < fresh[p][j]
               /\ \A j \in DOMAIN todo[p] : base[p][i] < todo[p][j]
      BY <2>1, <1>0 DEF PublisherOK
    <3>2. Increasing(rest) /\ UpTo(rest, clone[p])
      BY <3>1, <2>2 DEF Increasing, UpTo
    <3>a. \A j \in DOMAIN fresh[p] : fresh[p][j] < todo[p][1]
      BY <3>1, <2>2 DEF Below
    <3>b. \A j \in DOMAIN rest : todo[p][1] < rest[j]
      <4>1. \A j \in DOMAIN rest : 1 < j + 1
        BY <2>2
      <4>. QED
        BY <4>1, <3>1, <2>2 DEF Increasing
    <3>c. UpTo(more, clone[p])
      BY <3>1, <2>2, <2>3 DEF UpTo
    <3>3. Increasing(more)
      <4>. SUFFICES ASSUME NEW i \in DOMAIN more, NEW j \in DOMAIN more, i < j PROVE more[i] < more[j]
        BY DEF Increasing
      <4>1. CASE j \in DOMAIN fresh[p] /\ more[j] = fresh[p][j]
        <5>1. i \in DOMAIN fresh[p] /\ more[i] = fresh[p][i]
          BY <4>1, <2>3, <2>4
        <5>. QED
          BY <4>1, <5>1, <3>1 DEF Increasing
      <4>2. CASE j = Len(fresh[p]) + 1 /\ more[j] = todo[p][1]
        <5>1. i \in DOMAIN fresh[p] /\ more[i] = fresh[p][i]
          BY <4>2, <2>3, <2>4
        <5>. QED
          BY <4>2, <5>1, <3>a
      <4>. QED
        BY <4>1, <4>2, <2>3
    <3>4. Below(more, rest)
      <4>. SUFFICES ASSUME NEW i \in DOMAIN more, NEW j \in DOMAIN rest PROVE more[i] < rest[j]
        BY DEF Below
      <4>1. CASE i \in DOMAIN fresh[p] /\ more[i] = fresh[p][i]
        BY <4>1, <3>1, <2>2 DEF Below
      <4>2. CASE more[i] = todo[p][1]
        BY <4>2, <3>b
      <4>. QED
        BY <4>1, <4>2, <2>3
    <3>5. \A i \in DOMAIN base[p] : base[p][i] <= clone[p] =>
            /\ \A j \in DOMAIN more : base[p][i] < more[j]
            /\ \A j \in DOMAIN rest : base[p][i] < rest[j]
      BY <3>1, <2>2, <2>3
    <3>. QED
      BY <3>2, <3>c, <3>3, <3>4, <3>5, <2>1, <2>5, <1>0 DEF PublisherOK
  <2>7. /\ todo' \in [Publishers -> Seq(Nat)] /\ \A q \in Publishers \ {p} : todo'[q] = todo[q]
        /\ fresh' \in [Publishers -> Seq(Nat)] /\ \A q \in Publishers \ {p} : fresh'[q] = fresh[q]
    BY <2>1, <2>2, <2>3, <1>0 DEF GeneratedTypes, rest, more
  <2>. QED
    BY <2>1, <2>6, <2>7, <1>0, BranchStays DEF GeneratedTypes
<1>6. ASSUME Fails_(p) PROVE GeneratedInv'
  <2>1. /\ gpub[p] = "look" /\ UNCHANGED <<main, branch, byHand>>
        /\ todo' = [todo EXCEPT ![p] = <<>>] /\ fresh' = [fresh EXCEPT ![p] = <<>>]
        /\ \/ gpub' = [gpub EXCEPT ![p] = "clone"] /\ UNCHANGED <<clone, base>>
           \/ /\ gpub' = [gpub EXCEPT ![p] = "idle"] /\ clone' = [clone EXCEPT ![p] = 0]
              /\ base' = [base EXCEPT ![p] = <<>>]
    BY <1>6 DEF Fails_, Done, runs_
  <2>2. PublisherOK(p)'
    BY <2>1, <1>0 DEF PublisherOK, GeneratedTypes
  <2>3. /\ gpub' \in [Publishers -> {"idle", "clone", "look"}] /\ clone' \in [Publishers -> Nat]
        /\ base' \in [Publishers -> Seq(Nat)] /\ todo' \in [Publishers -> Seq(Nat)]
        /\ fresh' \in [Publishers -> Seq(Nat)]
    <3>1. CASE UNCHANGED <<clone, base>>
      BY <2>1, <3>1, <1>0 DEF GeneratedTypes
    <3>2. CASE clone' = [clone EXCEPT ![p] = 0] /\ base' = [base EXCEPT ![p] = <<>>]
      BY <2>1, <3>2, <1>0 DEF GeneratedTypes
    <3>. QED
      BY <2>1, <3>1, <3>2
  <2>4. \A q \in Publishers \ {p} :
          /\ gpub'[q] = gpub[q] /\ clone'[q] = clone[q] /\ base'[q] = base[q] /\ todo'[q] = todo[q]
          /\ fresh'[q] = fresh[q]
    BY <2>1, <1>0 DEF GeneratedTypes
  <2>. QED
    BY <2>1, <2>2, <2>3, <2>4, BranchStays
<1>. QED
  BY <1>1, <1>2, <1>3, <1>4, <1>5, <1>6

(* git push moves the branch forward only.                                 *)
LEMMA PushAppends ==
  ASSUME GeneratedInv, NEW p \in Publishers, Push(p)
  PROVE  /\ GeneratedInv'
         /\ branch' = branch \/ (fresh[p] \in Seq(Nat) /\ branch' = branch \o fresh[p])
<1>0. /\ GeneratedTypes /\ PublisherOK(p) /\ <<>> \in Seq(Nat) /\ Job1 # Hand
      /\ clone[p] \in Nat /\ base[p] \in Seq(Nat) /\ fresh[p] \in Seq(Nat) /\ branch \in Seq(Nat)
      /\ DOMAIN <<>> = {} /\ clone[p] <= main /\ main \in Nat
  BY GeneratedAssumption DEF GeneratedInv, GeneratedTypes, PublisherOK
<1>1. /\ gpub[p] = "look" /\ main' = main
      /\ \/ branch' = branch
         \/ fresh[p] # <<>> /\ branch = base[p] /\ branch' = branch \o fresh[p]
      /\ byHand' = (byHand \/ (p = Hand /\ fresh[p] # <<>>))
      /\ gpub' = [gpub EXCEPT ![p] = "idle"] /\ clone' = [clone EXCEPT ![p] = 0]
      /\ base' = [base EXCEPT ![p] = <<>>] /\ todo' = [todo EXCEPT ![p] = <<>>]
      /\ fresh' = [fresh EXCEPT ![p] = <<>>]
  BY DEF Push, Done, runs_
<1>2. /\ byHand' \in BOOLEAN /\ (byHand = TRUE => byHand' = TRUE)
      /\ (branch' # branch /\ p = Hand => byHand' = TRUE)
  <2>1. byHand \in BOOLEAN
    BY <1>0 DEF GeneratedTypes
  <2>. QED
    BY <1>1, <2>1, Zenon
<1>3. \A q \in Publishers : PublisherOK(q)'
  <2>1. gpub'[p] = "idle" /\ clone'[p] = 0
    BY <1>1, <1>0 DEF GeneratedTypes
  <2>2. PublisherOK(p)'
    BY <2>1, <1>1, <1>0 DEF PublisherOK
  <2>3. ASSUME NEW q \in Publishers, q # p PROVE PublisherOK(q)'
    <3>1. p = Job1 \/ p = Hand
      BY DEF Publishers
    <3>2. q = Job1 => p = Hand
      BY <3>1, <2>3
    <3>3. /\ gpub'[q] = gpub[q] /\ clone'[q] = clone[q] /\ base'[q] = base[q] /\ todo'[q] = todo[q] /\ fresh'[q] = fresh[q]
      BY <1>1, <1>0, <2>3 DEF GeneratedTypes
    <3>4. byHand \in BOOLEAN /\ (branch' = branch \/ (q = Job1 => byHand' = TRUE))
      BY <1>2, <1>0, <3>2 DEF GeneratedTypes
    <3>. QED
      BY <3>3, <3>4, <1>1, <1>2, <2>3, OtherPublisher
  <2>. QED
    BY <2>2, <2>3
<1>4. CASE branch' = branch
  <2>1. OneEntryEach'
    BY <1>2, <1>4, <1>0 DEF GeneratedInv, GeneratedTypes, OneEntryEach
  <2>. QED
    BY <1>0, <1>1, <1>2, <1>3, <1>4, <2>1 DEF GeneratedInv, GeneratedTypes
<1>5. CASE branch' # branch
  <2>. DEFINE new == fresh[p]
              n == Len(branch)
  <2>1. /\ branch = base[p] /\ branch' = branch \o new /\ n \in Nat /\ Len(new) \in Nat
        /\ DOMAIN branch = 1..n /\ DOMAIN new = 1..Len(new)
        /\ (\A i \in DOMAIN branch : branch[i] \in Nat) /\ (\A i \in DOMAIN new : new[i] \in Nat)
    BY <1>0, <1>1, <1>5
  <2>2. /\ branch' \in Seq(Nat) /\ Len(branch') = n + Len(new)
        /\ \A i \in 1..Len(branch') :
             \/ i \in DOMAIN branch /\ branch'[i] = branch[i]
             \/ i > n /\ i - n \in DOMAIN new /\ branch'[i] = new[i - n]
    <3>. HIDE DEF new
    <3>1. new \in Seq(Nat)
      BY <1>0 DEF new
    <3>. QED
      BY <2>1, <3>1, <1>0
  <2>3. /\ Increasing(new) /\ UpTo(new, clone[p])
        /\ \A i \in DOMAIN branch : branch[i] <= clone[p] => \A j \in DOMAIN new : branch[i] < new[j]
        /\ p = Job1 /\ byHand = FALSE => UpTo(branch, clone[p])
    BY <1>0, <1>1, <2>1 DEF PublisherOK
  <2>. HIDE DEF new, n
  <2>4. OneEntryEach'
    <3>. SUFFICES ASSUME NEW i \in 1..Len(branch'), NEW j \in 1..Len(branch'), i < j
                  PROVE  branch'[i] # branch'[j] /\ (byHand' = FALSE => branch'[i] < branch'[j])
      BY <1>2 DEF OneEntryEach
    <3>1. CASE j \in DOMAIN branch
      <4>1. i \in DOMAIN branch /\ i \in 1..Len(branch) /\ j \in 1..Len(branch) /\ branch'[i] = branch[i] /\ branch'[j] = branch[j]
        BY <3>1, <2>1, <2>2 DEF n
      <4>2. byHand' = FALSE => byHand = FALSE
        BY <1>0, <1>2 DEF GeneratedTypes
      <4>. QED
        BY <4>1, <4>2 DEF GeneratedInv, OneEntryEach
    <3>2. CASE i \notin DOMAIN branch
      <4>1. i \in Nat /\ j \in Nat /\ j > n /\ i > n
        BY <3>2, <2>1, <2>2
      <4>2. i - n \in DOMAIN new /\ j - n \in DOMAIN new /\ branch'[i] = new[i - n] /\ branch'[j] = new[j - n]
        <5>1. i \notin DOMAIN branch /\ j \notin DOMAIN branch
          BY <3>2, <4>1, <2>1
        <5>. QED
          BY <5>1, <2>2
      <4>3. i - n < j - n
        BY <4>1, <2>1
      <4>4. new[i - n] < new[j - n]
        BY <4>2, <4>3, <2>3 DEF Increasing
      <4>5. new[i - n] \in Nat /\ new[j - n] \in Nat
        BY <4>2, <2>1
      <4>. QED
        BY <4>2, <4>4, <4>5
    <3>3. CASE i \in DOMAIN branch /\ j \notin DOMAIN branch
      <4>1. branch'[i] = branch[i] /\ j - n \in DOMAIN new /\ branch'[j] = new[j - n] /\ new[j - n] <= clone[p]
        <5>1. branch'[i] = branch[i] /\ j - n \in DOMAIN new /\ branch'[j] = new[j - n]
          BY <3>3, <2>1, <2>2
        <5>. QED
          BY <5>1, <2>3 DEF UpTo
      <4>2. byHand' = FALSE => branch[i] <= clone[p]
        <5>1. p = Job1 \/ p = Hand
          BY DEF Publishers
        <5>2. byHand' = FALSE => p = Job1 /\ byHand = FALSE
          BY <5>1, <1>0, <1>2, <1>5 DEF GeneratedTypes
        <5>. QED
          BY <5>2, <3>3, <2>3 DEF UpTo
      <4>3. branch[i] <= clone[p] => branch[i] < new[j - n]
        BY <4>1, <3>3, <2>3
      <4>4. branch[i] \in Nat /\ new[j - n] \in Nat /\ clone[p] \in Nat
        BY <4>1, <3>3, <2>1, <1>0
      <4>. QED
        BY <4>1, <4>2, <4>3, <4>4
    <3>. QED
      BY <3>1, <3>2, <3>3
  <2>5. UpTo(branch', main)
    BY <1>0, <2>1, <2>2, <2>3 DEF UpTo, GeneratedTypes
  <2>. QED
    BY <1>0, <1>1, <1>2, <1>3, <2>1, <2>2, <2>4, <2>5 DEF GeneratedInv, GeneratedTypes, new
<1>. QED
  BY <1>4, <1>5

LEMMA StepGenerated ==
  ASSUME GeneratedInv, [GeneratedNext]_generated
  PROVE  GeneratedInv'
<1>1. ASSUME Land \/ RunsComplete \/ (\E c \in Commit : RunAgain(c)) \/ UNCHANGED generated PROVE GeneratedInv'
  <2>1. /\ main' = main \/ main' = main + 1
        /\ UNCHANGED <<branch, byHand, gpub, clone, base, todo, fresh>>
    BY <1>1 DEF Land, RunsComplete, Completes, RunAgain, generated, runs_, pubs
  <2>2. main \in Nat /\ main' \in Nat /\ main <= main' /\ (\A p \in Publishers : clone[p] \in Nat)
        /\ \A i \in DOMAIN branch : branch[i] \in Nat
    BY <2>1 DEF GeneratedInv, GeneratedTypes
  <2>3. GeneratedTypes'
    BY <2>1, <2>2 DEF GeneratedInv, GeneratedTypes, UpTo
  <2>4. \A p \in Publishers : PublisherOK(p)'
    BY <2>1, <2>2 DEF GeneratedInv, PublisherOK
  <2>5. OneEntryEach'
    BY <2>1 DEF GeneratedInv, OneEntryEach
  <2>. QED
    BY <2>3, <2>4, <2>5 DEF GeneratedInv
<1>2. Job1 \in Publishers /\ Hand \in Publishers
  BY DEF Publishers
<1>. QED
  BY <1>1, <1>2, StepPublisher, PushAppends DEF GeneratedNext, GeneratedRuns, PublisherActs

LEMMA OnlyAppends ==
  ASSUME GeneratedInv, [GeneratedNext]_generated
  PROVE  [IsPrefix(branch, branch')]_branch
<1>1. ASSUME NEW s \in Seq(Nat), NEW t \in Seq(Nat) PROVE IsPrefix(s, s \o t)
  <2>1. Len(s) \in Nat /\ Len(s \o t) = Len(s) + Len(t) /\ Len(t) \in Nat
    OBVIOUS
  <2>2. SubSeq(s, 1, Len(s)) = SubSeq(s \o t, 1, Len(s))
    OBVIOUS
  <2>. QED
    BY <2>1, <2>2 DEF IsPrefix
<1>2. branch \in Seq(Nat) /\ Job1 \in Publishers /\ Hand \in Publishers
  BY DEF GeneratedInv, GeneratedTypes, Publishers
<1>3. branch' = branch \/ \E t \in Seq(Nat) : branch' = branch \o t
  <2>1. ASSUME NEW p \in Publishers, Push(p) PROVE branch' = branch \/ \E t \in Seq(Nat) : branch' = branch \o t
    BY <2>1, PushAppends
  <2>2. ASSUME NEW p \in Publishers, Checkout(p) \/ Fetch(p) \/ Waits(p) \/ Skips(p) \/ Makes(p) \/ Fails_(p)
        PROVE  branch' = branch
    BY <2>2 DEF Checkout, Fetch, Waits, Skips, Makes, Fails_
  <2>3. ASSUME Land \/ RunsComplete \/ (\E c \in Commit : RunAgain(c)) \/ UNCHANGED generated PROVE branch' = branch
    BY <2>3 DEF Land, RunsComplete, Completes, RunAgain, generated
  <2>. QED
    BY <2>1, <2>2, <2>3, <1>2 DEF GeneratedNext, GeneratedRuns, PublisherActs
<1>. QED
  BY <1>1, <1>2, <1>3

LEMMA OnlyEntries == GeneratedInit /\ [][GeneratedNext]_generated => BranchKept
<1>1. GeneratedInit => GeneratedInv
  BY GeneratedStarts
<1>2. GeneratedInv /\ [GeneratedNext]_generated => GeneratedInv'
  BY StepGenerated
<1>3. GeneratedInv => OneEntryEach
  BY DEF GeneratedInv
<1>4. GeneratedInv /\ [GeneratedNext]_generated => [IsPrefix(branch, branch')]_branch
  BY OnlyAppends
<1>. QED
  BY <1>1, <1>2, <1>3, <1>4, PTL DEF BranchKept, OnlyGrows

(* generated.py publish: one entry for each commit, in main's order while  *)
(* only the workflow publishes, and a branch that only grows, whatever the *)
(* bounds on commits, runs and attempts.                                   *)
THEOREM BranchIsKept == GeneratedSpec => BranchKept
BY OnlyEntries, PTL DEF GeneratedSpec

-----------------------------------------------------------------------------
(* The types of the rest of the state of a system, inductive with the      *)
(* invariants above.                                                       *)

(* A directory on disk holds one file or none.                             *)
OneFile ==
  /\ power = TRUE \/ power = FALSE
  /\ \A d \in disk : d = {} \/ \E f \in d : d = {f}

LEMMA OneFileStarts ==
  ASSUME PublicationInit
  PROVE  PublicationInv /\ OneFile
<1>1. dest = {} \/ \E f \in dest : dest = {f}
  BY DEF PublicationInit, Old
<1>. QED
  BY <1>1
    DEF PublicationInit, PublicationInv, Shaped, Durable, Beside, NothingBeside, Old, Synced, OneFile

LEMMA StepOneFile ==
  ASSUME PublicationInv, OneFile, [PublicationNext]_publication
  PROVE  OneFile'
<1>1. ASSUME PowerFails PROVE OneFile'
  <2>1. PICK d \in disk :
          /\ dest' = {[f EXCEPT !.data = IF @ = "synced" THEN "synced" ELSE "part"] : f \in d}
          /\ disk' = {dest'} /\ power' = FALSE
    BY <1>1 DEF PowerFails
  <2>2. d = {} \/ \E f \in d : d = {f}
    BY DEF OneFile
  <2>. DEFINE cut(f) == [f EXCEPT !.data = IF @ = "synced" THEN "synced" ELSE "part"]
  <2>3. dest' = {cut(f) : f \in d}
    BY <2>1
  <2>. HIDE DEF cut
  <2>4. dest' = {} \/ \E g \in dest' : dest' = {g}
    BY <2>2, <2>3
  <2>. QED
    BY <2>1, <2>4 DEF OneFile
<1>2. ASSUME NEW p \in Publisher, PublisherStep(p), UNCHANGED power PROVE OneFile'
  <2>1. disk' \in {disk, {dest}} \/ Place(p)
    BY <1>2 DEF PublisherStep, Open, Copy, Replace, Link, Clean, SyncDirectory, Interrupted, Killed
  <2>2. dest \in disk
    BY DEF PublicationInv, Durable
  <2>. QED
    BY <1>2, <2>1, <2>2 DEF Place, OneFile
<1>. QED
  BY <1>1, <1>2 DEF PublicationNext, publication, OneFile

LEMMA PublicationTyped ==
  ASSUME PublicationInv, OneFile
  PROVE  PublicationOK
<1>1. dest \subseteq File
  BY DEF PublicationInv, Durable, Synced, File
<1>2. Cardinality(dest) <= 1
  <2>1. CASE dest = {}
    BY <2>1, FS_EmptySet
  <2>2. CASE \E f \in dest : dest = {f}
    <3>1. PICK f \in dest : dest = {f}
      BY <2>2
    <3>2. Cardinality({f}) = 1
      BY FS_Singleton
    <3>. QED
      BY <3>1, <3>2
  <2>. QED
    BY <2>1, <2>2 DEF PublicationInv, Durable, OneFile
<1>3. power \in BOOLEAN
  BY DEF OneFile
<1>. QED
  BY <1>1, <1>2, <1>3 DEF PublicationInv, Shaped, Durable, Beside, PublicationOK

LEMMA StepLeft ==
  ASSUME left \in 0..Commands, [CallNext]_call
  PROVE  left' \in 0..Commands
<1>1. left' = left \/ (left > 0 /\ left' = left - 1)
  <2>1. ASSUME CallRuns PROVE left' = left \/ (left > 0 /\ left' = left - 1)
    BY <2>1 DEF CallRuns, Calls, RunEnds, PopenFails, Started, Launched, Polls, Defers, Reaped, Leaves, Returns,
      GroupStops, Unwinds
  <2>2. ASSUME Handler \/ Spawns \/ ChildEnds \/ OthersEnd \/ UNCHANGED call PROVE left' = left
    BY <2>2 DEF Handler, Spawns, ChildEnds, OthersEnd, call
  <2>. QED
    BY <2>1, <2>2 DEF CallNext
<1>. QED
  BY <1>1, CommandsAssumption

LEMMA CallTyped ==
  ASSUME CallInv, left \in 0..Commands
  PROVE  CallOK
<1>1. cancelling \in BOOLEAN
  BY Zenon DEF CallInv, Flags
<1>2. cancelling <=> cpc \in {"stopping", "unwind"}
  BY <1>1 DEF CallInv, Flags
<1>. QED
  BY <1>2 DEF CallInv, Flags, Children, CallOK

(* What a row was asked, and the steps that have read.                     *)
RowChosen ==
  /\ goal \in {"part", "discover", "plain"}
  /\ recipe \in Recipes /\ readers \subseteq DOMAIN recipe

LEMMA StepChosen ==
  ASSUME RowInv, RowChosen, [RowRunNext]_rowrun
  PROVE  RowChosen'
<1>1. stepAt \in DOMAIN recipe \/ ~(stepAt <= Len(recipe))
  BY DEF RowInv, RowTypes
<1>2. ASSUME RowExecutes PROVE RowChosen'
  <2>1. readers' = readers \/ readers' = readers \cup {stepAt}
    BY <1>2 DEF RowExecutes, Executes
  <2>. QED
    BY <1>1, <1>2, <2>1 DEF RowExecutes, RowChosen
<1>3. ASSUME \/ SetupRefused \/ Setup \/ StepSkips \/ NotNeeded \/ StepRefused \/ RowLooks \/ Checks \/ RowWrites
             \/ RowReturns \/ Cancels \/ CancelsLate \/ UNCHANGED rowrun
      PROVE  RowChosen'
  BY <1>3 DEF SetupRefused, Setup, StepSkips, NotNeeded, StepRefused, RowLooks, Checks, RowWrites, RowReturns, Cancels,
    CancelsLate, rowrun, checkout, RowChosen
<1>. QED
  BY <1>2, <1>3 DEF RowRunNext, RowSteps

LEMMA RowTyped ==
  ASSUME RowInv, RowChosen
  PROVE  RowRunOK
<1>1. {readSeen, changed, good, qfail, success, raised, rowSignalled} \subseteq BOOLEAN
  BY Zenon DEF RowInv, RowTypes
<1>2. receipt \in Receipts \cup {NoReceipt}
  BY DEF RowInv, RowJudged, Receipts
<1>. QED
  BY <1>1, <1>2 DEF RowInv, RowTypes, RowChosen, RowRunOK

(* The search for a closed export stays in its bounds.                     *)
ExportSearch ==
  /\ silent \subseteq Function /\ replace \in BOOLEAN
  /\ begun.pin \in Versions /\ begun.free \in Versions
  /\ filter \subseteq PrefixNames
  /\ round \in 0..Rounds /\ (xpc \in {"off", "start", "compile"} => round < Rounds)
  /\ xend \in {"none", "ok", "failed", "refused", "interrupted"}

LEMMA SearchStarts ==
  ASSUME NEW l, ExportAt(l)
  PROVE  ExportSearch
<1>1. replace \in BOOLEAN
  BY Zenon DEF ExportAt
<1>2. filter \subseteq PrefixNames
  BY ExportAssumption DEF ExportAt, PrefixNames
<1>. QED
  BY <1>1, <1>2, ExportAssumption DEF ExportAt, ExportSearch

LEMMA StepSearch ==
  ASSUME ExportInv, ExportSearch, [ExportNext]_export
  PROVE  ExportSearch'
<1>. USE DEF Ends, Concludes, KeepsOut, sources, search
<1>1. pin \in Versions /\ free \in Versions /\ Rounds \in Nat \ {0}
  BY ExportAssumption DEF ExportInv, ExportTypes
<1>2. ASSUME CompilerStarts PROVE ExportSearch'
  <2>1. /\ xpc = "compile" /\ xpc' = "compiler" /\ round' = round + 1
        /\ begun'.pin = pin /\ begun'.free = free
        /\ UNCHANGED <<silent, filter, xend, replace>>
    BY <1>2 DEF CompilerStarts
  <2>. QED
    BY <1>1, <2>1 DEF ExportSearch
<1>3. ASSUME ClosureCloses PROVE ExportSearch'
  <2>1. Missing \subseteq Function
    BY DEF Missing, Closure, Called
  <2>2. {PrefixOf[f] : f \in Missing} \subseteq PrefixNames
    BY <2>1 DEF PrefixNames
  <2>3. /\ filter' = filter \/ filter' = filter \cup ({PrefixOf[f] : f \in Missing} \ filter)
        /\ xpc' = "compile" => round # Rounds
        /\ xpc' \in {"translate", "compile", "report"}
        /\ xend' \in {xend, "failed"} /\ UNCHANGED <<silent, begun, round, replace>>
    BY <1>3 DEF ClosureCloses
  <2>4. filter' \subseteq PrefixNames
    BY <2>2, <2>3 DEF ExportSearch
  <2>5. round < Rounds \/ round = Rounds
    BY <1>1 DEF ExportSearch
  <2>. QED
    BY <2>3, <2>4, <2>5 DEF ExportSearch
<1>4. ASSUME \/ ExportStarts \/ ExportRefused \/ CompilerEnds \/ Rechecks \/ Translates \/ Finishes \/ ExportPublishes \/ Reports
             \/ SourceEdit \/ ExportOutAppears \/ ExportInterrupt \/ UNCHANGED export
      PROVE  ExportSearch'
  <2>1. /\ UNCHANGED <<silent, begun, filter, round, replace>>
        /\ xpc' \in {"off", "start", "compile"} => xpc \in {"off", "start", "compile"}
        /\ xend' \in {xend, "ok", "failed", "refused", "interrupted"}
    BY <1>4 DEF ExportStarts, ExportRefused, CompilerEnds, Rechecks, Translates, Finishes, ExportPublishes, Reports, SourceEdit,
      ExportOutAppears, ExportInterrupt, export
  <2>. QED
    BY <2>1 DEF ExportSearch
<1>. QED
  BY <1>2, <1>3, <1>4 DEF ExportNext, ExportRuns

LEMMA ExportTyped ==
  ASSUME ExportInv, ExportSearch
  PROVE  ExportOK
<1>1. {replace, parked} \subseteq BOOLEAN
  BY Zenon DEF ExportSearch, ExportInv, ExportTypes
<1>. QED
  BY <1>1 DEF ExportSearch, ExportInv, ExportTypes, Outs, ExportOK

(* No version is beyond the edits, and the library was built from one of   *)
(* the proofs that were there.                                             *)
CheckBounds ==
  /\ Edits <= MaxEdits
  /\ Unread <= builtFrom /\ builtFrom <= version["lean"]
  /\ passed \subseteq CheckStages
  /\ kout \in {"none", "empty", "full", "record"}
  /\ kend \in {"none", "record", "refused", "interrupted"}

LEMMA BoundsStart ==
  ASSUME NEW l, CheckAt(l)
  PROVE  CheckBounds
BY EditsAssumption DEF CheckAt, CheckBounds, Edits, Part, Unread

LEMMA StepBounds ==
  ASSUME CheckInv, CheckBounds, [CheckNext]_check
  PROVE  CheckBounds'
<1>. USE DEF guarding, reading, Refuses, CheckFails, PassesTo
<1>1. /\ version \in [Part -> Nat] /\ first \in [Part -> Nat \cup {Unread}] /\ builtFrom \in Int
      /\ \A p \in Part : first[p] # Unread => first[p] <= version[p]
      /\ "lean" \in Part
  BY DEF CheckInv, CheckTypes, CheckReads, Known, Part
<1>2. ASSUME Edit PROVE CheckBounds'
  <2>1. PICK p \in Part : version' = [version EXCEPT ![p] = @ + 1]
    BY <1>2 DEF Edit
  <2>2. /\ version'[p] = version[p] + 1 /\ \A q \in Part \ {p} : version'[q] = version[q]
        /\ \A q \in Part : version[q] \in Nat
    BY <1>1, <2>1
  <2>3. Edits' = Edits + 1 /\ version["lean"] <= version'["lean"]
    BY <2>2 DEF Edits, Part
  <2>4. Edits \in Nat /\ Edits < MaxEdits /\ MaxEdits \in Nat /\ version'["lean"] \in Nat /\ version["lean"] \in Nat
    BY <1>1, <1>2, <2>2, EditsAssumption DEF Edit, Edits, Part
  <2>5. UNCHANGED <<builtFrom, passed, kout, kend>>
    BY <1>2 DEF Edit
  <2>. QED
    BY <1>1, <2>3, <2>4, <2>5 DEF CheckBounds, Unread
<1>3. ASSUME StagePasses PROVE CheckBounds'
  <2>1. PICK v \in (IF Stage_ = "build" THEN first["lean"] ELSE builtFrom)..version["lean"] : builtFrom' = v
    BY <1>3 DEF StagePasses
  <2>2. /\ UNCHANGED <<version, kout, kend>> /\ passed' = passed \cup {Stage_}
    BY <1>3 DEF StagePasses
  <2>3. Stage_ \in CheckStages
    BY DEF Stage_, CheckStages
  <2>4. first["lean"] \in Nat \cup {Unread} /\ version["lean"] \in Nat
    BY <1>1
  <2>5. Unread <= v /\ v <= version["lean"]
    BY <1>1, <2>1, <2>4 DEF CheckBounds, Unread
  <2>. QED
    BY <2>1, <2>2, <2>3, <2>5 DEF CheckBounds, Edits
<1>4. ASSUME \/ ReadsScripts \/ Collects \/ Collected \/ HashesTranslator \/ StartsTranslator \/ Translated \/ Verifies
             \/ VerifiesTranslator \/ Reproduces \/ StartsGuard \/ Communicates \/ StageFails \/ Overdue
             \/ GuardAnswers \/ Judges \/ JudgesClaims \/ Rescans \/ Rescanned \/ WritesRecord \/ Renames \/ Prints
             \/ Invalidates \/ LoadEnds \/ GuardEnds \/ OutAppears \/ Interrupt \/ UNCHANGED check
      PROVE  CheckBounds'
  <2>1. UNCHANGED <<version, builtFrom>>
    BY <1>4 DEF ReadsScripts, Collects, Collected, HashesTranslator, StartsTranslator, Translated, Verifies,
      VerifiesTranslator, Reproduces, StartsGuard, Communicates, StageFails, Overdue, GuardAnswers, Judges,
      JudgesClaims, Rescans, Rescanned, WritesRecord, Renames, Prints, Invalidates, LoadEnds, GuardEnds, OutAppears,
      Interrupt, check
  <2>2. \/ passed' = passed
        \/ \E s \in CheckStages : passed' = passed \cup {s}
    BY <1>4 DEF ReadsScripts, Collects, Collected, HashesTranslator, StartsTranslator, Translated, Verifies,
      VerifiesTranslator, Reproduces, StartsGuard, Communicates, StageFails, Overdue, GuardAnswers, Judges,
      JudgesClaims, Rescans, Rescanned, WritesRecord, Renames, Prints, Invalidates, LoadEnds, GuardEnds, OutAppears,
      Interrupt, check, CheckStages
  <2>3. /\ kout' \in {kout, "empty", "full", "record"}
        /\ kend' \in {kend, "record", "refused", "interrupted"}
    BY <1>4 DEF ReadsScripts, Collects, Collected, HashesTranslator, StartsTranslator, Translated, Verifies,
      VerifiesTranslator, Reproduces, StartsGuard, Communicates, StageFails, Overdue, GuardAnswers, Judges,
      JudgesClaims, Rescans, Rescanned, WritesRecord, Renames, Prints, Invalidates, LoadEnds, GuardEnds, OutAppears,
      Interrupt, check
  <2>. QED
    BY <2>1, <2>2, <2>3 DEF CheckBounds, Edits
<1>. QED
  BY <1>2, <1>3, <1>4 DEF CheckNext, CheckRuns

LEMMA CheckTyped ==
  ASSUME CheckInv, CheckBounds
  PROVE  CheckOK
<1>1. /\ version \in [Part -> Nat] /\ first \in [Part -> Nat \cup {Unread}] /\ builtFrom \in Int
      /\ \A p \in Part : first[p] # Unread => first[p] <= version[p]
      /\ Edits <= MaxEdits /\ MaxEdits \in Nat
  BY EditsAssumption DEF CheckInv, CheckTypes, CheckReads, Known, CheckBounds
<1>2. \A p \in Part : version[p] \in Nat /\ version[p] <= MaxEdits
  BY <1>1 DEF Edits, Part
<1>3. version \in [Part -> 0..MaxEdits]
  BY <1>1, <1>2
<1>4. \A p \in Part : first[p] \in Unread..MaxEdits
  BY <1>1, <1>2 DEF Unread
<1>5. builtFrom \in Unread..MaxEdits
  BY <1>1, <1>2 DEF CheckBounds, Unread, Part
<1>6. workedOn \subseteq Part \X (0..MaxEdits)
  <2>. SUFFICES ASSUME NEW u \in workedOn PROVE u \in Part \X (0..MaxEdits)
    OBVIOUS
  <2>1. PICK p \in Part, v \in Int : u = <<p, v>>
    BY DEF CheckInv, CheckUses
  <2>2. first[p] # Unread /\ first[p] <= v /\ v <= version[p]
    BY <2>1 DEF CheckInv, CheckUses, Known
  <2>3. first[p] \in Nat /\ version[p] \in 0..MaxEdits
    BY <1>1, <1>2, <2>2
  <2>. QED
    BY <2>1, <2>2, <2>3, <1>1
<1>7. {failed, load, guardTold, gap} \subseteq BOOLEAN
  BY Zenon DEF CheckInv, CheckTypes
<1>8. first \in [Part -> Unread..MaxEdits]
  BY <1>1, <1>4
<1>9. /\ kpc \in {"off", "scripts", "collect", "hash", "run", "translate", "verify", "reproduce", "guard", "popen",
                  "wait", "tell", "goals", "claims", "rescan", "record", "rename", "print", "ended"}
      /\ toRead \subseteq Part
      /\ gd \in {"none", "runs", "ended"}
      /\ kstatus \in {"none", "failed", "reproduced"}
  BY DEF CheckInv, CheckTypes, AfterCollect, Publishing, Inputs, Part
<1>. QED
  BY <1>3, <1>5, <1>6, <1>7, <1>8, <1>9 DEF CheckBounds, CheckOK

(* What a publisher fetched is the beginning of the branch.                *)
BranchGrows ==
  /\ main <= MaxMain /\ reruns \in 0..MaxReruns
  /\ ci \in [Commit -> {"none", "active", "passed", "failed"}]
  /\ waiting \in BOOLEAN /\ alarm \in BOOLEAN
  /\ attempt \in [Publishers -> 0..Attempts]
  /\ branch \in Seq(Commit)
  /\ base \in [Publishers -> Seq(Commit)] /\ todo \in [Publishers -> Seq(Commit)]
  /\ fresh \in [Publishers -> Seq(Commit)]
  /\ \A p \in Publishers : IsPrefix(base[p], branch)

LEMMA PrefixGrows ==
  ASSUME NEW S, NEW s \in Seq(S), NEW b \in Seq(S), NEW t \in Seq(S), IsPrefix(s, b)
  PROVE  IsPrefix(s, b \o t)
<1>1. Len(s) <= Len(b) /\ SubSeq(s, 1, Len(s)) = SubSeq(b, 1, Len(s))
  BY DEF IsPrefix
<1>2. /\ Len(s) \in Nat /\ Len(b) \in Nat /\ Len(t) \in Nat /\ Len(b \o t) = Len(b) + Len(t)
      /\ b \o t \in Seq(S)
  OBVIOUS
<1>3. SubSeq(b \o t, 1, Len(s)) = SubSeq(b, 1, Len(s))
  BY <1>1, <1>2
<1>. QED
  BY <1>1, <1>2, <1>3 DEF IsPrefix

LEMMA EmptyIsPrefix ==
  ASSUME NEW S, NEW b \in Seq(S)
  PROVE  IsPrefix(<<>>, b) /\ IsPrefix(b, b) /\ <<>> \in Seq(S)
<1>1. SubSeq(<<>>, 1, 0) = SubSeq(b, 1, 0) /\ Len(<<>>) = 0 /\ Len(b) \in Nat
  OBVIOUS
<1>. QED
  BY <1>1 DEF IsPrefix

LEMMA BranchStarts ==
  ASSUME GeneratedInit
  PROVE  BranchGrows
<1>1. waiting \in BOOLEAN /\ alarm \in BOOLEAN
  BY Zenon DEF GeneratedInit
<1>2. <<>> \in Seq(Commit) /\ IsPrefix(<<>>, <<>>)
  <2>1. <<>> \in Seq(Commit)
    OBVIOUS
  <2>. QED
    BY <2>1, EmptyIsPrefix
<1>3. MaxMain \in Nat /\ MaxReruns \in Nat /\ Attempts \in Nat
  BY GeneratedAssumption
<1>. QED
  BY <1>1, <1>2, <1>3 DEF GeneratedInit, BranchGrows

(* pending names commits of the clone.                                     *)
LEMMA PendingInClone ==
  ASSUME NEW p \in Publishers, clone[p] \in 0..MaxMain, NEW b \in Seq(Commit)
  PROVE  Pending(p, b) \in Seq(Commit)
<1>1. MaxMain \in Nat /\ clone[p] \in Nat
  BY GeneratedAssumption
<1>. DEFINE S == {0} \cup {c \in Entries(b) : c <= clone[p]}
            newest == Max(S)
<1>2. S \subseteq 0..clone[p] /\ 0 \in S
  BY <1>1 DEF Entries, ToSet, Commit
<1>3. IsFiniteSet(S)
  <2>1. IsFiniteSet(0..clone[p])
    BY <1>1, 0 \in Int, clone[p] \in Int, FS_Interval
  <2>. HIDE DEF S
  <2>. QED
    BY <1>2, <2>1, FS_Subset
<1>4. newest \in 0..clone[p]
  <2>1. S \subseteq Int /\ S # {}
    BY <1>2
  <2>. HIDE DEF S
  <2>. QED
    BY <1>1, <1>2, <1>3, <2>1, MaxOfFinite
<1>5. Pending(p, b) = [i \in 1..(clone[p] - newest) |-> newest + i]
  BY DEF Pending
<1>. HIDE DEF newest
<1>. DEFINE k == clone[p] - newest
<1>6. k \in Nat /\ \A i \in 1..k : newest + i \in Commit
  BY <1>1, <1>4 DEF Commit
<1>7. Pending(p, b) \in [1..k -> Commit]
  BY <1>5, <1>6
<1>. HIDE DEF k
<1>. QED
  BY <1>6, <1>7

LEMMA StepBranch ==
  ASSUME GeneratedInv, BranchGrows, [GeneratedNext]_generated
  PROVE  BranchGrows'
<1>. USE DEF runs_, pubs
<1>0. /\ MaxMain \in Nat /\ MaxReruns \in Nat /\ Attempts \in Nat \ {0} /\ main \in Nat
      /\ Job1 \in Publishers /\ Hand \in Publishers
      /\ \A p \in Publishers : clone[p] \in 0..MaxMain
      /\ <<>> \in Seq(Commit) /\ IsPrefix(<<>>, branch) /\ IsPrefix(branch, branch)
  <2>1. MaxMain \in Nat /\ main \in Nat /\ main <= MaxMain
    BY GeneratedAssumption DEF GeneratedInv, GeneratedTypes, BranchGrows
  <2>2. \A p \in Publishers : clone[p] \in 0..MaxMain
    BY <2>1 DEF GeneratedInv, GeneratedTypes, PublisherOK
  <2>. QED
    BY <2>1, <2>2, GeneratedAssumption, EmptyIsPrefix DEF Publishers, BranchGrows
<1>1. ASSUME Land PROVE BranchGrows'
  BY <1>0, <1>1 DEF Land, BranchGrows, Commit
<1>2. ASSUME RunsComplete \/ \E c \in Commit : RunAgain(c) PROVE BranchGrows'
  <2>1. /\ reruns' \in 0..MaxReruns /\ ci' \in [Commit -> {"none", "active", "passed", "failed"}]
        /\ waiting' \in {waiting, TRUE}
        /\ UNCHANGED <<main, branch, alarm, attempt, base, todo, fresh>>
    <3>1. ASSUME NEW c \in Commit, Completes(c)
          PROVE  /\ ci' \in [Commit -> {"none", "active", "passed", "failed"}] /\ waiting' = TRUE
                 /\ UNCHANGED <<main, reruns, branch, alarm, attempt, base, todo, fresh>>
      BY <3>1 DEF Completes, BranchGrows
    <3>2. ASSUME NEW c \in Commit, RunAgain(c)
          PROVE  /\ ci' \in [Commit -> {"none", "active", "passed", "failed"}] /\ reruns' \in 0..MaxReruns
                 /\ UNCHANGED <<main, branch, waiting, alarm, attempt, base, todo, fresh>>
      BY <1>0, <3>2 DEF RunAgain, BranchGrows
    <3>. QED
      BY <1>2, <3>1, <3>2 DEF RunsComplete, BranchGrows
  <2>2. waiting' \in BOOLEAN
    BY <2>1 DEF BranchGrows
  <2>. QED
    BY <2>1, <2>2 DEF BranchGrows
<1>3. ASSUME NEW p \in Publishers, Checkout(p) PROVE BranchGrows'
  <2>1. /\ base' = [base EXCEPT ![p] = branch] /\ waiting' \in {FALSE, waiting}
        /\ UNCHANGED <<main, reruns, ci, branch, attempt, todo, fresh, alarm>>
    BY <1>3 DEF Checkout
  <2>2. waiting' \in BOOLEAN
    BY <2>1 DEF BranchGrows
  <2>3. base' \in [Publishers -> Seq(Commit)] /\ \A q \in Publishers : IsPrefix(base'[q], branch)
    BY <1>0, <2>1 DEF BranchGrows
  <2>. QED
    BY <2>1, <2>2, <2>3 DEF BranchGrows
<1>4. ASSUME NEW p \in Publishers, Fetch(p) PROVE BranchGrows'
  <2>1. PICK b \in {branch, base[p]} :
          /\ base' = [base EXCEPT ![p] = b] /\ todo' = [todo EXCEPT ![p] = Pending(p, b)]
          /\ fresh' = [fresh EXCEPT ![p] = <<>>]
          /\ UNCHANGED <<main, reruns, ci, branch, waiting, attempt, alarm>>
    BY <1>4 DEF Fetch
  <2>2. b \in Seq(Commit) /\ IsPrefix(b, branch)
    BY <1>0 DEF BranchGrows
  <2>3. Pending(p, b) \in Seq(Commit)
    BY <1>0, <2>2, PendingInClone
  <2>4. base' \in [Publishers -> Seq(Commit)] /\ \A q \in Publishers : IsPrefix(base'[q], branch)
    BY <2>1, <2>2 DEF BranchGrows
  <2>. QED
    BY <1>0, <2>1, <2>3, <2>4 DEF BranchGrows
<1>5. ASSUME NEW p \in Publishers, Waits(p) \/ Skips(p) \/ Makes(p) PROVE BranchGrows'
  <2>1. todo[p] \in Seq(Commit) /\ todo[p] # <<>> /\ fresh[p] \in Seq(Commit)
    BY <1>5 DEF Waits, Skips, Makes, BranchGrows
  <2>2. Tail(todo[p]) \in Seq(Commit) /\ Head(todo[p]) \in Commit
    BY <2>1
  <2>3. Append(fresh[p], Head(todo[p])) \in Seq(Commit)
    BY <2>1, <2>2
  <2>4. /\ \/ todo' = [todo EXCEPT ![p] = <<>>]
           \/ todo' = [todo EXCEPT ![p] = Tail(todo[p])]
        /\ \/ fresh' = fresh
           \/ fresh' = [fresh EXCEPT ![p] = Append(fresh[p], Head(todo[p]))]
        /\ UNCHANGED <<main, reruns, ci, branch, waiting, attempt, base, alarm>>
    BY <1>5 DEF Waits, Skips, Makes
  <2>5. todo' \in [Publishers -> Seq(Commit)]
    BY <1>0, <2>2, <2>4 DEF BranchGrows
  <2>6. fresh' \in [Publishers -> Seq(Commit)]
    BY <2>3, <2>4 DEF BranchGrows
  <2>. QED
    BY <2>4, <2>5, <2>6 DEF BranchGrows
<1>6. ASSUME NEW p \in Publishers, Push(p) PROVE BranchGrows'
  <2>1. /\ attempt' = [attempt EXCEPT ![p] = 0] /\ base' = [base EXCEPT ![p] = <<>>]
        /\ todo' = [todo EXCEPT ![p] = <<>>] /\ fresh' = [fresh EXCEPT ![p] = <<>>]
        /\ branch' = branch \/ (branch = base[p] /\ branch' = base[p] \o fresh[p])
        /\ UNCHANGED <<main, reruns, ci, waiting, alarm>>
    BY <1>6 DEF Push, Done
  <2>2. branch \in Seq(Commit) /\ fresh[p] \in Seq(Commit)
    BY DEF BranchGrows
  <2>3. branch' \in Seq(Commit) /\ \A q \in Publishers : IsPrefix(base[q], branch')
    <3>1. CASE branch' = branch
      BY <3>1 DEF BranchGrows
    <3>2. CASE branch' = branch \o fresh[p]
      <4>1. branch \o fresh[p] \in Seq(Commit)
        BY <2>2
      <4>2. ASSUME NEW q \in Publishers PROVE IsPrefix(base[q], branch \o fresh[p])
        BY <2>2, PrefixGrows DEF BranchGrows
      <4>. QED
        BY <3>2, <4>1, <4>2
    <3>. QED
      BY <2>1, <3>1, <3>2
  <2>4. IsPrefix(<<>>, branch')
    BY <2>3, EmptyIsPrefix
  <2>5. \A q \in Publishers : IsPrefix(base'[q], branch')
    BY <2>1, <2>3, <2>4 DEF BranchGrows
  <2>6. attempt' \in [Publishers -> 0..Attempts]
    BY <1>0, <2>1 DEF BranchGrows
  <2>. QED
    BY <1>0, <2>1, <2>3, <2>5, <2>6 DEF BranchGrows
<1>7. ASSUME NEW p \in Publishers, Fails_(p) PROVE BranchGrows'
  <2>1. /\ \/ attempt' = [attempt EXCEPT ![p] = 0]
           \/ attempt[p] + 1 < Attempts /\ attempt' = [attempt EXCEPT ![p] = attempt[p] + 1]
        /\ base' = base \/ base' = [base EXCEPT ![p] = <<>>]
        /\ todo' = [todo EXCEPT ![p] = <<>>] /\ fresh' = [fresh EXCEPT ![p] = <<>>]
        /\ alarm' = alarm \/ alarm' = (alarm \/ p = Job1)
        /\ UNCHANGED <<main, reruns, ci, branch, waiting>>
    BY <1>7 DEF Fails_, Done
  <2>2. alarm' \in BOOLEAN
    BY <2>1, Zenon DEF BranchGrows
  <2>3. attempt' \in [Publishers -> 0..Attempts]
    <3>1. attempt[p] \in 0..Attempts
      BY DEF BranchGrows
    <3>2. attempt \in [Publishers -> 0..Attempts] /\ 0 \in 0..Attempts
      BY <1>0 DEF BranchGrows
    <3>3. attempt[p] + 1 < Attempts => attempt[p] + 1 \in 0..Attempts
      BY <1>0, <3>1
    <3>. QED
      BY <2>1, <3>2, <3>3
  <2>4. base' \in [Publishers -> Seq(Commit)] /\ \A q \in Publishers : IsPrefix(base'[q], branch)
    BY <1>0, <2>1 DEF BranchGrows
  <2>. QED
    BY <1>0, <2>1, <2>2, <2>3, <2>4 DEF BranchGrows
<1>8. ASSUME UNCHANGED generated PROVE BranchGrows'
  BY <1>8 DEF generated, BranchGrows
<1>. QED
  BY <1>0, <1>1, <1>2, <1>3, <1>4, <1>5, <1>6, <1>7, <1>8 DEF GeneratedNext, GeneratedRuns, PublisherActs

LEMMA GeneratedTyped ==
  ASSUME GeneratedInv, BranchGrows
  PROVE  GeneratedOK
<1>1. {waiting, alarm, byHand} \subseteq BOOLEAN
  BY Zenon DEF BranchGrows, GeneratedInv, GeneratedTypes
<1>2. ASSUME NEW p \in Publishers PROVE Entries(base[p]) \cup Entries(todo[p]) \cup Entries(fresh[p]) \subseteq Commit
  <2>1. \A s \in Seq(Commit) : Entries(s) \subseteq Commit
    BY DEF Entries, ToSet
  <2>. QED
    BY <2>1 DEF BranchGrows
<1>3. main \in 0..MaxMain /\ \A p \in Publishers : clone[p] \in 0..main
  BY GeneratedAssumption DEF GeneratedInv, GeneratedTypes, PublisherOK, BranchGrows
<1>. QED
  BY <1>1, <1>2, <1>3 DEF BranchGrows, GeneratedInv, GeneratedTypes, GeneratedOK

=============================================================================
