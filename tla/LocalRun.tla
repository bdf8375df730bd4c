------------------------------ MODULE LocalRun -------------------------------
(***************************************************************************)
(* A local CI run on the host (scripts/local-ci-steps.py --dispatch, under  *)
(* scripts/local-ci.sh): the chosen rows of the workflow and the rows they *)
(* need, each in a container of its own, whose evidence and artifacts are  *)
(* exported once it has stopped.  The row in the container (RowRun) is not *)
(* trusted: its exit status, receipt and uploads are any.                  *)
(*                                                                         *)
(* Rows are numbered in the order of the workflow, each a job of its own.  *)
(***************************************************************************)
EXTENDS Integers, Sequences

CONSTANTS
  Rows,        \* number of rows
  Workflows,   \* the rows' needs: functions from rows to sets of rows
  Requests,     \* what is asked for: sequences of rows
  Artifact,    \* names of artifacts
  Declared     \* the artifacts that each row's upload steps name

Row == 1..Rows

ASSUME RowsAssumption == Rows \in Nat /\ Workflows \subseteq [Row -> SUBSET Row] /\ Requests \subseteq Seq(Row)
ASSUME DeclaredAssumption == Declared \in [Row -> SUBSET Artifact]

NoRow == 0

VARIABLES
  dpc,         \* where the dispatcher is
  needs,       \* the graph of this workflow
  asked,       \* the rows of the request
  turn,        \* the next of them
  path,        \* rows being visited, each with the next row to look at as its need
  completed,   \* self.completed
  accepted,    \* upload_producers: the row whose artifact others may import
  box,         \* the row's container
  remains,        \* what the container left: its status, receipt and uploads
  imports,     \* the artifacts given to the row that runs, with their producers
  moving,      \* uploads still to be moved
  kept,        \* rows whose evidence lies in the results
  shared,      \* whose artifact lies in the results' uploads
  runVerdict,     \* how the dispatcher ends: "none", "ok", "failed"
  retained     \* the private snapshot is kept for recovery

results == <<kept, shared>>
local ==
  <<dpc, needs, asked, turn, path, completed, accepted, box, remains, imports, moving, results, runVerdict,
    retained>>

Nothing == [zero |-> FALSE, receipt |-> "none", uploads |-> {}]

Current == path[Len(path)].row
Visiting == {path[i].row : i \in DOMAIN path}

LocalRunOK ==
  /\ dpc \in {"off", "next", "needs", "create", "fill", "run", "answer", "inspect", "fetch", "publish",
              "move", "remove", "cleanup", "ended"}
  /\ needs \in [Row -> SUBSET Row]
  /\ asked \in Seq(Row) /\ turn \in 1..Len(asked) + 1
  /\ path \in Seq([row : Row, next : 1..Rows + 1])
  /\ completed \subseteq Row /\ kept \subseteq Row
  /\ {accepted, imports, shared} \subseteq [Artifact -> Row \cup {NoRow}]
  /\ box \in [Row -> {"none", "created", "running", "exited", "removed"}]
  /\ remains \in [Row -> [zero : BOOLEAN, receipt : {"none", "success", "failure", "foreign"},
                       uploads : SUBSET Artifact]]
  /\ moving \subseteq Artifact
  /\ runVerdict \in {"none", "ok", "failed"}
  /\ retained \in BOOLEAN

LocalRunAt(l, workflows, choices) ==
  /\ dpc = l
  /\ needs \in workflows /\ asked \in choices
  /\ turn = 1 /\ path = <<>>
  /\ completed = {} /\ kept = {} /\ moving = {}
  /\ accepted = [a \in Artifact |-> NoRow]
  /\ imports = accepted /\ shared = accepted
  /\ box = [r \in Row |-> "none"]
  /\ remains = [r \in Row |-> Nothing]
  /\ runVerdict = "none" /\ retained = FALSE

LocalRunInit == LocalRunAt("next", Workflows, Requests)

RunFails == dpc' = "cleanup" /\ runVerdict' = "failed"

-----------------------------------------------------------------------------
(* The walk over the rows.                                                 *)

Begin(r) == path' = Append(path, [row |-> r, next |-> 1])

(* The next row asked for; one that ran as a need is done. *)
NextAsked ==
  /\ dpc = "next"
  /\ turn <= Len(asked)
  /\ turn' = turn + 1
  /\ IF asked[turn] \in completed THEN UNCHANGED <<dpc, path>> ELSE dpc' = "needs" /\ Begin(asked[turn])
  /\ UNCHANGED <<needs, asked, completed, accepted, box, remains, imports, moving, results, runVerdict,
                 retained>>

AskedDone ==
  /\ dpc = "next"
  /\ turn > Len(asked)
  /\ dpc' = "cleanup" /\ runVerdict' = "ok"
  /\ UNCHANGED <<needs, asked, turn, path, completed, accepted, box, remains, imports, moving, results,
                 retained>>

(* Mutant: a need that another row of the walk waits for is passed. *)
VisitsPast ==
  /\ dpc = "needs"
  /\ LET top == path[Len(path)]
         past == [path EXCEPT ![Len(path)].next = @ + 1] IN
       /\ top.next <= Rows
       /\ IF top.next \notin needs[top.row] \/ top.next \in completed \cup Visiting
            THEN path' = past /\ UNCHANGED <<dpc, runVerdict>>
            ELSE path' = Append(past, [row |-> top.next, next |-> 1]) /\ UNCHANGED <<dpc, runVerdict>>
  /\ UNCHANGED <<needs, asked, turn, completed, accepted, box, remains, imports, moving, results, retained>>

(* A row that is needed runs first; a cycle ends the run. *)
Visits ==
  /\ dpc = "needs"
  /\ LET top == path[Len(path)]
         past == [path EXCEPT ![Len(path)].next = @ + 1] IN
       /\ top.next <= Rows
       /\ IF top.next \notin needs[top.row] \/ top.next \in completed
            THEN path' = past /\ UNCHANGED <<dpc, runVerdict>>
          ELSE IF top.next \in Visiting THEN RunFails /\ UNCHANGED path
          ELSE path' = Append(past, [row |-> top.next, next |-> 1]) /\ UNCHANGED <<dpc, runVerdict>>
  /\ UNCHANGED <<needs, asked, turn, completed, accepted, box, remains, imports, moving, results, retained>>

(* A row of another runner, a job that cannot be run here, a namespace     *)
(* that is taken: the run ends.                                            *)
RowRefused ==
  /\ dpc = "needs"
  /\ RunFails
  /\ UNCHANGED <<needs, asked, turn, path, completed, accepted, box, remains, imports, moving, results,
                 retained>>

(* Mutant: a row gets every artifact there is. *)
DispatchesAll ==
  /\ dpc = "needs"
  /\ path[Len(path)].next > Rows
  /\ imports' = accepted
  /\ dpc' = "create"
  /\ UNCHANGED <<needs, asked, turn, path, completed, accepted, box, remains, moving, results, runVerdict,
                 retained>>

(* The row gets the artifacts of the rows it needs itself. *)
Dispatches ==
  /\ dpc = "needs"
  /\ path[Len(path)].next > Rows
  /\ imports' = [a \in Artifact |-> IF accepted[a] \in needs[Current] THEN accepted[a] ELSE NoRow]
  /\ dpc' = "create"
  /\ UNCHANGED <<needs, asked, turn, path, completed, accepted, box, remains, moving, results, runVerdict,
                 retained>>

-----------------------------------------------------------------------------
(* The container of the row (local-ci.sh --container-row).                 *)

(* The container may be there although docker create failed or was         *)
(* cancelled: docker itself records its identity.                          *)
Creates ==
  /\ dpc = "create"
  /\ \/ box' = [box EXCEPT ![Current] = "created"] /\ dpc' \in {"fill", "answer"}
     \/ UNCHANGED box /\ dpc' = "answer"
  /\ UNCHANGED <<needs, asked, turn, path, completed, accepted, remains, imports, moving, results,
                 runVerdict, retained>>

(* The source, the row's payload and its imports are copied in. *)
Fills ==
  /\ dpc = "fill"
  /\ \/ box' = [box EXCEPT ![Current] = "running"] /\ dpc' = "run"
     \/ UNCHANGED box /\ dpc' = "answer"
  /\ UNCHANGED <<needs, asked, turn, path, completed, accepted, remains, imports, moving, results,
                 runVerdict, retained>>

(* The row ends by itself. *)
BoxExits ==
  /\ \E r \in Row :
       /\ box[r] = "running"
       /\ box' = [box EXCEPT ![r] = "exited"]
       /\ \E zero \in BOOLEAN, receipt \in {"none", "success", "failure", "foreign"},
            uploads \in SUBSET Artifact :
              remains' = [remains EXCEPT ![r] = [zero |-> zero, receipt |-> receipt, uploads |-> uploads]]
  /\ UNCHANGED <<dpc, needs, asked, turn, path, completed, accepted, imports, moving, results, runVerdict,
                 retained>>

(* Its status is asked for; the wait may run out, and then the container   *)
(* is stopped, which may fail.                                             *)
AwaitsBox ==
  /\ dpc = "run"
  /\ \/ box[Current] = "exited" /\ UNCHANGED <<box, remains>>
     \/ /\ box[Current] = "running"
        /\ \/ UNCHANGED <<box, remains>>
           \/ /\ box' = [box EXCEPT ![Current] = "exited"]
              /\ \E receipt \in {"none", "failure"}, uploads \in SUBSET Artifact :
                   remains' = [remains EXCEPT ![Current] = [zero |-> FALSE, receipt |-> receipt, uploads |-> uploads]]
  /\ dpc' = "answer"
  /\ UNCHANGED <<needs, asked, turn, path, completed, accepted, imports, moving, results, runVerdict, retained>>

-----------------------------------------------------------------------------
(* The export of a row that has stopped.                                   *)

Passes == runVerdict # "failed"

(* The script passes on a zero status only; without a container there is   *)
(* nothing to export.                                                      *)
Answers ==
  /\ dpc = "answer"
  /\ IF box[Current] = "none" THEN RunFails
     ELSE /\ dpc' = "inspect"
          /\ \/ box[Current] = "exited" /\ remains[Current].zero /\ UNCHANGED runVerdict
             \/ runVerdict' = "failed"
  /\ UNCHANGED <<needs, asked, turn, path, completed, accepted, box, remains, imports, moving, results,
                 retained>>

(* The container has stopped with the expected result. *)
Inspects ==
  /\ dpc = "inspect"
  /\ \/ /\ box[Current] = "exited"
        /\ remains[Current].zero <=> Passes
        /\ dpc' = "fetch"
        /\ UNCHANGED runVerdict
     \/ RunFails
  /\ UNCHANGED <<needs, asked, turn, path, completed, accepted, box, remains, imports, moving, results,
                 retained>>

Genuine(r) == remains[r].receipt = IF Passes THEN "success" ELSE "failure"
Fresh(a) == accepted[a] = NoRow /\ shared[a] = NoRow

(* Mutant: an artifact of another row may be sent again. *)
FetchesAny ==
  /\ dpc = "fetch"
  /\ \/ /\ Genuine(Current)
        /\ dpc' = "publish"
        /\ UNCHANGED runVerdict
     \/ RunFails
  /\ UNCHANGED <<needs, asked, turn, path, completed, accepted, box, remains, imports, moving, results,
                 retained>>

(* The receipt is that of this row, its uploads are declared and new; all  *)
(* are copied into private staging.                                        *)
Fetches ==
  /\ dpc = "fetch"
  /\ \/ /\ Genuine(Current)
        /\ remains[Current].uploads \subseteq Declared[Current]
        /\ \A a \in remains[Current].uploads : Fresh(a)
        /\ dpc' = "publish"
        /\ UNCHANGED runVerdict
     \/ RunFails
  /\ UNCHANGED <<needs, asked, turn, path, completed, accepted, box, remains, imports, moving, results,
                 retained>>

Publishes ==
  /\ dpc = "publish"
  /\ \/ /\ kept' = kept \cup {Current}
        /\ moving' = remains[Current].uploads
        /\ dpc' = "move"
        /\ UNCHANGED runVerdict
     \/ RunFails /\ UNCHANGED <<kept, moving>>
  /\ UNCHANGED <<needs, asked, turn, path, completed, accepted, box, remains, imports, shared, retained>>

Moves ==
  /\ dpc = "move"
  /\ \E a \in moving :
       \/ /\ shared' = [shared EXCEPT ![a] = Current]
          /\ moving' = moving \ {a}
          /\ UNCHANGED <<dpc, runVerdict>>
       \/ RunFails /\ UNCHANGED <<shared, moving>>
  /\ UNCHANGED <<needs, asked, turn, path, completed, accepted, box, remains, imports, kept, retained>>

(* Mutant: the container goes before its uploads are moved. *)
RemovesEarly ==
  /\ dpc = "move"
  /\ dpc' = "remove"
  /\ box' = [box EXCEPT ![Current] = "removed"]
  /\ UNCHANGED <<needs, asked, turn, path, completed, accepted, remains, imports, moving, results,
                 runVerdict, retained>>

(* docker rm, which may fail after all. *)
Removes ==
  /\ dpc = "move"
  /\ moving = {}
  /\ \/ box' = [box EXCEPT ![Current] = "removed"] /\ dpc' = "remove" /\ UNCHANGED runVerdict
     \/ RunFails /\ UNCHANGED box
  /\ UNCHANGED <<needs, asked, turn, path, completed, accepted, remains, imports, moving, results, retained>>

(* A row that passed is completed and its artifacts may be imported; one   *)
(* that failed ends the run.                                               *)
RowCompletes ==
  /\ dpc = "remove"
  /\ IF Passes
       THEN /\ accepted' = [a \in Artifact |-> IF a \in remains[Current].uploads THEN Current ELSE accepted[a]]
            /\ completed' = completed \cup {Current}
            /\ path' = SubSeq(path, 1, Len(path) - 1)
            /\ dpc' = IF Len(path) = 1 THEN "next" ELSE "needs"
            /\ UNCHANGED runVerdict
       ELSE RunFails /\ UNCHANGED <<accepted, completed, path>>
  /\ imports' = [a \in Artifact |-> NoRow]
  /\ UNCHANGED <<needs, asked, turn, box, remains, moving, results, retained>>

-----------------------------------------------------------------------------
(* A signal, or the death of the dispatcher, between any two steps. *)
RunInterrupted ==
  /\ dpc \notin {"off", "cleanup", "ended"}
  /\ RunFails
  /\ UNCHANGED <<needs, asked, turn, path, completed, accepted, box, remains, imports, moving, results,
                 retained>>

(* The exit trap of local-ci.sh: containers that are left are stopped, if  *)
(* docker can, and kept with the snapshot; the run has not passed then.    *)
BoxPresent(r) == box[r] \in {"created", "running", "exited"}

CleansUp ==
  /\ dpc = "cleanup"
  /\ \/ box' = [r \in Row |-> IF box[r] = "running" THEN "exited" ELSE box[r]]
     \/ UNCHANGED box
  /\ retained' = \E r \in Row : BoxPresent(r)
  /\ runVerdict' = IF retained' THEN "failed" ELSE runVerdict
  /\ dpc' = "ended"
  /\ UNCHANGED <<needs, asked, turn, path, completed, accepted, remains, imports, moving, results>>

LocalRuns ==
  \/ NextAsked \/ AskedDone \/ Visits \/ RowRefused \/ Dispatches \/ Creates \/ Fills \/ AwaitsBox \/ Answers
  \/ Inspects \/ Fetches \/ Publishes \/ Moves \/ Removes \/ RowCompletes \/ CleansUp

LocalRunNext == LocalRuns \/ BoxExits \/ RunInterrupted

LocalRunSpec == LocalRunInit /\ [][LocalRunNext]_local /\ WF_local(LocalRuns)

-----------------------------------------------------------------------------
(* Properties.                                                             *)

(* A row's container is there only when all rows it needs have passed,     *)
(* whatever the order they were asked for or found in.                     *)
NeedsFirst == \A r \in Row : box[r] # "none" => needs[r] \subseteq completed

(* What the row that runs imports comes from rows it needs itself, that    *)
(* passed with a receipt of their own, and still lies in the results.      *)
ImportsEarned ==
  \A a \in Artifact : imports[a] # NoRow =>
    /\ imports[a] \in needs[Current] \cap completed
    /\ shared[a] = imports[a]
    /\ remains[imports[a]].receipt = "success"

(* An artifact in the results is whole and of the one row that declares    *)
(* and sent it; so is what later rows may import, and that of a row that   *)
(* passed.                                                                 *)
ArtifactsOwned ==
  \A a \in Artifact :
    /\ shared[a] # NoRow => a \in Declared[shared[a]] \cap remains[shared[a]].uploads
    /\ accepted[a] # NoRow => shared[a] = accepted[a] /\ accepted[a] \in completed
    /\ \A r \in completed : a \in remains[r].uploads => accepted[a] = r

(* What a row left is never lost: its container goes after its evidence    *)
(* and all its uploads are in the results, and one that is there when the  *)
(* run ends is kept with the snapshot, and the run has failed.             *)
EvidenceKept ==
  \A r \in Row :
    /\ box[r] = "removed" => r \in kept /\ \A a \in remains[r].uploads : shared[a] = r
    /\ dpc = "ended" /\ BoxPresent(r) => retained /\ runVerdict = "failed"

(* A run that passes ran all rows it was asked for and all they need, each *)
(* to a zero status and a receipt of success.                              *)
OkMeansAll ==
  dpc = "ended" /\ runVerdict = "ok" =>
    /\ \A i \in DOMAIN asked : asked[i] \in completed
    /\ \A r \in completed :
         needs[r] \subseteq completed /\ remains[r].zero /\ remains[r].receipt = "success" /\ box[r] = "removed"

(* local-ci-steps.py --dispatch: the rows of a local CI run. *)
LocalRunKept == NeedsFirst /\ ImportsEarned /\ ArtifactsOwned /\ EvidenceKept /\ OkMeansAll

=============================================================================
