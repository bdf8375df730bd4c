------------------------------ MODULE MCSystems -------------------------------
(***************************************************************************)
(* Small systems that share no state, checked one at a time: active says   *)
(* which of them runs, the others stay as they are.  The two supervisors   *)
(* share the process tree they are specified over.                         *)
(***************************************************************************)
EXTENDS UnfairLock, Cas, GuardedRun, StageRun, Publication, ParRun, Replay, LocalCall, Generated,
  AuditRun, LocalRun, RowRun, ProjectCheck, ExportRun

CONSTANTS A, B, C, H, J, L, M, N, O, P, Q, R, X, Y, Z

CONSTANT Active   \* the systems of a run

ASSUME ActiveAssumption ==
  Active \subseteq {"lock", "cas", "guard", "stage", "publication", "par", "replay", "call", "generated", "audit",
                    "local", "row", "check", "export"}

VARIABLE active

systems ==
  <<active, lockVars, vars, tree, guard, stage, publication, par, replay, call, generated, auditor, local,
    rowrun, check, export>>

-----------------------------------------------------------------------------
(* The store: a compiler, an export and a native build. *)
Kinds == [k \in Key |-> CASE k = Z -> "zig" [] k = A -> "air" [] k = N -> "native"]

(* The jobs: the fourth one needs the whole budget; one start order lets   *)
(* the last job pass it, the other one three jobs.                         *)
JobMemory == <<1, 1, 1, 2, 1>>
JobChunks == <<0, 2, 1, 0, 0>>
JobOrders == {<<1, 2, 3, 4, 5>>, <<3, 4, 1, 5, 2>>}

(* The audits: both replay the library's second module, whose pass         *)
(* depends on the first.                                                   *)
Scopes == [a \in {P, Q} |-> IF a = P THEN {A, B} ELSE {B}]

(* The workflows: the third row needs the second, and that the first, which *)
(* may need the third; two rows upload an artifact each.                   *)
RowNeeds == {<<n, {1}, {2}>> : n \in {{}, {3}}}
RowRequests == {<<2, 3>>, <<3, 1>>}
RowUploads == <<{A}, {B}, {}>>

(* The steps of a job, and of a support job. *)
JobSteps == {<<"lenient", "plain", "always">>, <<"restrict", "plain", "always">>}

(* The sources: in the first version of the free module A calls B and C,   *)
(* which one prefix covers, and the model; in the second one A calls only  *)
(* the model and C, which calls B.                                         *)
ExportPrefixes == [f \in {A, B, C, M} |-> IF f = C THEN B ELSE f]
ExportCalls ==
  [v \in 0..1 |-> [f \in {A, B, C, M} |->
     IF v = 0 THEN CASE f = A -> {B} [] f = B -> {C, M} [] OTHER -> {}
              ELSE CASE f = A -> {C, M} [] f = C -> {B, A} [] OTHER -> {}]]

-----------------------------------------------------------------------------
At(system, l) == IF active = system THEN l ELSE "off"

(* An idle system starts in one fixed state. *)
SystemsInit ==
  /\ active \in Active
  /\ LockInit /\ Init /\ TreeInit /\ PublicationInit
  /\ GuardAt(At("guard", "acquire")) /\ StageAt(At("stage", "start")) /\ ParAt(At("par", "top"))
  /\ ReplayAt(At("replay", "extract")) /\ CallAt(At("call", "idle")) /\ GeneratedInit
  /\ AuditorAt(At("audit", "launch"))
  /\ LocalRunAt(At("local", "next"), Workflows, Requests) /\ RowRunAt(At("row", "setup"), Recipes)
  /\ CheckAt(At("check", "scripts")) /\ ExportAt(At("export", "start"))
  /\ deaf \in CASE active = "guard" -> {{L, X}} [] active \in {"stage", "audit"} -> {{}, {L, X}} [] OTHER -> {{}}
  /\ active # "stage" => psWorks /\ adopter = Reaper   \* no other supervisor is a subreaper
  /\ active # "guard" => regime = "part"
  /\ active # "publication" => dest = {}
  /\ active # "par" => pending = <<1, 2, 3, 4, 5>>
  /\ active # "local" => needs[1] = {} /\ asked = <<2, 3>>
  /\ active # "row" => job = "test" /\ goal = "plain"
  /\ active # "export" => silent = {} /\ xout = "none" /\ replace = FALSE

(* The processes of a command are followed until its supervisor ends; in a *)
(* second guarded run they do nothing of their own.                        *)
GuardSystem == GuardNext \/ (gpc # "ended" /\ runs = 1 /\ TreeStep /\ UNCHANGED guard)
AuditSystem == AuditorNext \/ (upc # "ended" /\ TreeStep /\ UNCHANGED auditor)
StageSystem == StageNext \/ (spc # "ended" /\ TreeStep /\ UNCHANGED stage)

(* The systems that do not run stay as they are. *)
OthersStay ==
  /\ UNCHANGED active
  /\ IF active = "lock" THEN TRUE ELSE UNCHANGED lockVars
  /\ IF active = "cas" THEN TRUE ELSE UNCHANGED vars
  /\ IF active = "guard" THEN TRUE ELSE UNCHANGED guard
  /\ IF active = "stage" THEN TRUE ELSE UNCHANGED stage
  /\ IF active = "publication" THEN TRUE ELSE UNCHANGED publication
  /\ IF active = "par" THEN TRUE ELSE UNCHANGED par
  /\ IF active = "replay" THEN TRUE ELSE UNCHANGED replay
  /\ IF active = "call" THEN TRUE ELSE UNCHANGED call
  /\ IF active = "generated" THEN TRUE ELSE UNCHANGED generated
  /\ IF active = "audit" THEN TRUE ELSE UNCHANGED auditor
  /\ IF active = "local" THEN TRUE ELSE UNCHANGED local
  /\ IF active = "row" THEN TRUE ELSE UNCHANGED rowrun
  /\ IF active = "check" THEN TRUE ELSE UNCHANGED check
  /\ IF active = "export" THEN TRUE ELSE UNCHANGED export
  /\ IF active \in {"guard", "stage", "audit"} THEN TRUE ELSE UNCHANGED tree

SystemsNext ==
  \/ active = "lock" /\ OthersStay /\ LockNext
  \/ active = "cas" /\ OthersStay /\ Next
  \/ active = "guard" /\ OthersStay /\ GuardSystem
  \/ active = "stage" /\ OthersStay /\ StageSystem
  \/ active = "publication" /\ OthersStay /\ PublicationNext
  \/ active = "par" /\ OthersStay /\ ParNext
  \/ active = "replay" /\ OthersStay /\ ReplayNext
  \/ active = "call" /\ OthersStay /\ CallNext
  \/ active = "generated" /\ OthersStay /\ GeneratedNext
  \/ active = "audit" /\ OthersStay /\ AuditSystem
  \/ active = "local" /\ OthersStay /\ LocalRunNext
  \/ active = "row" /\ OthersStay /\ RowRunNext
  \/ active = "check" /\ OthersStay /\ CheckNext
  \/ active = "export" /\ OthersStay /\ ExportNext

(* The variables of the system that runs. *)
RunningState ==
  CASE active = "cas" -> vars
    [] active = "guard" -> <<tree, guard>>
    [] active = "stage" -> <<tree, stage>>
    [] active = "audit" -> <<tree, auditor>>
    [] active = "par" -> par
    [] active = "replay" -> replay
    [] active = "call" -> call
    [] active = "generated" -> generated
    [] active = "local" -> local
    [] active = "row" -> rowrun
    [] active = "check" -> check
    [] active = "export" -> export
    [] OTHER -> active

(* The fairness of the specification of each system, for the one that      *)
(* runs: the steps of its processes; the deadlines it waits for, with the  *)
(* ends of jobs and runs; the deadlines its loops look at now and then.    *)
OwnSteps ==
  /\ UNCHANGED active
  /\ \/ active = "cas" /\ \E p \in Proc : Step(p)
     \/ active = "guard" /\ GuardRuns
     \/ active = "stage" /\ StageRuns
     \/ active = "audit" /\ AuditorRuns
     \/ active = "par" /\ ParRuns
     \/ active = "replay" /\ ReplayRuns
     \/ active = "call" /\ CallRuns
     \/ active = "generated" /\ GeneratedRuns
     \/ active = "local" /\ LocalRuns
     \/ active = "row" /\ RowSteps
     \/ active = "check" /\ CheckRuns
     \/ active = "export" /\ ExportRuns

Deadlines ==
  /\ UNCHANGED active
  /\ \/ active = "guard" /\ (StopEscalates \/ StopGivesUp)
     \/ active = "stage" /\ (StageStops \/ StopClock)
     \/ active = "par" /\ JobEnds
     \/ active = "generated" /\ RunsComplete

LoopDeadlines ==
  /\ UNCHANGED active
  /\ active = "guard"
  /\ TimesOut

Fairness == WF_RunningState(OwnSteps) /\ WF_RunningState(Deadlines) /\ SF_RunningState(LoopDeadlines)

SystemsSpec == SystemsInit /\ [][SystemsNext]_systems /\ Fairness

-----------------------------------------------------------------------------
(* The state of the system that runs is well typed. *)
StateOK ==
  CASE active = "lock" -> LockOK
    [] active = "cas" -> TypeOK
    [] active = "guard" -> TreeOK /\ GuardOK
    [] active = "stage" -> TreeOK /\ StageOK
    [] active = "publication" -> PublicationOK
    [] active = "par" -> ParOK
    [] active = "replay" -> ReplayOK
    [] active = "call" -> CallOK
    [] active = "generated" -> GeneratedOK
    [] active = "audit" -> TreeOK /\ AuditorOK
    [] active = "local" -> LocalRunOK
    [] active = "row" -> RowRunOK
    [] active = "check" -> CheckOK
    [] active = "export" -> ExportOK

(* A supervisor that stops what it started leaves nothing of it: a stage,  *)
(* an auditor, a call of a local CI run, which also keeps its signals.     *)
ContainedKept == StageKept /\ AuditorStopped /\ CallKept

(* A local CI run: what its rows did and what the host makes of it. *)
LocalCiKept == LocalRunKept /\ RowKept

(* The two commands on a project that publish what others rely on. *)
ProjectKept == CheckKept /\ ExportKept

(* Every command ends, whatever failed, was killed or could not be read:   *)
(* those of the store, a guarded one without its slots, a stage, a         *)
(* parallel run, the audits that share a cache, a local CI run with its    *)
(* rows and its calls, a check and an export of a project; and the         *)
(* generated branch gets its entries.                                      *)
AllEnd ==
  <>[](/\ EntriesCame
       /\ \A p \in Proc : pc[p] = "idle"
       /\ gpc \in {"off", "ended"} /\ ~held
       /\ spc \in {"off", "ended"}
       /\ wpc \in {"off", "ended", "interrupted"}
       /\ AuditsEnded
       /\ cpc \in {"off", "ended"}
       /\ upc \in {"off", "wait", "ended"}
       /\ {dpc, rowpc, kpc, xpc} \subseteq {"off", "ended"})
=============================================================================
