------------------------------ MODULE ExportRun ------------------------------
(***************************************************************************)
(* project.py export (scripts/project-export.py): the compiler exports the *)
(* AIR of the functions under a filter, the filter grows by what the       *)
(* closure of the roots lacks, until nothing is missing; then every root   *)
(* is translated and the artifact takes the place of an empty directory or *)
(* of an earlier artifact.  The sources may change meanwhile: one module   *)
(* is pinned to its first version, the other one is free, and its version  *)
(* says which function calls which.                                        *)
(***************************************************************************)
EXTENDS Integers, FiniteSets

CONSTANTS
  Function,   \* functions of the sources
  Roots,      \* those requested
  Modelled,   \* those the runtime models
  PrefixOf,   \* the filter prefix that covers a function
  CallGraph,      \* of each version of the free module: who calls whom
  Silences,   \* choices of functions that have no AIR of their own
  Rounds      \* max_iterations

Versions == DOMAIN CallGraph

ASSUME ExportAssumption ==
  /\ IsFiniteSet(Function) /\ Roots \subseteq Function /\ Modelled \subseteq Function
  /\ Versions \subseteq Nat /\ 0 \in Versions /\ (\A v \in Versions : 0..v \subseteq Versions)
  /\ CallGraph \in [Versions -> [Function -> SUBSET Function]]
  /\ Silences \subseteq SUBSET Function /\ Rounds \in Nat \ {0}

VARIABLES
  xpc,      \* where the export is
  silent,   \* functions without AIR: inlined, generic or never analyzed
  pin,      \* version of the pinned module; its pin is version 0
  free,     \* version of the free module
  begun,    \* both when the compiler began to read
  filter,   \* the prefixes to export
  round,    \* the iteration
  air,      \* the last AIR: the versions it is of, and its functions
  replace,  \* --replace
  xout,     \* --out: "none", "empty", "previous" (an artifact), "foreign", or the "new" artifact
  parked,   \* the previous artifact was moved into the staging directory
  xend,     \* how the command ends
  had       \* what was in --out when it was last looked at (history)

sources == <<pin, free>>
search == <<begun, filter, round, air>>
export == <<xpc, silent, sources, search, replace, xout, parked, xend, had>>

PrefixNames == {PrefixOf[f] : f \in Function}
NoAir == [pin |-> 0, free |-> 0, functions |-> {}]

ExportOK ==
  /\ xpc \in {"off", "start", "compile", "compiler", "recheck", "close", "translate", "finish", "publish", "report", "ended"}
  /\ silent \subseteq Function
  /\ {pin, free, begun.pin, begun.free, air.pin, air.free} \subseteq Versions
  /\ filter \subseteq PrefixNames /\ round \in 0..Rounds /\ air.functions \subseteq Function
  /\ {replace, parked} \subseteq BOOLEAN
  /\ {xout, had} \subseteq {"none", "empty", "previous", "foreign", "new"}
  /\ xend \in {"none", "ok", "failed", "refused", "interrupted"}

ExportAt(l) ==
  /\ xpc = l
  /\ silent \in Silences
  /\ pin = 0 /\ free = 0 /\ begun = [pin |-> 0, free |-> 0]
  /\ filter = {PrefixOf[f] : f \in Roots} /\ round = 0 /\ air = NoAir
  /\ replace \in BOOLEAN /\ xout \in {"none", "empty", "previous", "foreign"}
  /\ parked = FALSE /\ xend = "none" /\ had = xout

ExportInit == ExportAt("start")

-----------------------------------------------------------------------------
(* What is called from a set of functions, through those that have AIR:    *)
(* the least set with them that is closed under the calls.                 *)
Called(from, graph, through) ==
  {f \in Function : \A S \in SUBSET Function :
     from \subseteq S /\ (\A g \in S \cap through : graph[g] \subseteq S) => f \in S}

Closure == Called(Roots \cap air.functions, CallGraph[air.free], air.functions \ Modelled)
Missing == Closure \ (air.functions \cup Modelled)

Ends(how) == xpc' = "ended" /\ xend' = how
Concludes(how) == xpc' = "report" /\ xend' = how   \* the export is over, its report is still to be told
KeepsOut == UNCHANGED <<replace, xout, parked, had>>

(* The pins and --out are checked before anything is run. *)
ExportStarts ==
  /\ xpc = "start"
  /\ IF pin = 0 /\ (xout \in {"none", "empty"} \/ (xout = "previous" /\ replace))
       THEN xpc' = "compile" /\ UNCHANGED xend
       ELSE Ends("refused")
  /\ had' = xout
  /\ UNCHANGED <<silent, sources, search, replace, xout, parked>>

(* A tool is not the declared one, or the manifest is invalid. *)
ExportRefused ==
  /\ xpc = "start"
  /\ Ends("refused")
  /\ UNCHANGED <<silent, sources, search>> /\ KeepsOut

(* The compiler begins, with the current filter... *)
CompilerStarts ==
  /\ xpc = "compile"
  /\ round' = round + 1
  /\ begun' = [pin |-> pin, free |-> free]
  /\ xpc' = "compiler"
  /\ UNCHANGED <<silent, sources, filter, air, xend>> /\ KeepsOut

(* ...and has read each module at some time when it ends: it wrote AIR for *)
(* what it analyzed and the filter covers.                                 *)
CompilerEnds ==
  /\ xpc = "compiler"
  /\ \/ /\ \E p \in begun.pin..pin, f \in begun.free..free :
             air' = [pin |-> p, free |-> f,
                     functions |-> {g \in Called(Roots, CallGraph[f], Function) \ silent : PrefixOf[g] \in filter}]
        /\ xpc' = "recheck" /\ UNCHANGED xend
     \/ Concludes("failed") /\ UNCHANGED air
  /\ UNCHANGED <<silent, sources, begun, filter, round>> /\ KeepsOut

(* Mutant: the pins were checked at the start. *)
RechecksNot ==
  /\ xpc = "recheck"
  /\ xpc' = "close"
  /\ UNCHANGED <<silent, sources, search, xend>> /\ KeepsOut

(* The sources are hashed again, against their pins only. *)
Rechecks ==
  /\ xpc = "recheck"
  /\ \/ pin = 0 /\ xpc' = "close" /\ UNCHANGED xend
     \/ Concludes("failed")
  /\ UNCHANGED <<silent, sources, search>> /\ KeepsOut

(* Mutant: an export that cannot grow any more is as good as a closed one. *)
ClosureClosesStalled ==
  /\ xpc = "close"
  /\ LET new == {PrefixOf[f] : f \in Missing} \ filter IN
       IF new = {}
         THEN xpc' = "translate" /\ UNCHANGED <<filter, xend>>
       ELSE IF round = Rounds THEN Concludes("failed") /\ UNCHANGED filter
       ELSE filter' = filter \cup new /\ xpc' = "compile" /\ UNCHANGED xend
  /\ UNCHANGED <<silent, sources, begun, round, air>> /\ KeepsOut

(* A fixed point with every root is translated; a filter that covers what  *)
(* is missing is stalled, and the iterations are bounded.                  *)
ClosureCloses ==
  /\ xpc = "close"
  /\ LET new == {PrefixOf[f] : f \in Missing} \ filter IN
       IF Missing = {} /\ Roots \subseteq air.functions
         THEN xpc' = "translate" /\ UNCHANGED <<filter, xend>>
       ELSE IF new = {} \/ round = Rounds THEN Concludes("failed") /\ UNCHANGED filter
       ELSE filter' = filter \cup new /\ xpc' = "compile" /\ UNCHANGED xend
  /\ UNCHANGED <<silent, sources, begun, round, air>> /\ KeepsOut

(* The AIR of the last iteration is copied and every root translated. *)
Translates ==
  /\ xpc = "translate"
  /\ \/ xpc' = "finish" /\ UNCHANGED xend
     \/ Concludes("failed")
  /\ UNCHANGED <<silent, sources, search>> /\ KeepsOut

(* Mutant: whatever is there is moved aside. *)
FinishesOver ==
  /\ xpc = "finish"
  /\ parked' = (xout \in {"previous", "foreign"})
  /\ xout' = "none" /\ xpc' = "publish" /\ UNCHANGED xend
  /\ UNCHANGED <<silent, sources, search, replace, had>>

(* An empty directory is removed, an artifact moved aside: also one that   *)
(* came during the export, whatever --replace says.                        *)
Finishes ==
  /\ xpc = "finish"
  /\ IF xout = "foreign"
       THEN Ends("refused") /\ UNCHANGED <<xout, parked>>
       ELSE parked' = (xout = "previous") /\ xout' = "none" /\ xpc' = "publish" /\ UNCHANGED xend
  /\ UNCHANGED <<silent, sources, search, replace, had>>

(* The rename fails when another took the name. *)
ExportPublishes ==
  /\ xpc = "publish"
  /\ \/ xout \in {"none", "empty"} /\ xout' = "new" /\ Concludes("ok")
     \/ Ends("refused") /\ UNCHANGED xout
  /\ UNCHANGED <<silent, sources, search, replace, parked, had>>

(* The report is written to --report and printed, and either may fail: the *)
(* command is refused then, whatever it has published.                     *)
Reports ==
  /\ xpc = "report"
  /\ \E how \in {xend, "refused"} : Ends(how)
  /\ UNCHANGED <<silent, sources, search>> /\ KeepsOut

-----------------------------------------------------------------------------
(* The surroundings.                                                       *)

SourceEdit ==
  /\ xpc \notin {"off", "ended"}
  /\ \/ pin' = pin + 1 /\ UNCHANGED free
     \/ free' = free + 1 /\ UNCHANGED pin
  /\ pin' \in Versions /\ free' \in Versions
  /\ UNCHANGED <<xpc, silent, search, xend>> /\ KeepsOut

(* Another makes the directory, or another export publishes there. *)
ExportOutAppears ==
  /\ xpc \notin {"off", "start", "ended"}
  /\ xout \in {"none", "empty"}
  /\ xout' \in {"foreign", "previous"}
  /\ had' = xout'
  /\ UNCHANGED <<xpc, silent, sources, search, replace, parked, xend>>

ExportInterrupt ==
  /\ xpc \notin {"off", "ended"}
  /\ Ends("interrupted")
  /\ UNCHANGED <<silent, sources, search>> /\ KeepsOut

ExportRuns ==
  \/ ExportStarts \/ ExportRefused \/ CompilerStarts \/ CompilerEnds \/ Rechecks \/ ClosureCloses \/ Translates
  \/ Finishes \/ ExportPublishes \/ Reports

ExportNext == ExportRuns \/ SourceEdit \/ ExportOutAppears \/ ExportInterrupt

ExportSpec == ExportInit /\ [][ExportNext]_export /\ WF_export(ExportRuns)

-----------------------------------------------------------------------------
(* Properties.                                                             *)

(* What is published has the AIR of every root and of all they reach in    *)
(* the sources it is of, but for what the runtime models.                  *)
ArtifactClosed ==
  xout = "new" =>
    /\ Roots \subseteq air.functions
    /\ Called(Roots, CallGraph[air.free], Function \ Modelled) \subseteq air.functions \cup Modelled

(* It is of the pinned version, whenever the compiler read the module. *)
PinnedExact == xout = "new" => air.pin = 0

(* What another has put there stays, unless it is an artifact; that is     *)
(* gone without a new one only when the command broke off between the two  *)
(* renames.                                                                *)
OutKept ==
  /\ had = "foreign" => xout = "foreign"
  /\ xpc = "ended" /\ had = "previous" /\ xout \notin {"previous", "new"} => parked /\ xend # "ok"

(* A verdict is about what is in --out.  A refusal is none: the report of  *)
(* a published artifact may fail to be written.                            *)
OutTold == /\ xend = "ok" => xout = "new"
           /\ xend = "failed" => xout # "new"

(* project.py export. *)
ExportKept == ArtifactClosed /\ PinnedExact /\ OutKept /\ OutTold

=============================================================================
