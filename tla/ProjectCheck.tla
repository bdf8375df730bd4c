---------------------------- MODULE ProjectCheck -----------------------------
(***************************************************************************)
(* project.py check: translate the AIR of a project, compare it with the   *)
(* committed modules, build and audit the proofs under build-guard, check  *)
(* the claims, and publish one record whose hashes say what all of this    *)
(* was about.  Meanwhile the files may be edited, by versions that never   *)
(* return, and the command may be signalled.                               *)
(*                                                                         *)
(* The guard keeps its own promises (GuardedRun): it ends after its        *)
(* workload, unless it is killed.                                          *)
(***************************************************************************)
EXTENDS Integers

CONSTANT MaxEdits   \* bound on the edits during a check

ASSUME EditsAssumption == MaxEdits \in Nat

Part == {"manifest", "air", "lean", "scripts", "translator"}
Inputs == {"manifest", "air", "lean"}
Unread == -1
CheckStages == {"translate", "verify", "reproduce", "build", "audit", "goals", "claims", "stable"}

VARIABLES
  kpc,       \* where the check is
  toRead,      \* the parts the current reading has still to read
  version,       \* the version of each part
  first,     \* the versions the record names
  workedOn,      \* parts and versions that a stage worked on (history)
  builtFrom,     \* the version of the proofs the library was built from
  passed,    \* the stages that passed
  failed,    \* failures # []
  gd,        \* the guard of the stage: "none", "runs", "ended"
  load,      \* its workload lives
  guardTold,      \* it was asked to stop
  gap,       \* a signal came where nothing handles it (history)
  kout,      \* --out: "none", "empty" or "full" of another, or the "record"
  kstatus,   \* the status of the record
  kend       \* how the command ended

guarding == <<gd, load, guardTold, gap>>
reading == <<first, workedOn, builtFrom>>
check == <<kpc, toRead, version, reading, passed, failed, guarding, kout, kstatus, kend>>

CheckOK ==
  /\ kpc \in {"off", "scripts", "collect", "hash", "run", "translate", "verify", "reproduce", "guard", "popen", "wait",
              "tell", "goals", "claims", "rescan", "record", "rename", "print", "ended"}
  /\ toRead \subseteq Part
  /\ version \in [Part -> 0..MaxEdits]
  /\ first \in [Part -> Unread..MaxEdits] /\ builtFrom \in Unread..MaxEdits
  /\ workedOn \subseteq Part \X (0..MaxEdits)
  /\ passed \subseteq CheckStages
  /\ {failed, load, guardTold, gap} \subseteq BOOLEAN
  /\ gd \in {"none", "runs", "ended"}
  /\ kout \in {"none", "empty", "full", "record"}
  /\ kstatus \in {"none", "failed", "reproduced"}
  /\ kend \in {"none", "record", "refused", "interrupted"}

CheckAt(l) ==
  /\ kpc = l
  /\ toRead = {}
  /\ version = [p \in Part |-> 0] /\ first = [p \in Part |-> Unread]
  /\ workedOn = {} /\ builtFrom = Unread
  /\ passed = {} /\ failed = FALSE
  /\ gd = "none" /\ load = FALSE /\ guardTold = FALSE /\ gap = FALSE
  /\ kout = "none" /\ kstatus = "none" /\ kend = "none"

CheckInit == CheckAt("scripts")

-----------------------------------------------------------------------------
(* The reading of the inputs.                                              *)

Refuses == kpc' = "ended" /\ kend' = "refused"
Uses(parts) == workedOn' = workedOn \cup {<<p, version[p]>> : p \in parts}

ReadsScripts ==
  /\ kpc = "scripts"
  /\ first' = [first EXCEPT !["scripts"] = version["scripts"]]
  /\ toRead' = Inputs
  /\ kpc' = "collect"
  /\ UNCHANGED <<version, workedOn, builtFrom, passed, failed, guarding, kout, kstatus, kend>>

(* collect: the manifest, then the files it names. *)
Next_(p) == p \in toRead /\ ("manifest" \in toRead => p = "manifest")

Collects ==
  /\ kpc = "collect"
  /\ \E p \in Inputs : Next_(p) /\ first' = [first EXCEPT ![p] = version[p]] /\ toRead' = toRead \ {p}
  /\ UNCHANGED <<kpc, version, workedOn, builtFrom, passed, failed, guarding, kout, kstatus, kend>>

(* What cannot be read or is invalid: the scripts, an input, also at the   *)
(* rescan, the translator; a translation or a record too large; a judge of *)
(* the claims that is late.                                                *)
Invalidates ==
  /\ kpc \in {"scripts", "collect", "hash", "run", "translate", "claims", "rescan", "record"}
  /\ Refuses
  /\ UNCHANGED <<toRead, version, reading, passed, failed, guarding, kout, kstatus>>

(* A stage that fails ends the check with a record that says so. *)
CheckFails == kpc' = "record" /\ failed' = TRUE
PassesTo(stage, l) == kpc' = l /\ passed' = passed \cup {stage}

Collected ==
  /\ kpc = "collect"
  /\ toRead = {}
  /\ \/ kpc' = "hash" /\ UNCHANGED failed
     \/ CheckFails
  /\ UNCHANGED <<toRead, version, reading, passed, guarding, kout, kstatus, kend>>

-----------------------------------------------------------------------------
(* The translation.                                                        *)

HashesTranslator ==
  /\ kpc = "hash"
  /\ first' = [first EXCEPT !["translator"] = version["translator"]]
  /\ kpc' = "run"
  /\ UNCHANGED <<toRead, version, workedOn, builtFrom, passed, failed, guarding, kout, kstatus, kend>>

(* The translator is started for the first root... *)
StartsTranslator ==
  /\ kpc = "run"
  /\ Uses({"translator"})
  /\ kpc' = "translate"
  /\ UNCHANGED <<toRead, version, first, builtFrom, passed, failed, guarding, kout, kstatus, kend>>

(* ...and ends, or its group is killed, for the last one; the AIR is what   *)
(* collect has kept.  The artifact is published into private staging.      *)
Translated ==
  /\ kpc = "translate"
  /\ Uses({"translator"})
  /\ \/ PassesTo("translate", "verify") /\ toRead' = Inputs /\ UNCHANGED failed
     \/ CheckFails /\ UNCHANGED <<toRead, passed>>
  /\ UNCHANGED <<version, first, builtFrom, guarding, kout, kstatus, kend>>

Differs(p) == version[p] # first[p]

(* verify reads all inputs again, then the translator. *)
Verifies ==
  /\ kpc = "verify"
  /\ \E p \in Inputs :
       /\ Next_(p)
       /\ toRead' = toRead \ {p}
       /\ IF Differs(p) THEN CheckFails ELSE UNCHANGED <<kpc, failed>>
  /\ UNCHANGED <<version, reading, passed, guarding, kout, kstatus, kend>>

(* Mutant: the artifact's inputs match, whatever has translated them. *)
VerifiesInputs ==
  /\ kpc = "verify"
  /\ toRead = {}
  /\ PassesTo("verify", "reproduce") /\ UNCHANGED failed
  /\ UNCHANGED <<toRead, version, reading, guarding, kout, kstatus, kend>>

VerifiesTranslator ==
  /\ kpc = "verify"
  /\ toRead = {}
  /\ IF Differs("translator")
       THEN CheckFails /\ UNCHANGED passed
       ELSE PassesTo("verify", "reproduce") /\ UNCHANGED failed
  /\ UNCHANGED <<toRead, version, reading, guarding, kout, kstatus, kend>>

(* The committed modules are read, and must say what the translation says. *)
Reproduces ==
  /\ kpc = "reproduce"
  /\ Uses({"lean"})
  /\ \/ PassesTo("reproduce", "guard") /\ UNCHANGED failed
     \/ CheckFails /\ UNCHANGED passed
  /\ UNCHANGED <<toRead, version, first, builtFrom, guarding, kout, kstatus, kend>>

-----------------------------------------------------------------------------
(* The two stages under build-guard (run_guarded).                         *)

Stage_ == IF "build" \in passed THEN "audit" ELSE "build"

StartsGuard ==
  /\ kpc = "guard"
  /\ \/ gd' = "runs" /\ load' = TRUE /\ guardTold' = FALSE /\ kpc' = "popen" /\ Uses({"scripts"}) /\ UNCHANGED kend
     \/ Refuses /\ UNCHANGED <<gd, load, guardTold, workedOn>>   \* Popen raises
  /\ UNCHANGED <<toRead, version, first, builtFrom, passed, failed, gap, kout, kstatus>>

Communicates ==
  /\ kpc = "popen"
  /\ kpc' = "wait"
  /\ UNCHANGED <<toRead, version, reading, passed, failed, guarding, kout, kstatus, kend>>

(* The workload ends by itself or is stopped; then the guard ends. *)
LoadEnds ==
  /\ load
  /\ load' = FALSE
  /\ UNCHANGED <<kpc, toRead, version, reading, passed, failed, gd, guardTold, gap, kout, kstatus, kend>>

GuardEnds ==
  /\ gd = "runs" /\ ~load
  /\ gd' = "ended"
  /\ UNCHANGED <<kpc, toRead, version, reading, passed, failed, load, guardTold, gap, kout, kstatus, kend>>

(* Its report says how it went.  The build reads the proofs while it runs; *)
(* whoever builds them again before the audit changes what is audited.     *)
StagePasses ==
  /\ kpc = "wait"
  /\ gd = "ended"
  /\ gd' = "none"
  /\ \E v \in (IF Stage_ = "build" THEN first["lean"] ELSE builtFrom)..version["lean"] :
       /\ builtFrom' = v
       /\ workedOn' = workedOn \cup {<<"lean", v>>, <<"scripts", version["scripts"]>>}
  /\ PassesTo(Stage_, IF Stage_ = "build" THEN "guard" ELSE "goals")
  /\ UNCHANGED <<toRead, version, first, failed, load, guardTold, gap, kout, kstatus, kend>>

StageFails ==
  /\ kpc = "wait"
  /\ gd = "ended"
  /\ gd' = "none"
  /\ CheckFails
  /\ UNCHANGED <<toRead, version, reading, passed, load, guardTold, gap, kout, kstatus, kend>>

(* Mutant: a guard that is late is killed at once. *)
OverdueKills ==
  /\ kpc = "wait"
  /\ gd = "runs"
  /\ gd' = "ended"
  /\ Refuses
  /\ UNCHANGED <<toRead, version, reading, passed, failed, load, guardTold, gap, kout, kstatus>>

(* communicate(timeout): the guard is late. *)
Overdue ==
  /\ kpc = "wait"
  /\ gd = "runs"
  /\ guardTold' = TRUE
  /\ kpc' = "tell"
  /\ UNCHANGED <<toRead, version, reading, passed, failed, gd, load, gap, kout, kstatus, kend>>

(* It is waited for, 60 s, and killed then. *)
GuardAnswers ==
  /\ kpc = "tell"
  /\ gd' = "ended"   \* by itself, or killed
  /\ Refuses
  /\ UNCHANGED <<toRead, version, reading, passed, failed, load, guardTold, gap, kout, kstatus>>

-----------------------------------------------------------------------------
(* The judgement.                                                          *)

Judges ==
  /\ kpc = "goals"
  /\ \/ passed' = passed \cup {"goals"} /\ UNCHANGED failed
     \/ failed' = TRUE /\ UNCHANGED passed
  /\ kpc' = "claims"
  /\ UNCHANGED <<toRead, version, reading, guarding, kout, kstatus, kend>>

JudgesClaims ==
  /\ kpc = "claims"
  /\ \/ Uses({"manifest", "scripts"}) /\ passed' = passed \cup {"claims"} /\ UNCHANGED failed
     \/ failed' = TRUE /\ UNCHANGED <<workedOn, passed>>
  /\ kpc' = "rescan" /\ toRead' = Inputs
  /\ UNCHANGED <<version, first, builtFrom, guarding, kout, kstatus, kend>>

(* The inputs are read a last time, then the scripts. *)
Rescans ==
  /\ kpc = "rescan"
  /\ \E p \in Inputs :
       /\ Next_(p)
       /\ toRead' = toRead \ {p}
       /\ failed' = (failed \/ Differs(p))
  /\ UNCHANGED <<kpc, version, reading, passed, guarding, kout, kstatus, kend>>

(* Mutant: the scripts are not hashed again. *)
RescannedInputs ==
  /\ kpc = "rescan"
  /\ toRead = {}
  /\ UNCHANGED failed
  /\ passed' = passed \cup {"stable"}
  /\ kpc' = "record"
  /\ UNCHANGED <<toRead, version, reading, guarding, kout, kstatus, kend>>

Rescanned ==
  /\ kpc = "rescan"
  /\ toRead = {}
  /\ failed' = (failed \/ Differs("scripts"))
  /\ passed' = IF failed' THEN passed ELSE passed \cup {"stable"}
  /\ kpc' = "record"
  /\ UNCHANGED <<toRead, version, reading, guarding, kout, kstatus, kend>>

-----------------------------------------------------------------------------
(* The publication (check_command).                                        *)

WritesRecord ==
  /\ kpc = "record"
  /\ kstatus' = IF failed THEN "failed" ELSE "reproduced"
  /\ IF kout = "none" THEN kpc' = "rename" /\ UNCHANGED kend ELSE Refuses
  /\ UNCHANGED <<toRead, version, reading, passed, failed, guarding, kout>>

(* rename replaces an empty directory and no other. *)
Renames ==
  /\ kpc = "rename"
  /\ \/ kout # "full" /\ kout' = "record" /\ kpc' = "print" /\ UNCHANGED kend
     \/ Refuses /\ UNCHANGED kout
  /\ UNCHANGED <<toRead, version, reading, passed, failed, guarding, kstatus>>

(* The record is in its place, also when it cannot be printed. *)
Prints ==
  /\ kpc = "print"
  /\ kpc' = "ended" /\ kend' \in {"record", "refused"}
  /\ UNCHANGED <<toRead, version, reading, passed, failed, guarding, kout, kstatus>>

-----------------------------------------------------------------------------
(* The surroundings.                                                       *)

Edits == version["manifest"] + version["air"] + version["lean"] + version["scripts"] + version["translator"]

Edit ==
  /\ kpc \notin {"off", "ended"}
  /\ Edits < MaxEdits
  /\ \E p \in Part : version' = [version EXCEPT ![p] = @ + 1]
  /\ UNCHANGED <<kpc, toRead, reading, passed, failed, guarding, kout, kstatus, kend>>

(* Another makes the directory. *)
OutAppears ==
  /\ kpc \in {"record", "rename"}
  /\ kout = "none"
  /\ kout' \in {"empty", "full"}
  /\ UNCHANGED <<kpc, toRead, version, reading, passed, failed, guarding, kstatus, kend>>

(* SIGINT or SIGTERM: in the wait for a guard the guard is told; while it  *)
(* is being waited for then, and between Popen and the try, nothing is.    *)
Interrupt ==
  /\ kpc \notin {"off", "ended"}
  /\ IF kpc = "wait" /\ gd = "runs"
       THEN kpc' = "tell" /\ guardTold' = TRUE /\ UNCHANGED <<gap, kend>>
       ELSE kpc' = "ended" /\ kend' = "interrupted" /\ gap' = (kpc \in {"popen", "tell"}) /\ UNCHANGED guardTold
  /\ UNCHANGED <<toRead, version, reading, passed, failed, gd, load, kout, kstatus>>

CheckRuns ==
  \/ ReadsScripts \/ Collects \/ Collected \/ HashesTranslator \/ StartsTranslator \/ Translated \/ Verifies
  \/ VerifiesTranslator \/ Reproduces \/ StartsGuard \/ Communicates \/ StagePasses \/ StageFails \/ Overdue
  \/ GuardAnswers \/ Judges \/ JudgesClaims \/ Rescans \/ Rescanned \/ WritesRecord \/ Renames \/ Prints

CheckNext == CheckRuns \/ Invalidates \/ LoadEnds \/ GuardEnds \/ Edit \/ OutAppears \/ Interrupt

CheckSpec == CheckInit /\ [][CheckNext]_check /\ WF_check(CheckRuns)

-----------------------------------------------------------------------------
(* Properties.                                                             *)

(* A record that says reproduced is of one version of everything: every    *)
(* stage passed, and each worked on the versions that the record names.    *)
RecordIsBacked ==
  kout = "record" /\ kstatus = "reproduced" =>
    /\ passed = CheckStages
    /\ \A use \in workedOn : use[2] = first[use[1]]
    /\ builtFrom = first["lean"]

(* A command that says it has published has; and what is published, also   *)
(* by one that could not print it, is a whole check: it has a verdict, and *)
(* neither guard nor workload is left.                                      *)
OutIsOurs ==
  /\ kend = "record" => kout = "record"
  /\ kout = "record" => kstatus # "none" /\ gd = "none" /\ ~load

(* A command that ends with a guard or its workload alive has told the     *)
(* guard to stop, but for a signal that came between the start of the      *)
(* guard and the wait for it; and it does not leave a guard it has told    *)
(* but for a second signal.                                                *)
GuardTold ==
  kpc = "ended" =>
    /\ load => guardTold \/ gap
    /\ gd = "runs" => gap

(* project.py check. *)
CheckKept == RecordIsBacked /\ OutIsOurs /\ GuardTold

=============================================================================
