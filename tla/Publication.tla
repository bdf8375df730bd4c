----------------------------- MODULE Publication ------------------------------
(***************************************************************************)
(* Publication of an artifact (scripts/safe-output.py, publish and main):  *)
(* several publishers copy theirs beside one destination and rename it     *)
(* over (--overwrite) or link it (--no-clobber).  A publisher may be       *)
(* interrupted by a signal or an I/O error, or be killed, at any point;    *)
(* the machine may lose power.                                             *)
(*                                                                         *)
(* A file is the publisher that wrote it with what of it is there: the     *)
(* data of a file that was not synced may be lost with the power, and so   *)
(* may a directory entry since the last sync of the directory.             *)
(***************************************************************************)
EXTENDS Integers, FiniteSets

CONSTANTS
  Publisher,
  Overwriter,  \* the publishers that use --overwrite
  Before       \* the writer of a file that was there before

ASSUME PublicationAssumption ==
  Overwriter \subseteq Publisher /\ Before \notin Publisher

VARIABLES
  ppc,      \* where a publisher is
  dest,     \* the destination: a set with its file, or empty
  disk,     \* what the directory on disk may hold for the destination
  temp,     \* the temporary file of a publisher: "none", "part", "whole" or "synced"
  report,   \* what a publisher says when it ends: "nothing", "published", "refused" or "interrupted"
  power     \* the machine runs

publication == <<ppc, dest, disk, temp, report, power>>

File == [by : Publisher \cup {Before}, data : {"part", "whole", "synced"}]

PublicationOK ==
  /\ ppc \in [Publisher -> {"open", "copy", "put", "clean", "syncdir", "ended"}]
  /\ dest \in SUBSET File /\ Cardinality(dest) <= 1
  /\ dest \in disk
  /\ temp \in [Publisher -> {"none", "part", "whole", "synced"}]
  /\ report \in [Publisher -> {"nothing", "published", "refused", "interrupted"}]
  /\ power \in BOOLEAN
  /\ \A p \in Publisher : ppc[p] \in {"open", "syncdir"} => temp[p] = "none"

Old == {[by |-> Before, data |-> "synced"]}

PublicationInit ==
  /\ ppc = [p \in Publisher |-> "open"]
  /\ dest \in {{}, Old}
  /\ disk = {dest}
  /\ temp = [p \in Publisher |-> "none"]
  /\ report = [p \in Publisher |-> "nothing"]
  /\ power = TRUE

To(p, l) == ppc' = [ppc EXCEPT ![p] = l]

(* The artifact is opened; --no-clobber refuses what it can see already.   *)
Open(p) ==
  /\ ppc[p] = "open"
  /\ IF p \notin Overwriter /\ dest # {}
       THEN To(p, "ended") /\ report' = [report EXCEPT ![p] = "refused"] /\ UNCHANGED temp
       ELSE To(p, "copy") /\ temp' = [temp EXCEPT ![p] = "part"] /\ UNCHANGED report
  /\ UNCHANGED <<dest, disk, power>>

(* Mutant: the file is not synced before it is put in place. *)
CopyUnsynced(p) ==
  /\ ppc[p] = "copy"
  /\ temp[p] = "part"
  /\ temp' = [temp EXCEPT ![p] = "whole"]
  /\ To(p, "put")
  /\ UNCHANGED <<dest, disk, report, power>>

(* The artifact is copied, then synced. *)
Copy(p) ==
  /\ ppc[p] = "copy"
  /\ \/ temp[p] = "part" /\ temp' = [temp EXCEPT ![p] = "whole"] /\ UNCHANGED ppc
     \/ temp[p] = "whole" /\ temp' = [temp EXCEPT ![p] = "synced"] /\ To(p, "put")
  /\ UNCHANGED <<dest, disk, report, power>>

Place(p) ==
  /\ dest' = {[by |-> p, data |-> temp[p]]}
  /\ disk' = disk \cup {dest'}

(* os.replace. *)
Replace(p) ==
  /\ ppc[p] = "put"
  /\ p \in Overwriter
  /\ Place(p)
  /\ temp' = [temp EXCEPT ![p] = "none"]
  /\ To(p, "clean")
  /\ UNCHANGED <<report, power>>

(* Mutant: the check and the rename in place of the link. *)
LinkLate(p) ==
  /\ ppc[p] = "put"
  /\ p \notin Overwriter
  /\ Place(p)
  /\ To(p, "clean")
  /\ UNCHANGED <<temp, report, power>>

(* os.link, which fails when the destination is there. *)
Link(p) ==
  /\ ppc[p] = "put"
  /\ p \notin Overwriter
  /\ IF dest = {}
       THEN Place(p) /\ UNCHANGED report
       ELSE report' = [report EXCEPT ![p] = "refused"] /\ UNCHANGED <<dest, disk>>
  /\ To(p, "clean")
  /\ UNCHANGED <<temp, power>>

(* A signal or an I/O error: an exception, which unwinds through the       *)
(* removal of the temporary file; one that comes in the removal stops it.  *)
Interrupted(p) ==
  /\ ppc[p] \in {"open", "copy", "put", "clean", "syncdir"}
  /\ report[p] = "nothing"
  /\ report' = [report EXCEPT ![p] = "interrupted"]
  /\ \/ ppc[p] \in {"copy", "put", "clean"} /\ To(p, "clean")
     \/ ppc[p] \in {"open", "clean", "syncdir"} /\ To(p, "ended")
  /\ UNCHANGED <<dest, disk, temp, power>>

(* Mutant: a refusal leaves the temporary file. *)
CleanSuccess(p) ==
  /\ ppc[p] = "clean"
  /\ temp' = IF report[p] = "nothing" THEN [temp EXCEPT ![p] = "none"] ELSE temp
  /\ To(p, IF report[p] = "nothing" THEN "syncdir" ELSE "ended")
  /\ UNCHANGED <<dest, disk, report, power>>

(* The temporary file is removed. *)
Clean(p) ==
  /\ ppc[p] = "clean"
  /\ temp' = [temp EXCEPT ![p] = "none"]
  /\ To(p, IF report[p] = "nothing" THEN "syncdir" ELSE "ended")
  /\ UNCHANGED <<dest, disk, report, power>>

(* The directory is synced, on a filesystem that can. *)
SyncDirectory(p) ==
  /\ ppc[p] = "syncdir"
  /\ disk' \in {{dest}, disk}
  /\ report' = [report EXCEPT ![p] = "published"]
  /\ To(p, "ended")
  /\ UNCHANGED <<dest, temp, power>>

(* SIGKILL: nothing is reported. *)
Killed(p) ==
  /\ ppc[p] # "ended"
  /\ report' = [report EXCEPT ![p] = "nothing"]
  /\ To(p, "ended")
  /\ UNCHANGED <<dest, disk, temp, power>>

(* The power fails: one of the directory's entries since its last sync is  *)
(* on disk, and the data of a file that was not synced is cut.             *)
PowerFails ==
  /\ power' = FALSE
  /\ \E d \in disk :
       dest' = {[f EXCEPT !.data = IF @ = "synced" THEN "synced" ELSE "part"] : f \in d}
  /\ disk' = {dest'}
  /\ ppc' = [p \in Publisher |-> "ended"]
  /\ report' = [p \in Publisher |-> IF ppc[p] = "ended" THEN report[p] ELSE "nothing"]
  /\ UNCHANGED temp

PublisherStep(p) ==
  \/ Open(p) \/ Copy(p) \/ Replace(p) \/ Link(p) \/ Clean(p) \/ SyncDirectory(p)
  \/ Interrupted(p) \/ Killed(p)

PublicationNext == power /\ ((\E p \in Publisher : PublisherStep(p) /\ UNCHANGED power) \/ PowerFails)

PublicationSpec == PublicationInit /\ [][PublicationNext]_publication

-----------------------------------------------------------------------------
(* Properties.                                                             *)

(* The destination never holds part of an artifact, even when the power    *)
(* fails.                                                                  *)
DestinationWhole == \A f \in dest : f.data # "part"

(* A publisher that ends without an exception leaves nothing beside it.    *)
NothingBeside ==
  \A p \in Publisher : report[p] \in {"published", "refused"} /\ ppc[p] = "ended" => temp[p] = "none"

(* Only a publisher that overwrites replaces a file, however the others    *)
(* race.                                                                   *)
NoClobber ==
  [][dest' # dest /\ power' => dest = {} \/ \A f \in dest' : f.by \in Overwriter]_publication

PublicationKept == [](DestinationWhole /\ NothingBeside) /\ NoClobber

=============================================================================
