-------------------------------- MODULE ParRun --------------------------------
(***************************************************************************)
(* A parallel run of jobs (scripts/par.py, run): at most Workers at once,  *)
(* within a memory budget, their output written in job order, the first    *)
(* unfinished job's as it comes.                                           *)
(*                                                                         *)
(* The chunks of a job's two streams are one sequence: each goes to the    *)
(* stream it came from, in the order it was read.  Statistics and logs are *)
(* left out.                                                               *)
(***************************************************************************)
EXTENDS Integers, Sequences, FiniteSets, SequencesExt

CONSTANTS
  Jobs,      \* the number of jobs; a job is its index
  Workers,   \* max_workers
  Budget,    \* mem_budget_mib
  Memory,    \* the memory request of each job
  Chunks,    \* bound on the chunks each job writes
  Orders     \* the start orders a run may be given

Job == 1..Jobs

ASSUME ParAssumption ==
  /\ {Jobs, Workers} \subseteq Nat \ {0} /\ Budget \in Nat
  /\ Memory \in [Job -> Nat] /\ Chunks \in [Job -> Nat]
  /\ \A o \in Orders :   \* each job once
       /\ o \in Seq(Job) /\ Len(o) = Jobs /\ ToSet(o) = Job
       /\ \A i, j \in Job : o[i] = o[j] => i = j

VARIABLES
  wpc,        \* where the loop is
  head,       \* the first job whose output is not yet fully written
  pending,    \* the jobs to start, in the start order
  running,    \* the started jobs that are not done
  done,       \* the done jobs whose output is not written
  reserved,   \* the requests of the running jobs
  bypassed,   \* jobs started past the first pending one since it became first
  told,       \* a signal was received
  exited,     \* the jobs whose process has ended
  closed,     \* the jobs whose output is closed at the writing end
  ready,      \* the jobs whose output the selector found ready
  pipe,       \* the chunks of each job that were not read
  sent,       \* how many chunks each job has written
  eof,        \* the jobs whose output was read to its end
  spool,      \* the chunks of each job that were read and not written
  written,    \* what was written
  passes      \* how often a job was passed as the first pending one (history)

queue  == <<pending, running, done, reserved, bypassed, passes>>
procs  == <<exited, closed, sent>>
input  == <<ready, pipe, eof>>
output == <<head, spool, written>>
par    == <<wpc, told, queue, procs, input, output>>

ParOK ==
  /\ wpc \in {"off", "top", "admit", "advance", "read", "reap", "stop", "replay", "ended", "interrupted"}
  /\ head \in 1..Jobs + 1
  /\ pending \in Seq(Job) /\ running \subseteq Job /\ done \subseteq Job
  /\ \A j \in Job : j \notin running \cap done /\ j \notin ToSet(pending) \cap (running \cup done)
  /\ reserved \in Nat /\ bypassed \in 0..Workers
  /\ told \in BOOLEAN
  /\ exited \subseteq Job /\ closed \subseteq Job /\ eof \subseteq closed
  /\ ready \subseteq running
  /\ sent \in [Job -> Nat] /\ passes \in [Job -> Nat]

(* The state before a run; the loop is at l. *)
ParAt(l) ==
  /\ wpc = l
  /\ head = 1
  /\ pending \in Orders
  /\ running = {} /\ done = {}
  /\ reserved = 0 /\ bypassed = 0
  /\ told = FALSE
  /\ exited = {} /\ closed = {} /\ eof = {} /\ ready = {}
  /\ sent = [j \in Job |-> 0]
  /\ pipe = [j \in Job |-> <<>>] /\ spool = [j \in Job |-> <<>>]
  /\ written = <<>>
  /\ passes = [j \in Job |-> 0]

ParInit == ParAt("top")

-----------------------------------------------------------------------------
(* A running job, with what it starts: it writes, closes its output and    *)
(* ends, the last two in any order.                                        *)

Writes(j) ==
  /\ j \in running \ closed
  /\ sent[j] < Chunks[j]
  /\ sent' = [sent EXCEPT ![j] = @ + 1]
  /\ pipe' = [pipe EXCEPT ![j] = Append(@, <<j, sent[j] + 1>>)]
  /\ UNCHANGED <<wpc, told, queue, exited, closed, ready, eof, output>>

Closes(j) ==
  /\ j \in running \ closed
  /\ closed' = closed \cup {j}
  /\ UNCHANGED <<wpc, told, queue, exited, sent, input, output>>

Exits(j) ==
  /\ j \in running \ exited
  /\ exited' = exited \cup {j}
  /\ UNCHANGED <<wpc, told, queue, closed, sent, input, output>>

Tell ==
  /\ wpc \notin {"off", "ended", "interrupted"}
  /\ told' = TRUE
  /\ UNCHANGED <<wpc, queue, procs, input, output>>

-----------------------------------------------------------------------------
(* The loop.                                                               *)

Top ==
  /\ wpc = "top"
  /\ wpc' = IF head > Jobs THEN "ended" ELSE IF told THEN "stop" ELSE "admit"
  /\ UNCHANGED <<told, queue, procs, input, output>>

FitsBeside(j) == running = {} \/ reserved + Memory[j] <= Budget

(* Mutant: a job that fits may always pass. *)
EligibleAlways(j) == j \in ToSet(pending) /\ Cardinality(running) < Workers /\ FitsBeside(j)

(* The first job waits for room once it was passed often enough. *)
Eligible(j) ==
  /\ j \in ToSet(pending)
  /\ Cardinality(running) < Workers
  /\ bypassed < Workers \/ j = pending[1]
  /\ FitsBeside(j)

IsFirst(j) == \A i \in 1..Len(pending) : Eligible(pending[i]) => \E k \in 1..i : pending[k] = j

Admitted(j) ==
  /\ pending' = RemoveFirst(pending, j)
  /\ bypassed' = IF j = pending[1] THEN 0 ELSE bypassed + 1
  /\ passes' = IF j = pending[1] THEN passes ELSE [passes EXCEPT ![pending[1]] = @ + 1]

(* Mutant: the request of a job is not reserved. *)
StartUnreserved(j) ==
  /\ wpc = "admit"
  /\ Eligible(j) /\ IsFirst(j)
  /\ Admitted(j)
  /\ running' = running \cup {j}
  /\ UNCHANGED <<wpc, told, done, reserved, procs, input, output>>

(* The first pending job that fits starts. *)
StartJob(j) ==
  /\ wpc = "admit"
  /\ Eligible(j) /\ IsFirst(j)
  /\ Admitted(j)
  /\ running' = running \cup {j}
  /\ reserved' = reserved + Memory[j]
  /\ UNCHANGED <<wpc, told, done, procs, input, output>>

(* It cannot be started: it has finished with a message as its output.     *)
StartFails(j) ==
  /\ wpc = "admit"
  /\ Eligible(j) /\ IsFirst(j)
  /\ Admitted(j)
  /\ done' = done \cup {j}
  /\ sent' = [sent EXCEPT ![j] = 1]
  /\ spool' = [spool EXCEPT ![j] = << <<j, 1>> >>]
  /\ exited' = exited \cup {j} /\ closed' = closed \cup {j} /\ eof' = eof \cup {j}
  /\ UNCHANGED <<wpc, told, running, reserved, ready, pipe, head, written>>

NoneFits ==
  /\ wpc = "admit"
  /\ \A j \in Job : ~Eligible(j)
  /\ wpc' = "advance"
  /\ UNCHANGED <<told, queue, procs, input, output>>

(* The jobs with output to read, or at its end. *)
Readable == {j \in running \ eof : pipe[j] # <<>> \/ j \in closed}

(* Mutant: the buffered output of a job that becomes the first unfinished  *)
(* one waits for its end.                                                  *)
AdvanceLazily ==
  /\ wpc = "advance"
  /\ \/ /\ head \in done
        /\ written' = written \o spool[head]
        /\ spool' = [spool EXCEPT ![head] = <<>>]
        /\ done' = done \ {head}
        /\ head' = head + 1
        /\ UNCHANGED <<wpc, ready>>
     \/ /\ head \notin done
        /\ wpc' = IF running = {} THEN "top" ELSE "read"
        /\ ready' = Readable
        /\ UNCHANGED <<done, output>>
  /\ UNCHANGED <<told, pending, running, reserved, bypassed, passes, procs, pipe, eof>>

(* The done jobs at the head are written, then what the next one has   *)
(* buffered; the selector waits for output, or a tenth of a second.        *)
Advance ==
  /\ wpc = "advance"
  /\ \/ /\ head \in done
        /\ written' = written \o spool[head]
        /\ spool' = [spool EXCEPT ![head] = <<>>]
        /\ done' = done \ {head}
        /\ head' = head + 1
        /\ UNCHANGED <<wpc, ready>>
     \/ /\ head \notin done
        /\ IF head \in running
             THEN written' = written \o spool[head] /\ spool' = [spool EXCEPT ![head] = <<>>]
             ELSE UNCHANGED <<spool, written>>
        /\ wpc' = IF running = {} THEN "top" ELSE "read"
        /\ ready' = Readable
        /\ UNCHANGED <<head, done>>
  /\ UNCHANGED <<told, pending, running, reserved, bypassed, passes, procs, pipe, eof>>

(* A chunk is read: written at once if it is the head's, else buffered.    *)
Read(j) ==
  /\ wpc = "read"
  /\ j \in ready /\ pipe[j] # <<>>
  /\ ready' = ready \ {j}
  /\ pipe' = [pipe EXCEPT ![j] = Tail(@)]
  /\ IF j = head
       THEN written' = Append(written, Head(pipe[j])) /\ UNCHANGED spool
       ELSE spool' = [spool EXCEPT ![j] = Append(@, Head(pipe[j]))] /\ UNCHANGED written
  /\ UNCHANGED <<wpc, told, queue, procs, eof, head>>

ReadEnd(j) ==
  /\ wpc = "read"
  /\ j \in ready /\ pipe[j] = <<>>
  /\ ready' = ready \ {j}
  /\ eof' = eof \cup {j}
  /\ UNCHANGED <<wpc, told, queue, procs, pipe, output>>

ReadDone ==
  /\ wpc = "read"
  /\ ready = {}
  /\ wpc' = "reap"
  /\ UNCHANGED <<told, queue, procs, input, output>>

(* Mutant: a job has done when its process has ended. *)
ReapExited(j) ==
  /\ wpc = "reap"
  /\ j \in running \cap exited
  /\ running' = running \ {j}
  /\ done' = done \cup {j}
  /\ reserved' = reserved - Memory[j]
  /\ UNCHANGED <<wpc, told, pending, bypassed, passes, procs, input, output>>

(* A job whose output was read to its end is waited for.                   *)
Reaps(j) ==
  /\ wpc = "reap"
  /\ j \in running \cap eof \cap exited
  /\ running' = running \ {j}
  /\ done' = done \cup {j}
  /\ reserved' = reserved - Memory[j]
  /\ UNCHANGED <<wpc, told, pending, bypassed, passes, procs, input, output>>

ReapDone ==
  /\ wpc = "reap"
  /\ running \cap eof = {}
  /\ wpc' = "top"
  /\ UNCHANGED <<told, queue, procs, input, output>>

(* stop_all: TERM, KILL, and every process is waited for. *)
StopJobs ==
  /\ wpc = "stop"
  /\ exited' = exited \cup running
  /\ wpc' = "replay"
  /\ UNCHANGED <<told, queue, closed, sent, input, output>>

(* What the jobs wrote is kept, in job order. *)
Replay ==
  /\ wpc = "replay"
  /\ written' = written \o FlattenSeq([j \in Job |-> spool[j]])
  /\ spool' = [j \in Job |-> <<>>]
  /\ wpc' = "interrupted"
  /\ UNCHANGED <<told, queue, procs, input, head>>

JobEnds == \E j \in Job : Closes(j) \/ Exits(j)

ParRuns ==
  \/ Top \/ NoneFits \/ Advance \/ ReadDone \/ ReapDone \/ StopJobs \/ Replay
  \/ \E j \in Job : StartJob(j) \/ StartFails(j) \/ Read(j) \/ ReadEnd(j) \/ Reaps(j)

ParNext == ParRuns \/ JobEnds \/ (\E j \in Job : Writes(j)) \/ Tell

(* The loop runs, and every job closes its output and ends (the guard      *)
(* around the run has a timeout).                                          *)
ParSpec == ParInit /\ [][ParNext]_par /\ WF_par(ParRuns) /\ WF_par(JobEnds)

-----------------------------------------------------------------------------
(* Properties.                                                             *)

(* What was written, with what is buffered after it, is what was read of   *)
(* the jobs in job order: nothing is lost, doubled or out of order.        *)
OutputInJobOrder ==
  written \o FlattenSeq([j \in Job |-> spool[j]])
    = FlattenSeq([j \in Job |-> [n \in 1..sent[j] - Len(pipe[j]) |-> <<j, n>>]])

(* A run that ends by itself has written everything. *)
OutputComplete ==
  wpc = "ended" => written = FlattenSeq([j \in Job |-> [n \in 1..sent[j] |-> <<j, n>>]])

(* The requests of the jobs of S, counted unit by unit. *)
Requested(S) == UNION {{j} \X (1..Memory[j]) : j \in S}

(* The requests of the jobs that run fit in the budget, unless one runs    *)
(* alone, and no job is passed as the first one more often than allowed.   *)
AdmittedWithin ==
  /\ Cardinality(running) <= Workers
  /\ Cardinality(running) > 1 => Cardinality(Requested(running)) <= Budget
  /\ \A j \in Job : passes[j] <= Workers

(* Nothing runs on when the run ends, by itself or by a signal. *)
NothingRuns == wpc \in {"ended", "interrupted"} => running \subseteq exited

ParKept == OutputInJobOrder /\ OutputComplete /\ AdmittedWithin /\ NothingRuns

=============================================================================
