------------------------------ MODULE LocalCall -------------------------------
(***************************************************************************)
(* The commands of a local CI run (scripts/local-ci-steps.py, stop and      *)
(* call): each in a session of its own, with signals taken by a handler    *)
(* that the flags LAUNCHING and CANCELLING and PENDING_SIGNAL steer.       *)
(*                                                                         *)
(* The handler runs between any two steps.  Between the raise of an        *)
(* exception in the call and CANCELLING = True the interpreter runs no     *)
(* handler (it looks for signals at calls and at the end of loops), so the *)
(* two are one step.  stop_tree is one step too: GuardedRun has its parts. *)
(***************************************************************************)
EXTENDS Integers

CONSTANT Commands   \* bound on the commands of a run

ASSUME CommandsAssumption == Commands \in Nat

VARIABLES
  cpc,         \* where the run is
  left,        \* commands to come
  launching,   \* LAUNCHING
  cancelling,  \* CANCELLING
  deferred,    \* PENDING_SIGNAL is set
  why,         \* the exception the call ends with: "none", "signal", "timeout", "unconfirmed"
  child,       \* the child: "none", "runs", "zombie" or "reaped"
  others,      \* descendants of the child live
  heard,    \* a signal was received and not dropped (history)
  taken        \* a command returned a status since then (history)

flags == <<launching, cancelling, deferred>>
group_ == <<child, others>>
call  == <<cpc, left, flags, why, group_, heard, taken>>

CallOK ==
  /\ cpc \in {"off", "idle", "popen", "launched", "poll", "peeked", "wait", "stopping", "unwind", "after",
              "ended"}
  /\ left \in 0..Commands
  /\ {launching, cancelling, deferred, others, heard, taken} \subseteq BOOLEAN
  /\ why \in {"none", "signal", "timeout", "unconfirmed"}
  /\ child \in {"none", "runs", "zombie", "reaped"}
  /\ cancelling <=> cpc \in {"stopping", "unwind"}

CallAt(l) ==
  /\ cpc = l
  /\ left = Commands
  /\ launching = FALSE /\ cancelling = FALSE /\ deferred = FALSE
  /\ why = "none"
  /\ child = "none" /\ others = FALSE
  /\ heard = FALSE /\ taken = FALSE

CallInit == CallAt("idle")

-----------------------------------------------------------------------------
(* The call.                                                               *)

Calls ==
  /\ cpc = "idle"
  /\ left > 0
  /\ left' = left - 1
  /\ launching' = TRUE
  /\ child' = "none" /\ others' = FALSE
  /\ cpc' = "popen"
  /\ UNCHANGED <<cancelling, deferred, why, heard, taken>>

(* The last step of the run is over. *)
RunEnds ==
  /\ cpc = "idle"
  /\ cpc' = "ended"
  /\ UNCHANGED <<left, flags, why, group_, heard, taken>>

(* Popen raises: the step fails, and the run may go on. *)
PopenFails ==
  /\ cpc = "popen"
  /\ launching' = FALSE
  /\ cpc' = "idle"
  /\ UNCHANGED <<left, cancelling, deferred, why, group_, heard, taken>>

Started ==
  /\ cpc = "popen"
  /\ child' = "runs"
  /\ launching' = FALSE
  /\ cpc' = "launched"
  /\ UNCHANGED <<left, cancelling, deferred, why, others, heard, taken>>

(* Cancelled or TimeoutExpired in the try. *)
Raises(x) ==
  /\ why' = x
  /\ cancelling' = TRUE
  /\ deferred' = FALSE
  /\ cpc' = "stopping"

Launched ==
  /\ cpc = "launched"
  /\ \/ deferred /\ Raises("signal")
     \/ ~deferred /\ cpc' = "poll" /\ UNCHANGED <<cancelling, deferred, why>>
  /\ UNCHANGED <<left, launching, group_, heard, taken>>

Polls ==
  /\ cpc = "poll"
  /\ \/ child = "zombie" /\ cpc' = "peeked" /\ UNCHANGED <<cancelling, deferred, why>>
     \/ child = "runs" /\ Raises("timeout")
  /\ UNCHANGED <<left, launching, group_, heard, taken>>

(* Mutant: signals are not deferred while the leader is reaped. *)
ReapsUndeferred ==
  /\ cpc = "peeked"
  /\ cpc' = "wait"
  /\ UNCHANGED <<left, launching, cancelling, deferred, why, group_, heard, taken>>

(* LAUNCHING = True defers signals. *)
Defers ==
  /\ cpc = "peeked"
  /\ launching' = TRUE
  /\ cpc' = "wait"
  /\ UNCHANGED <<left, cancelling, deferred, why, group_, heard, taken>>

(* child.wait() reaps, in the try still. *)
Reaped ==
  /\ cpc = "wait"
  /\ child = "zombie"
  /\ child' = "reaped"
  /\ UNCHANGED <<cpc, left, flags, why, others, heard, taken>>

(* finally. *)
Leaves ==
  /\ cpc = "wait"
  /\ child = "reaped"
  /\ launching' = FALSE
  /\ cpc' = "after"
  /\ UNCHANGED <<left, cancelling, deferred, why, group_, heard, taken>>

(* Mutant: a signal that was deferred is not looked at. *)
ReturnsAlways ==
  /\ cpc = "after"
  /\ cpc' = "idle" /\ taken' = heard
  /\ UNCHANGED <<left, flags, why, group_, heard>>

(* A deferred signal is raised, or the status is returned (a step that     *)
(* fails need not end the run).                                            *)
Returns ==
  /\ cpc = "after"
  /\ IF deferred
       THEN deferred' = FALSE /\ why' = "signal" /\ cpc' = "ended" /\ UNCHANGED taken
       ELSE cpc' = "idle" /\ taken' = heard /\ UNCHANGED <<deferred, why>>
  /\ UNCHANGED <<left, launching, cancelling, group_, heard>>

(* stop_group: stop_tree, which ends all it finds or says that it could    *)
(* not confirm; then the child is reaped.                                  *)
GroupStops ==
  /\ cpc = "stopping"
  /\ \/ child' = "reaped" /\ others' = FALSE /\ UNCHANGED why
     \/ why' = "unconfirmed" /\ UNCHANGED group_
  /\ cpc' = "unwind"
  /\ UNCHANGED <<left, flags, heard, taken>>

(* finally; the exceptions of a call end the run. *)
Unwinds ==
  /\ cpc = "unwind"
  /\ launching' = FALSE
  /\ cancelling' = FALSE
  /\ cpc' = "ended"
  /\ UNCHANGED <<left, deferred, why, group_, heard, taken>>

-----------------------------------------------------------------------------
(* Around it.                                                              *)

(* Mutant: a signal during the launch is raised. *)
HandlerRaises ==
  /\ cpc \notin {"off", "ended"}
  /\ ~cancelling
  /\ heard' = TRUE
  /\ IF cpc \in {"launched", "poll", "peeked", "wait"}
       THEN Raises("signal") /\ UNCHANGED launching
       ELSE cpc' = "ended" /\ why' = "signal" /\ UNCHANGED flags
  /\ UNCHANGED <<left, group_, taken>>

(* The handler: nothing while a call is being cancelled; kept while a      *)
(* child is launched or reaped; raised otherwise.                          *)
Handler ==
  /\ cpc \notin {"off", "ended"}
  /\ ~cancelling
  /\ heard' = TRUE
  /\ IF launching THEN deferred' = TRUE /\ UNCHANGED <<cpc, launching, cancelling, why>>
     ELSE IF cpc \in {"launched", "poll", "peeked", "wait"}
       THEN Raises("signal") /\ UNCHANGED launching
       ELSE cpc' = "ended" /\ why' = "signal" /\ UNCHANGED flags
  /\ UNCHANGED <<left, group_, taken>>

Spawns ==
  /\ child = "runs" /\ ~others
  /\ others' = TRUE
  /\ UNCHANGED <<cpc, left, flags, why, child, heard, taken>>

ChildEnds ==
  /\ child = "runs"
  /\ child' = "zombie"
  /\ UNCHANGED <<cpc, left, flags, why, others, heard, taken>>

OthersEnd ==
  /\ others
  /\ others' = FALSE
  /\ UNCHANGED <<cpc, left, flags, why, child, heard, taken>>

CallRuns ==
  \/ Calls \/ RunEnds \/ PopenFails \/ Started \/ Launched \/ Polls \/ Defers \/ Reaped \/ Leaves
  \/ Returns \/ GroupStops \/ Unwinds

CallNext == CallRuns \/ Handler \/ Spawns \/ ChildEnds \/ OthersEnd

CallSpec == CallInit /\ [][CallNext]_call /\ WF_call(CallRuns)

-----------------------------------------------------------------------------
(* Properties.                                                             *)

(* The group is only signalled while its leader is not reaped: its         *)
(* process ID cannot be that of another process.                           *)
GroupIsOurs == cpc = "stopping" => child \in {"runs", "zombie"}

(* A run that ends by a signal or a timeout has reaped the child it        *)
(* started, or says that it could not confirm its end.                     *)
CancelLeavesNothing ==
  cpc = "ended" /\ why \in {"signal", "timeout"} /\ child # "none" => child = "reaped"

(* A signal is never lost to the windows of a launch or a reap: no command *)
(* returns a status after it, and what is kept is only kept over a launch  *)
(* that failed.                                                            *)
SignalKept == ~taken /\ (cpc = "idle" /\ heard => deferred)

CallKept == GroupIsOurs /\ CancelLeavesNothing /\ SignalKept

=============================================================================
