------------------------------ MODULE TimedWait -------------------------------
(***************************************************************************)
(* A caller with a budget of time: the loops of                            *)
(* src/ZigLean/Conc/TimedBudget.lean on the timed waits of                 *)
(* src/ZigLean/Conc/TimedSched.lean.                                       *)
(*                                                                         *)
(* The clock only moves where it is observed, and then by any amount.      *)
(* Observations, wakes of the environment at the moment of one, expiry and *)
(* spurious returns compete through an oracle that is not fair, and the    *)
(* run may stop anywhere.  The solver is its answer: solved or not yet.    *)
(***************************************************************************)
EXTENDS Integers, Sequences, FiniteSets

CONSTANTS
  Caller,      \* the thread that waits
  Sleepers,    \* other threads that sleep at the word
  Limit,       \* one above the largest timestamp
  Budgets,     \* the budgets of a run
  MaxTries     \* the iterations of a run

ASSUME TimedAssumption ==
  /\ Caller \notin Sleepers
  /\ IsFiniteSet(Sleepers)
  /\ Limit \in Nat \ {0}
  /\ Budgets \subseteq Nat
  /\ MaxTries \in Nat

VARIABLES
  tpc,           \* where the caller is
  paused,        \* it runs pausedLoop, not loop
  budget,
  start, observed,   \* the first and the last observation
  deadline,
  tries,         \* iterations to come
  waiters,         \* m.waiters at the word, in order
  marked,        \* m.woken
  registration,  \* Kernel.registration
  woke,        \* the last ReturnReason
  stepped,       \* the observation before the last step of the solver
  decision

kernel == <<waiters, marked, registration>>
timed  == <<tpc, paused, budget, start, observed, deadline, tries, kernel, woke, stepped, decision>>

Timestamp == 0 .. Limit - 1

TimedOK ==
  /\ tpc \in {"off", "within", "top", "wait", "waiting", "done"}
  /\ {paused, registration} \subseteq BOOLEAN
  /\ budget \in Budgets
  /\ {start, observed, deadline, stepped} \subseteq Timestamp
  /\ tries \in 0 .. MaxTries
  /\ waiters \in Seq(Sleepers \cup {Caller})
  /\ marked \subseteq Sleepers \cup {Caller}
  /\ woke \in {"none", "mismatch", "wake", "timeout", "spurious"}
  /\ decision \in {"none", "solved", "expired", "capped", "unrepresentable", "illegal"}

TimedAt(l, q) ==
  /\ tpc = l
  /\ paused \in BOOLEAN
  /\ budget \in Budgets
  /\ start = 0 /\ observed = 0 /\ deadline = 0 /\ stepped = 0
  /\ tries = MaxTries
  /\ waiters = q /\ marked = {} /\ registration = FALSE
  /\ woke = "none"
  /\ decision = "none"

-----------------------------------------------------------------------------
(* The kernel.                                                             *)

(* What a wake of n waiters leaves, and whom it marks, in queue order. *)
Unwoken(n) == SubSeq(waiters, n + 1, Len(waiters))
Woken(n)  == {waiters[i] : i \in {j \in 1 .. Len(waiters) : j <= n}}

(* An observation: the clock goes on, and a wake of n may come at the same *)
(* moment.                                                                 *)
Later == observed .. Limit - 1
Wakes == 0 .. Len(waiters)
Observes(t, n) ==
  /\ observed' = t
  /\ waiters' = Unwoken(n)
  /\ marked' = marked \cup Woken(n)

Refused == registration \/ Caller \in marked \/ \E i \in 1 .. Len(waiters) : waiters[i] = Caller

Enabled(r) ==
  CASE r = "spurious" -> registration
    [] r = "wake"     -> registration /\ Caller \in marked
    [] r = "timeout"  -> registration /\ deadline <= observed

(* The queue without the caller, who is in it at most once. *)
Unqueued ==
  IF \A i \in 1 .. Len(waiters) : waiters[i] # Caller THEN waiters
  ELSE LET i == CHOOSE i \in 1 .. Len(waiters) : waiters[i] = Caller
       IN  SubSeq(waiters, 1, i - 1) \o SubSeq(waiters, i + 1, Len(waiters))

(* Mutant: the mark of a wake that came with the expiry stays. *)
ReleaseQueued ==
  /\ waiters' = Unqueued
  /\ registration' = FALSE
  /\ UNCHANGED marked

(* A return removes the registration and all marks of its owner. *)
KernelReleases ==
  /\ waiters' = Unqueued
  /\ marked' = marked \ {Caller}
  /\ registration' = FALSE

-----------------------------------------------------------------------------
(* The program.                                                            *)

Decides(v) == tpc' = "done" /\ decision' = v

(* The budget starts; a deadline that no timestamp can hold is an outcome. *)
Within ==
  /\ tpc = "within"
  /\ \E t \in Later, n \in Wakes :
       /\ Observes(t, n)
       /\ start' = t
       /\ IF t + budget < Limit
            THEN deadline' = t + budget /\ tpc' = "top" /\ UNCHANGED decision
            ELSE Decides("unrepresentable") /\ UNCHANGED deadline
  /\ UNCHANGED <<paused, budget, tries, registration, woke, stepped>>

Capped ==
  /\ tpc = "top"
  /\ tries = 0
  /\ Decides("capped")
  /\ UNCHANGED <<paused, budget, start, observed, deadline, tries, kernel, woke, stepped>>

(* A step of the solver after the observation t. *)
Advances(t) ==
  /\ stepped' = t
  /\ \/ Decides("solved") /\ UNCHANGED tries
     \/ /\ tries' = tries - 1
        /\ tpc' = (IF paused THEN "wait" ELSE "top")
        /\ UNCHANGED decision

(* Mutant: an answer is taken although the deadline was observed. *)
IterateLate ==
  /\ tpc = "top"
  /\ tries > 0
  /\ \E t \in Later, n \in Wakes :
       /\ Observes(t, n)
       /\ \/ deadline <= t /\ Decides("expired") /\ UNCHANGED <<tries, stepped>>
          \/ Advances(t)
  /\ UNCHANGED <<paused, budget, start, deadline, registration, woke>>

(* The clock is checked before every step of the solver. *)
Iterate ==
  /\ tpc = "top"
  /\ tries > 0
  /\ \E t \in Later, n \in Wakes :
       /\ Observes(t, n)
       /\ \/ deadline <= t /\ Decides("expired") /\ UNCHANGED <<tries, stepped>>
          \/ t < deadline /\ Advances(t)
  /\ UNCHANGED <<paused, budget, start, deadline, registration, woke>>

(* The wait begins: it returns at once if the value read, perhaps an older *)
(* one, differs or the deadline was seen, or it sleeps.                    *)
Begins(t, n) ==
  \/ /\ Observes(t, n)
     /\ woke' = "mismatch" \/ (deadline <= t /\ woke' = "timeout")
     /\ tpc' = "top"
     /\ UNCHANGED registration
  \/ /\ t < deadline
     /\ observed' = t
     /\ waiters' = Append(Unwoken(n), Caller)
     /\ marked' = marked \cup Woken(n)
     /\ registration' = TRUE
     /\ tpc' = "waiting"
     /\ UNCHANGED woke

(* An unsolved step pauses; a caller that still has a registration, a      *)
(* place in the queue or a mark is refused.                               *)
Pause ==
  /\ tpc = "wait"
  /\ \E t \in Later, n \in Wakes :
       IF Refused
         THEN Observes(t, n) /\ Decides("illegal") /\ UNCHANGED <<registration, woke>>
         ELSE Begins(t, n) /\ UNCHANGED decision
  /\ UNCHANGED <<paused, budget, start, deadline, tries, stepped>>

(* The caller sleeps, and the clock is observed. *)
Sleeps ==
  /\ tpc = "waiting"
  /\ \E t \in Later, n \in Wakes : Observes(t, n)
  /\ UNCHANGED <<tpc, paused, budget, start, deadline, tries, registration, woke, stepped, decision>>

(* One of the returns that are enabled; the loop goes on whatever it was. *)
WaitEnds ==
  /\ tpc = "waiting"
  /\ \E r \in {"spurious", "wake", "timeout"} : Enabled(r) /\ woke' = r
  /\ KernelReleases
  /\ tpc' = "top"
  /\ UNCHANGED <<paused, budget, start, observed, deadline, tries, stepped, decision>>

TimedNext == Within \/ Capped \/ Iterate \/ Pause \/ Sleeps \/ WaitEnds

-----------------------------------------------------------------------------
(* Properties.                                                             *)

(* A wait that returned for one reason leaves nothing of the others behind: *)
(* the next wait of the caller is not refused.                             *)
NoStaleWake ==
  /\ decision # "illegal"
  /\ ~registration => ~Refused
  /\ registration <=> tpc = "waiting"

(* Whatever the caller does, another sleeper is asleep, once, or marked. *)
OthersFramed ==
  /\ \A u \in Sleepers : u \in marked <=> ~ \E i \in 1 .. Len(waiters) : waiters[i] = u
  /\ \A i, j \in 1 .. Len(waiters) : waiters[i] = waiters[j] => i = j

(* The decision fits the clock: no step of the solver once the deadline was*)
(* observed, no expiry before it, no deadline but the one of the budget; a *)
(* loop that does not wait gives up only before its deadline.              *)
VerdictFits ==
  /\ tpc \in {"top", "wait", "waiting"} \/ decision \in {"solved", "expired", "capped"} =>
       deadline = start + budget
  /\ decision = "expired" => deadline <= observed
  /\ decision = "solved" => observed < deadline
  /\ tries < MaxTries => stepped < deadline
  /\ woke = "timeout" => deadline <= observed
  /\ decision = "unrepresentable" => start + budget >= Limit
  /\ decision = "capped" /\ ~paused /\ MaxTries > 0 => observed < deadline

TimedKept == NoStaleWake /\ OthersFramed /\ VerdictFits
=============================================================================
