-------------------------------- MODULE MCIo ---------------------------------
(***************************************************************************)
(* What std.Io adds to the scheduler, checked one part at a time: groups   *)
(* and futexes, futures, timed waits.  They share no state here: the       *)
(* translator keeps the requests of futures and groups apart, and the      *)
(* timed scheduler has a memory of its own.                                *)
(***************************************************************************)
EXTENDS MCTasks, Futures, TimedWait

CONSTANTS A, B, C

VARIABLE part

io == <<part, vars, futures, timed>>

PartAt(p, l) == IF part = p THEN l ELSE "off"

(* The other threads sleep at the word, in any order. *)
Queues ==
  {q \in [1 .. Cardinality(Sleepers) -> Sleepers] :
     /\ \A u \in Sleepers : \E i \in DOMAIN q : q[i] = u
     /\ \A i, j \in DOMAIN q : q[i] = q[j] => i = j}

(* A part that does not run starts in one fixed state. *)
IoInit ==
  /\ part \in {"tasks", "futures", "timed"}
  /\ Init
  /\ FuturesAt(PartAt("futures", "running"))
  /\ \E q \in Queues : TimedAt(PartAt("timed", "within"), q)
  /\ part # "tasks" => program = CHOOSE p \in Programs : TRUE
  /\ part # "futures" => canceling
  /\ part # "timed" => paused /\ budget = 0 /\ waiters = CHOOSE q \in Queues : TRUE

IoNext ==
  \/ part = "tasks" /\ UNCHANGED <<part, futures, timed>> /\ Next
  \/ part = "futures" /\ UNCHANGED <<part, vars, timed>> /\ FuturesNext
  \/ part = "timed" /\ UNCHANGED <<part, vars, futures>> /\ TimedNext

IoSpec == IoInit /\ [][IoNext]_io

(* The state of every part is well typed. *)
IoOK == TypeOK /\ FuturesOK /\ TimedOK
=============================================================================
