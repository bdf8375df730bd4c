------------------------------ MODULE Admission ------------------------------
(***************************************************************************)
(* Admission of guarded workloads (scripts/build-guard.py, class           *)
(* Admission).  Every guard is a process that takes flocks and publishes   *)
(* entries in the registries of one lock directory before its workload     *)
(* runs.  A registry is a sequence of guards, oldest entry first; the      *)
(* entries of a dead guard are not flock-held, so nobody reads them, and   *)
(* they leave the sequence with their guard.                               *)
(***************************************************************************)
EXTENDS Integers, FiniteSets, Sequences, SequencesExt, FiniteSetsExt

CONSTANTS
  Guard,        \* the guards, each running one command
  NoGuard,      \* nobody
  NoEntry,      \* no reservation published
  Capacity,     \* the slots of the budget
  Process,      \* the slots of PROCESS_MIB
  Nobody,       \* the request of a guard that does not come
  Scenario      \* what the guards of one behaviour ask for

Lanes == {"normal", "merge", "exclusive", "background"}

\* What a command asks for: its lane; the slots of its --rss-mib; those of its
\* measured need, when its history allows; its workspace, which a
\* --shared-workspace guard shares; whether it is --elastic; the elastic guard a
\* sub-admission belongs to, whose workspace it works in as that one does; and
\* whether the command comes again.
Request ==
  [lane : Lanes, declared : 1..Capacity, charge : 1..Capacity, ws : STRING, shared : BOOLEAN,
   elastic : BOOLEAN, base : Guard \cup {NoGuard}, again : BOOLEAN]

ASSUME GuardAssumption ==
  /\ NoGuard \notin Guard /\ IsFiniteSet(Guard)
  /\ Capacity \in Nat /\ Process \in 1..Capacity
  /\ Nobody \in Request
  /\ \A c \in Scenario :
       /\ c \in [Guard -> Request]
       /\ \A g \in Guard :
            /\ c[g].charge <= c[g].declared
            /\ c[g].lane = "exclusive" => c[g].charge = Capacity
            /\ c[g].elastic => c[g].charge = c[g].declared /\ c[g].declared <= Capacity - Process
            /\ c[g].base # NoGuard =>
                 /\ c[c[g].base].elastic /\ c[g].declared <= Process
                 /\ ~c[g].elastic /\ c[g].lane # "exclusive"
                 /\ c[g].ws = c[c[g].base].ws /\ c[g].shared = c[c[g].base].shared

VARIABLES
  cast,      \* what each guard of this behaviour asks for
  pc,        \* where each guard is in acquire, or in the run of its workload
  lane,      \* its lane now: a sub-admission with its lifeline is in "leaf"
  weight,    \* the slots it asks for
  held,      \* the slots it has locked
  ws,        \* the guards that hold their workspace lock
  main,      \* the guards that hold the lock itself (an exclusive one: exclusively)
  queue,     \* the guard that holds the queue
  register,  \* the guard that holds the register lock
  fits,      \* whether its bound held when it was read under the register lock
  view,      \* the head's reservation a backfill attempt has read
  ramp,      \* the slots a head may keep by now
  heads,     \* the reservation of the waiting head
  tickets,   \* merge and exclusive tickets
  lifelines, \* lifeline tickets
  ahead,     \* for a lifeline ticket: the guards that began to wait before it
  waiting,   \* the guards with a waiting entry
  line,      \* the entries of normal guards in the queue loop
  fresh,     \* those refreshed lately
  running,   \* the overcommitted workloads
  elastic,   \* the elastic workloads
  leaves,    \* the sub-admissions that run
  lifeline,  \* the sub-admissions that hold their workload's lifeline lock
  holdoff,   \* a workload was preempted within the hold-off
  past,      \* history: the guards beyond their last look at the tickets when a ticket was queued
  owed       \* history: the reservation of the head a guard looked at to run ahead, while that one is the head

locks == <<held, ws, main, queue, register>>
entries == <<heads, tickets, lifelines, ahead, waiting, line, fresh, running, elastic, leaves, lifeline, past>>
local == <<lane, weight, fits, view, ramp>>
guards == <<cast, pc, locks, entries, local, holdoff>>
vars == <<guards, owed>>

Lane(g) == cast[g].lane
Declared(g) == cast[g].declared
Charge(g) == cast[g].charge
PartOf(g) == cast[g].base
Parts == {g \in Guard : PartOf(g) # NoGuard}
Elastic == {g \in Guard : cast[g].elastic}
SameWs(g, h) == cast[g].ws = cast[h].ws
ShareWs(g, h) == cast[g].shared /\ cast[h].shared

Waits == {"start", "room", "ws", "queue", "backfill", "scanned", "main", "turn", "scan", "register",
          "giveback", "bg", "bgTake", "bgTaken"}
Admitted == {"granted", "run", "stopping"}
Places == Waits \cup Admitted \cup {"out", "done"}

\* How many slots the guards of S have in f: each guard numbers its own.
Slots(f, S) == UNION {{g} \X (1..f[g]) : g \in S}
Sum(f, S) == Cardinality(Slots(f, S))
Free == Capacity - Sum(held, Guard)

\* A guard has one entry of a kind.
Without(s, g) == RemoveFirst(s, g)

------------------------------------------------------------------------------
(* What a guard reads in the registries. *)

HasTicket(g) == g \in ToSet(tickets) \cup ToSet(lifelines)

\* Mutant: the lifelines wait behind every drain ticket.
QueuedLast == tickets \o lifelines

\* The order of admission: the lifelines go ahead of the first exclusive ticket.
Queued ==
  LET x == SelectInSeq(tickets, LAMBDA g : Lane(g) = "exclusive")
      n == IF x = 0 THEN Len(tickets) ELSE x - 1
  IN SubSeq(tickets, 1, n) \o lifelines \o SubSeq(tickets, n + 1, Len(tickets))

Bases == Sum(weight, elastic)
\* Mutant: the largest part is forgotten.
ElasticRoomAll == Capacity - Bases
ElasticRoom == Capacity - Process - Bases

\* Mutant: a normal guard that waited before every lifeline passes the drain tickets too.
MyTurnPast(g) ==
  \/ QueuedLast = <<>>
  \/ HasTicket(g) /\ Head(QueuedLast) = g
  \/ /\ ~HasTicket(g) /\ g \in waiting
     /\ \A l \in ToSet(lifelines) : g \in ahead[l]
     /\ weight[g] + Bases <= Capacity

\* Whether a guard may hold the queue now.
MyTurn(g) ==
  \/ Queued = <<>>
  \/ HasTicket(g) /\ Head(Queued) = g
  \/ /\ ~HasTicket(g) /\ tickets = <<>> /\ g \in waiting
     /\ \A l \in ToSet(lifelines) : g \in ahead[l]
     /\ weight[g] + Bases <= Capacity

\* No normal guard that entered the queue loop earlier is still in its turn.
FirstInLine(g) ==
  LET i == SelectInSeq(line, LAMBDA h : h = g)
  IN i # 0 /\ \A j \in 1..(i - 1) : line[j] \notin fresh

\* Mutant: whoever of the normal guards comes first.
TakesQueueAny(g) == MyTurn(g)

\* A guard takes the queue in its turn, a normal one also first in line.
TakesQueue(g) == MyTurn(g) /\ (HasTicket(g) \/ FirstInLine(g))

\* Whether the declared limits of the running workloads stay within 1.5 x the budget.
Excess == Sum([g \in Guard |-> Declared(g) - weight[g]], ToSet(running))
\* Mutant: the guard's own excess is left out.
WithinBoundOthers(g) == 2 * Excess <= Capacity
WithinBound(g) == 2 * (Excess + Declared(g) - weight[g]) <= Capacity

Overcommits(g) == weight[g] < Declared(g) /\ g \notin Parts /\ g \notin Elastic

\* The bound a guard has to meet to be admitted.
Fits(g) ==
  /\ g \in Elastic => weight[g] <= ElasticRoom
  /\ Overcommits(g) => WithinBound(g)

\* Mutant: an exclusive guard takes the lock as the others do.
MainFreeShared(g) == \A h \in main : Lane(h) # "exclusive"
MainFree(g) == IF Lane(g) = "exclusive" THEN main = {} ELSE \A h \in main : Lane(h) # "exclusive"
WsFree(g) == \A h \in ws : SameWs(g, h) => ShareWs(g, h)
HeadUnmet == Sum([h \in Guard |-> IF heads[h] = NoEntry THEN 0 ELSE heads[h].unmet], Guard)
HeadNeed == IF \A h \in Guard : heads[h] = NoEntry THEN 0
            ELSE Max({heads[h].need : h \in {k \in Guard : heads[k] # NoEntry}})

------------------------------------------------------------------------------
(* Small steps shared by the actions. *)

Goto(g, place) == pc' = [pc EXCEPT ![g] = place]

\* The end of an admission, by release or by the death of the guard: every lock
\* and every entry goes.
Leave(g) ==
  /\ held' = [held EXCEPT ![g] = 0]
  /\ ws' = ws \ {g} /\ main' = main \ {g}
  /\ queue' = IF queue = g THEN NoGuard ELSE queue
  /\ register' = IF register = g THEN NoGuard ELSE register
  /\ heads' = [heads EXCEPT ![g] = NoEntry]
  /\ tickets' = Without(tickets, g) /\ lifelines' = Without(lifelines, g)
  /\ ahead' = [l \in Guard |-> IF l = g THEN {} ELSE ahead[l] \ {g}]
  /\ waiting' = waiting \ {g}
  /\ line' = Without(line, g) /\ fresh' = fresh \ {g}
  /\ running' = Without(running, g)
  /\ elastic' = elastic \ {g} /\ leaves' = leaves \ {g} /\ lifeline' = lifeline \ {g}
  /\ past' = [past EXCEPT ![g] = {}]
  /\ fits' = [fits EXCEPT ![g] = FALSE]
  /\ view' = [view EXCEPT ![g] = NoEntry]
  /\ ramp' = [ramp EXCEPT ![g] = 0]
  /\ lane' = [lane EXCEPT ![g] = Lane(g)]

\* A background guard polls for everything at once, any other takes its workspace
\* first; that of a part is held by the elastic guard it belongs to.
Entrance(g) == IF Lane(g) = "background" THEN "bg" ELSE IF g \in Parts THEN "room" ELSE "ws"

\* Guards that no longer look at the tickets before they are admitted.
Beyond == {g \in Guard : pc[g] \in {"scan", "register", "backfill", "scanned", "bgTake", "bgTaken"}}

------------------------------------------------------------------------------
Init ==
  /\ cast \in Scenario
  /\ pc = [g \in Guard |-> IF cast[g] = Nobody THEN "done" ELSE "out"]
  /\ lane = [g \in Guard |-> Lane(g)] /\ weight = [g \in Guard |-> Charge(g)]
  /\ held = [g \in Guard |-> 0]
  /\ ws = {} /\ main = {} /\ queue = NoGuard /\ register = NoGuard
  /\ fits = [g \in Guard |-> FALSE]
  /\ view = [g \in Guard |-> NoEntry] /\ ramp = [g \in Guard |-> 0]
  /\ heads = [g \in Guard |-> NoEntry]
  /\ tickets = <<>> /\ lifelines = <<>> /\ ahead = [g \in Guard |-> {}]
  /\ waiting = {} /\ line = <<>> /\ fresh = {}
  /\ running = <<>> /\ elastic = {} /\ leaves = {} /\ lifeline = {}
  /\ holdoff = FALSE /\ past = [g \in Guard |-> {}]
  /\ owed = [g \in Guard |-> 0]

\* A command is given to its guard, which plans its charge: measured or declared.
\* A part starts while its elastic workload runs.
Start(g) ==
  /\ pc[g] = "out"
  /\ g \in Parts => pc[PartOf(g)] = "run"
  /\ \E w \in {Charge(g)} \cup IF g \in Parts THEN {} ELSE {Declared(g)} :
       weight' = [weight EXCEPT ![g] = w]
  /\ Goto(g, "start")
  /\ UNCHANGED <<cast, locks, entries, lane, fits, view, ramp, holdoff>>

TakeWs(g) ==
  /\ pc[g] = "ws" /\ WsFree(g)
  /\ ws' = ws \cup {g}
  /\ Goto(g, "room")
  /\ UNCHANGED <<cast, held, main, queue, register, entries, local, holdoff>>

\* A poll that failed publishes that the guard waits.
Wait(g) ==
  /\ lane[g] # "background" /\ g \notin waiting
  /\ \/ pc[g] = "ws" /\ ~WsFree(g)
     \/ pc[g] = "queue" /\ ~(queue = NoGuard /\ TakesQueue(g))
     \/ pc[g] = "main" /\ ~MainFree(g)
     \/ pc[g] = "register" /\ register # NoGuard
  /\ waiting' = waiting \cup {g}
  /\ UNCHANGED <<cast, pc, locks, heads, tickets, lifelines, ahead, line, fresh, running, elastic,
                 leaves, lifeline, past, local, holdoff>>

\* An elastic guard without room waits outside the queue, unannounced.
NoRoom(g) ==
  /\ pc[g] = "room" /\ g \in Elastic /\ weight[g] > ElasticRoom
  /\ g \in waiting \/ HasTicket(g) \/ g \in ToSet(line)
  /\ tickets' = Without(tickets, g)
  /\ past' = [past EXCEPT ![g] = {}]
  /\ waiting' = waiting \ {g} /\ ahead' = [l \in Guard |-> ahead[l] \ {g}]
  /\ line' = Without(line, g) /\ fresh' = fresh \ {g}
  /\ UNCHANGED <<cast, pc, locks, heads, lifelines, running, elastic, leaves, lifeline, local, holdoff>>

\* A guard outside the normal lane queues with a ticket.
Enqueue(g) ==
  /\ pc[g] = "room"
  /\ g \in Elastic => weight[g] <= ElasticRoom
  /\ IF lane[g] \in {"merge", "exclusive"} /\ ~HasTicket(g)
     THEN tickets' = Append(tickets, g) /\ past' = [past EXCEPT ![g] = Beyond]
     ELSE UNCHANGED <<tickets, past>>
  /\ Goto(g, "queue")
  /\ UNCHANGED <<cast, locks, heads, lifelines, ahead, waiting, line, fresh, running, elastic, leaves,
                 lifeline, local, holdoff>>

\* A part none of whose workload's parts runs takes the workload's lifeline: when
\* it starts to acquire, or in a wait.
LifelineFree(g) ==
  g \in Parts /\ lane[g] # "leaf" /\ \A h \in leaves \cup lifeline : PartOf(h) # PartOf(g)

TakeLifeline(g) ==
  /\ pc[g] \in {"start", "queue", "main", "turn", "register", "bg"} /\ LifelineFree(g)
  /\ lifeline' = lifeline \cup {g}
  /\ lane' = [lane EXCEPT ![g] = "leaf"]
  /\ tickets' = Without(tickets, g)
  /\ lifelines' = Append(lifelines, g)
  /\ ahead' = [ahead EXCEPT ![g] = waiting \ {g}]
  /\ past' = [past EXCEPT ![g] = {}]
  /\ pc' = IF pc[g] \in {"start", "bg"} THEN [pc EXCEPT ![g] = "room"] ELSE pc
  /\ UNCHANGED <<cast, locks, heads, waiting, line, fresh, running, elastic, leaves, weight, fits, view,
                 ramp, holdoff>>

StartWithout(g) ==
  /\ pc[g] = "start" /\ ~LifelineFree(g)
  /\ Goto(g, Entrance(g))
  /\ UNCHANGED <<cast, locks, entries, local, holdoff>>

------------------------------------------------------------------------------
(* The queue loop. *)

\* Every round refreshes the entry in line of a normal guard, and drops that of
\* a ticket holder.
InTurn(g) == MyTurn(g) \/ tickets # <<>>

LineUp(g) ==
  /\ pc[g] = "queue"
  /\ IF HasTicket(g)
     THEN /\ g \in ToSet(line)
          /\ line' = Without(line, g) /\ fresh' = fresh \ {g}
     ELSE /\ g \notin ToSet(line) \/ (g \in fresh) # InTurn(g)
          /\ line' = IF g \in ToSet(line) THEN line ELSE Append(line, g)
          /\ fresh' = IF InTurn(g) THEN fresh \cup {g} ELSE fresh \ {g}
  /\ UNCHANGED <<cast, pc, locks, heads, tickets, lifelines, ahead, waiting, running, elastic, leaves,
                 lifeline, past, local, holdoff>>

TakeQueue(g) ==
  /\ pc[g] = "queue" /\ queue = NoGuard
  /\ TakesQueue(g)
  /\ queue' = g
  /\ ramp' = [ramp EXCEPT ![g] = 0]
  /\ Goto(g, IF Lane(g) = "exclusive" THEN "turn" ELSE "main")
  /\ UNCHANGED <<cast, held, ws, main, register, entries, lane, weight, fits, view, holdoff>>

\* A normal guard behind the head reads the reservation it published.
LookToBackfill(g) ==
  /\ pc[g] = "queue" /\ lane[g] = "normal"
  /\ ~(queue = NoGuard /\ TakesQueue(g))
  /\ tickets = <<>>
  /\ HeadNeed > 0 /\ weight[g] + HeadUnmet < HeadNeed
  /\ view' = [view EXCEPT ![g] = [unmet |-> HeadUnmet, need |-> HeadNeed]]
  /\ Goto(g, "backfill")
  /\ UNCHANGED <<cast, locks, entries, lane, weight, fits, ramp, holdoff>>

\* ... and takes the free slots under the register lock, as many as the head lacks.
CanScan(g) == register = NoGuard /\ MainFree(g)

ScanToBackfill(g) ==
  /\ pc[g] = "backfill"
  /\ IF CanScan(g)
     THEN /\ register' = g /\ main' = main \cup {g}
          /\ held' = [held EXCEPT ![g] = Min({Free, view[g].need})]
          /\ fits' = [fits EXCEPT ![g] = Fits(g)]
          /\ Goto(g, "scanned")
          /\ UNCHANGED view
     ELSE /\ view' = [view EXCEPT ![g] = NoEntry]
          /\ Goto(g, "queue")
          /\ UNCHANGED <<register, main, held, fits>>
  /\ UNCHANGED <<cast, ws, queue, entries, lane, weight, ramp, holdoff>>

\* Mutant: an overcommitted workload is not registered.
RegisteredElastic(g) ==
  /\ elastic' = IF g \in Elastic THEN elastic \cup {g} ELSE elastic
  /\ UNCHANGED running

\* Publish the entry of an admitted workload in the registry that bounds it.
Registered(g) ==
  /\ running' = IF Overcommits(g) THEN Append(running, g) ELSE running
  /\ elastic' = IF g \in Elastic THEN elastic \cup {g} ELSE elastic

\* Mutant: it takes what the head still lacks.
SpareAll(g) == weight[g] <= held[g] /\ held[g] < view[g].need

\* The slots that stay besides the head's reservation, when the head lacks more than is free.
Spare(g) ==
  /\ weight[g] + view[g].unmet <= held[g]
  /\ held[g] < view[g].need

Backfill(g) ==
  /\ pc[g] = "scanned"
  /\ register' = NoGuard
  /\ fits' = [fits EXCEPT ![g] = FALSE]
  /\ IF Spare(g) /\ fits[g]
     THEN /\ held' = [held EXCEPT ![g] = weight[g]]
          /\ Registered(g)
          /\ Goto(g, "granted")
          /\ UNCHANGED <<main, weight, view>>
     ELSE /\ held' = [held EXCEPT ![g] = 0]
          /\ main' = main \ {g}
          /\ weight' = IF Spare(g) /\ g \notin Elastic THEN [weight EXCEPT ![g] = Declared(g)] ELSE weight
          /\ view' = [view EXCEPT ![g] = NoEntry]
          /\ Goto(g, "queue")
          /\ UNCHANGED <<running, elastic>>
  /\ UNCHANGED <<cast, ws, queue, heads, tickets, lifelines, ahead, waiting, line, fresh, leaves, lifeline,
                 past, lane, ramp, holdoff>>

------------------------------------------------------------------------------
(* The head of the queue collects. *)

TakeMain(g) ==
  /\ pc[g] = "main" /\ MainFree(g)
  /\ main' = main \cup {g}
  /\ Goto(g, "turn")
  /\ UNCHANGED <<cast, held, ws, queue, register, entries, local, holdoff>>

\* Each round looks at the tickets first.
CheckTurn(g) ==
  /\ pc[g] = "turn"
  /\ Goto(g, IF MyTurn(g) THEN "scan" ELSE "giveback")
  /\ UNCHANGED <<cast, locks, entries, local, holdoff>>

\* The head takes what is free; short of its weight it keeps its reservation,
\* publishes what it lacks and waits.
Scan(g) ==
  LET got == Min({weight[g], held[g] + Free})
      keep == Min({got, ramp[g]})
  IN
  /\ pc[g] = "scan" /\ Lane(g) # "exclusive"
  /\ IF got = weight[g]
     THEN /\ held' = [held EXCEPT ![g] = got]
          /\ Goto(g, "register")
          /\ UNCHANGED <<heads, waiting>>
     ELSE /\ held' = [held EXCEPT ![g] = keep]
          /\ heads' = [heads EXCEPT ![g] = [unmet |-> ramp[g] - keep, need |-> weight[g] - keep]]
          /\ waiting' = waiting \cup {g}
          /\ Goto(g, "turn")
  /\ UNCHANGED <<cast, ws, main, queue, register, tickets, lifelines, ahead, line, fresh, running, elastic,
                 leaves, lifeline, past, local, holdoff>>

\* An exclusive head waits for every running workload: it takes the lock itself.
ScanExclusive(g) ==
  /\ pc[g] = "scan" /\ Lane(g) = "exclusive"
  /\ IF MainFree(g)
     THEN /\ main' = main \cup {g} /\ queue' = NoGuard
          /\ tickets' = Without(tickets, g) /\ past' = [past EXCEPT ![g] = {}]
          /\ Goto(g, "granted")
          /\ UNCHANGED waiting
     ELSE /\ waiting' = waiting \cup {g}
          /\ Goto(g, "turn")
          /\ UNCHANGED <<main, queue, tickets, past>>
  /\ UNCHANGED <<cast, held, ws, register, heads, lifelines, ahead, line, fresh, running, elastic, leaves,
                 lifeline, local, holdoff>>

\* Mutant: the reservation grows past the slots the head asks for.
RampGrowsOn(g) ==
  /\ pc[g] \in {"turn", "scan"} /\ Lane(g) # "exclusive"
  /\ ramp' = [ramp EXCEPT ![g] = @ + 1]
  /\ UNCHANGED <<cast, pc, locks, entries, lane, weight, fits, view, holdoff>>

\* The reservation grows with the time as the head.
RampGrows(g) ==
  /\ pc[g] \in {"turn", "scan"} /\ Lane(g) # "exclusive" /\ ramp[g] < weight[g]
  /\ ramp' = [ramp EXCEPT ![g] = @ + 1]
  /\ UNCHANGED <<cast, pc, locks, entries, lane, weight, fits, view, holdoff>>

\* With all its slots it reads its bound under the register lock ...
TakeRegister(g) ==
  /\ pc[g] = "register" /\ register = NoGuard
  /\ register' = g
  /\ fits' = [fits EXCEPT ![g] = Fits(g)]
  /\ UNCHANGED <<cast, pc, held, ws, main, queue, entries, lane, weight, view, ramp, holdoff>>

\* ... and is admitted, or collects its declared slots; an elastic one gives everything back.
Admit(g) ==
  /\ pc[g] = "register" /\ register = g
  /\ register' = NoGuard
  /\ fits' = [fits EXCEPT ![g] = FALSE]
  /\ IF fits[g]
     THEN /\ Registered(g)
          /\ heads' = [heads EXCEPT ![g] = NoEntry]
          /\ queue' = NoGuard
          /\ tickets' = Without(tickets, g) /\ lifelines' = Without(lifelines, g)
          /\ ahead' = [ahead EXCEPT ![g] = {}] /\ past' = [past EXCEPT ![g] = {}]
          /\ Goto(g, "granted")
          /\ UNCHANGED weight
     ELSE /\ weight' = IF g \in Elastic THEN weight ELSE [weight EXCEPT ![g] = Declared(g)]
          /\ Goto(g, IF g \in Elastic THEN "giveback" ELSE "turn")
          /\ UNCHANGED <<queue, heads, tickets, lifelines, ahead, past, running, elastic>>
  /\ UNCHANGED <<cast, held, ws, main, waiting, line, fresh, leaves, lifeline, lane, view, ramp, holdoff>>

\* Mutant: the queue goes first and the slots stay until it is admitted.
GiveBackQueue(g) ==
  /\ pc[g] = "giveback"
  /\ heads' = [heads EXCEPT ![g] = NoEntry]
  /\ main' = main \ {g} /\ queue' = NoGuard
  /\ Goto(g, "room")
  /\ UNCHANGED <<cast, held, ws, register, tickets, lifelines, ahead, waiting, line, fresh, running, elastic,
                 leaves, lifeline, past, local, holdoff>>

\* Its turn has passed: it gives back what it collected.
GiveBack(g) ==
  /\ pc[g] = "giveback"
  /\ heads' = [heads EXCEPT ![g] = NoEntry]
  /\ main' = main \ {g} /\ queue' = NoGuard
  /\ held' = [held EXCEPT ![g] = 0]
  /\ Goto(g, "room")
  /\ UNCHANGED <<cast, ws, register, tickets, lifelines, ahead, waiting, line, fresh, running, elastic, leaves,
                 lifeline, past, local, holdoff>>

------------------------------------------------------------------------------
(* A background guard takes everything at once while nobody waits. *)

LookInBackground(g) ==
  /\ pc[g] = "bg" /\ MyTurn(g) /\ waiting = {}
  /\ Goto(g, "bgTake")
  /\ UNCHANGED <<cast, locks, entries, local, holdoff>>

TakeInBackground(g) ==
  LET w == g \in Parts \/ WsFree(g)
      q == w /\ queue = NoGuard
      m == q /\ MainFree(g)
  IN
  /\ pc[g] = "bgTake"
  /\ ws' = IF w /\ g \notin Parts THEN ws \cup {g} ELSE ws
  /\ queue' = IF q THEN g ELSE queue
  /\ main' = IF m THEN main \cup {g} ELSE main
  /\ held' = [held EXCEPT ![g] = IF m THEN Min({Free, weight[g]}) ELSE 0]
  /\ LET all == m /\ held'[g] = weight[g] /\ register = NoGuard IN
       /\ register' = IF all THEN g ELSE register
       /\ fits' = [fits EXCEPT ![g] = all /\ Fits(g)]
  /\ Goto(g, "bgTaken")
  /\ UNCHANGED <<cast, entries, lane, weight, view, ramp, holdoff>>

AdmitInBackground(g) ==
  /\ pc[g] = "bgTaken"
  /\ register' = IF register = g THEN NoGuard ELSE register
  /\ queue' = IF queue = g THEN NoGuard ELSE queue
  /\ fits' = [fits EXCEPT ![g] = FALSE]
  /\ IF fits[g]
     THEN /\ Registered(g)
          /\ Goto(g, "granted")
          /\ UNCHANGED <<held, ws, main, weight>>
     ELSE /\ held' = [held EXCEPT ![g] = 0]
          /\ ws' = ws \ {g} /\ main' = main \ {g}
          /\ weight' = IF register = g /\ g \notin Elastic THEN [weight EXCEPT ![g] = Declared(g)] ELSE weight
          /\ Goto(g, "bg")
          /\ UNCHANGED <<running, elastic>>
  /\ UNCHANGED <<cast, heads, tickets, lifelines, ahead, waiting, line, fresh, leaves, lifeline, past, lane,
                 view, ramp, holdoff>>

------------------------------------------------------------------------------
(* The run of the workload. *)

\* The guard waits no longer; a part publishes that it runs before it starts.
Spawn(g) ==
  /\ pc[g] = "granted"
  /\ waiting' = waiting \ {g} /\ ahead' = [l \in Guard |-> ahead[l] \ {g}]
  /\ line' = Without(line, g) /\ fresh' = fresh \ {g}
  /\ leaves' = IF g \in Parts THEN leaves \cup {g} ELSE leaves
  /\ view' = [view EXCEPT ![g] = NoEntry]
  /\ Goto(g, "run")
  /\ UNCHANGED <<cast, locks, heads, tickets, lifelines, running, elastic, lifeline, past, lane, weight, fits,
                 ramp, holdoff>>

\* The backstop stops the youngest overcommitted workload when memory is low,
\* and takes it from the registry at once.
Preempt(g) ==
  /\ pc[g] = "run" /\ running # <<>> /\ Last(running) = g /\ ~holdoff
  /\ running' = Without(running, g)
  /\ holdoff' = TRUE
  /\ Goto(g, "stopping")
  /\ UNCHANGED <<cast, locks, heads, tickets, lifelines, ahead, waiting, line, fresh, elastic, leaves, lifeline,
                 past, local>>

HoldoffEnds ==
  /\ holdoff /\ holdoff' = FALSE
  /\ UNCHANGED <<cast, pc, locks, entries, local>>

\* A part over its charge is stopped.
OverCharge(g) ==
  /\ pc[g] = "run" /\ g \in Parts /\ weight[g] < Declared(g)
  /\ Goto(g, "stopping")
  /\ UNCHANGED <<cast, locks, entries, local, holdoff>>

\* The stopped workload is admitted again at its declared slots.
RunAgain(g) ==
  /\ pc[g] = "stopping"
  /\ Leave(g)
  /\ weight' = [weight EXCEPT ![g] = Declared(g)]
  /\ Goto(g, "start")
  /\ UNCHANGED <<cast, holdoff>>

\* After its end a command comes again or not; the parts of an elastic one with it.
Ended(g) ==
  pc' = [h \in Guard |-> IF h = g THEN IF cast[g].again THEN "out" ELSE "done"
                         ELSE IF PartOf(h) = g /\ cast[g].again THEN "out" ELSE pc[h]]

\* The workload ends, an elastic one after its parts.
Finish(g) ==
  /\ pc[g] = "run"
  /\ \A p \in Guard : PartOf(p) = g => pc[p] = "done"
  /\ Leave(g)
  /\ Ended(g)
  /\ UNCHANGED <<cast, weight, holdoff>>

\* --lock-wait has passed, a signal came, or the guard is killed before its workload runs.
GiveUp(g) ==
  /\ pc[g] \in Waits \cup {"granted"}
  /\ Leave(g)
  /\ Ended(g)
  /\ UNCHANGED <<cast, weight, holdoff>>

Acquire(g) ==
  \/ StartWithout(g) \/ TakeWs(g) \/ Wait(g) \/ NoRoom(g) \/ Enqueue(g) \/ TakeLifeline(g)
  \/ LineUp(g) \/ TakeQueue(g) \/ LookToBackfill(g) \/ ScanToBackfill(g) \/ Backfill(g)
  \/ TakeMain(g) \/ CheckTurn(g) \/ Scan(g) \/ ScanExclusive(g)
  \/ TakeRegister(g) \/ Admit(g) \/ GiveBack(g)
  \/ LookInBackground(g) \/ TakeInBackground(g) \/ AdmitInBackground(g)

GuardsStep ==
  \/ HoldoffEnds
  \/ \E g \in Guard :
       \/ Start(g) \/ Acquire(g) \/ RampGrows(g) \/ GiveUp(g)
       \/ Spawn(g) \/ Preempt(g) \/ OverCharge(g) \/ RunAgain(g) \/ Finish(g)

\* What a head has of its reservation.
Reserved(h) == Min({held[h], ramp[h]})

\* The history: what the head has and what it lacks when a guard looks at it.
Remembers ==
  owed' = [g \in Guard |->
             IF pc[g] = "queue" /\ pc'[g] = "backfill" THEN HeadUnmet + Reserved(queue)
             ELSE IF queue' = queue /\ pc'[g] \in {"backfill", "scanned"} THEN owed[g]
             ELSE 0]

Next == GuardsStep /\ Remembers

\* A guard polls until it is admitted, a workload ends (--timeout), a part of an
\* elastic workload is started, time passes.  The register lock is held for a
\* few file operations and polled 20 times a second: a guard gets it in the end.
Fairness ==
  \A g \in Guard :
    /\ WF_guards(Acquire(g) \/ Spawn(g) \/ RunAgain(g) \/ Finish(g) \/ (g \in Parts /\ Start(g)))
    /\ WF_guards(RampGrows(g)) /\ WF_guards(TakeLifeline(g)) /\ SF_guards(TakeRegister(g))

Spec == Init /\ [][Next]_vars /\ Fairness

------------------------------------------------------------------------------
(* Properties. *)

\* Every variable keeps its type.
TypeOK ==
  /\ cast \in Scenario
  /\ pc \in [Guard -> Places]
  /\ lane \in [Guard -> Lanes \cup {"leaf"}]
  /\ weight \in [Guard -> 1..Capacity]
  /\ held \in [Guard -> 0..Capacity]
  /\ {queue, register} \subseteq Guard \cup {NoGuard}
  /\ fits \in [Guard -> BOOLEAN]
  /\ ramp \in [Guard -> 0..Capacity]
  /\ \A g \in Guard : heads[g] # NoEntry => 0 <= heads[g].unmet /\ heads[g].unmet <= heads[g].need
  /\ UNION {ToSet(s) : s \in {tickets, lifelines, line, running}} \subseteq Guard
  /\ UNION {ws, main, waiting, fresh, elastic, leaves, lifeline} \subseteq Guard
  /\ {ahead, past} \subseteq [Guard -> SUBSET Guard]
  /\ holdoff \in BOOLEAN
  /\ owed \in [Guard -> Nat]

\* The declared limits of the running workloads add up to at most 1.5 x the
\* budget, although each holds the slots of its measured need only: a workload
\* that would break the bound holds its declared slots (within_bound, register).
\* A preempted workload has left the registry before it is gone and is not counted.
DeclaredBound ==
  LET up == {g \in Guard : pc[g] \in {"granted", "run"} /\ Lane(g) # "exclusive"}
  IN 2 * Sum([g \in Guard |-> IF g \in Parts THEN weight[g] ELSE Declared(g)], up) <= 3 * Capacity

\* An admitted workload holds the slots it is charged, together within the
\* budget, and only a registered one (or a part, whose charge is its limit)
\* holds fewer than it declared.
ChargeHeld ==
  /\ Free >= 0
  /\ \A g \in Guard : pc[g] \in {"granted", "run"} /\ Lane(g) # "exclusive" =>
       /\ held[g] = weight[g]
       /\ weight[g] = Declared(g) \/ g \in ToSet(running) \/ g \in Parts

\* Only the guard that holds the queue publishes a reservation or waits with
\* slots in its hands; what the others hold is theirs for a moment or runs.
HeadHoldsQueue ==
  \A g \in Guard :
    /\ heads[g] # NoEntry => queue = g
    /\ pc[g] \in Waits \ {"scanned", "bgTaken"} /\ held[g] > 0 => queue = g

\* The bases of the running elastic workloads leave the slots of the largest part.
PartsHaveRoom ==
  Sum(held, {g \in Elastic : pc[g] \in Admitted}) <= Capacity - Process

\* The budget is kept in all four senses.
BudgetKept == DeclaredBound /\ ChargeHeld /\ HeadHoldsQueue /\ PartsHaveRoom

\* While an exclusive workload runs no other guarded workload does, and two of
\* one workspace run together only when both share it, or when both belong to one
\* elastic workload that runs: the elastic one and its parts.
WorkloadsApart ==
  \A g, h \in Guard :
    pc[g] \in Admitted /\ pc[h] \in Admitted /\ g # h =>
      /\ Lane(g) # "exclusive"
      /\ SameWs(g, h) => \/ ShareWs(g, h)
                         \/ \E e \in elastic : {g, h} \subseteq {e} \cup {p \in Parts : PartOf(p) = e}

\* Drain tickets are served in the order they were taken, and while one is queued
\* no normal or background guard is admitted, but one that was beyond its last
\* look at the tickets when the ticket came.
DrainsKept ==
  [][\A g \in Guard :
       pc[g] # "granted" /\ pc'[g] = "granted" =>
         /\ lane[g] \in {"normal", "background"} => \A t \in ToSet(tickets) : g \in past[t]
         /\ g \in ToSet(tickets) => Head(tickets) = g]_vars

\* What a head had reserved when a guard looked at its entry is still the head's
\* when that guard runs ahead, in its hands or free, whatever the two and the
\* others took and gave back in between (backfill).  What the reservation has
\* grown by since the look, and that of a later head, are not spared: the entry
\* is read before the register lock is taken.
HeadKeepsPace ==
  [][\A g \in Guard :
       pc[g] = "scanned" /\ pc'[g] = "granted" /\ owed[g] > 0 => (Reserved(queue) + Free)' >= owed[g]]_vars

\* A guard that waits is admitted or gives up, unless a lane ahead of it is
\* served first: drain tickets before normal guards, everybody before
\* background ones.
Outranked(g) ==
  \/ lane[g] = "background"
  \/ lane[g] = "normal" /\ tickets # <<>>

WaiterAdmitted ==
  \A g \in Guard : pc[g] \in Waits ~> pc[g] \notin Waits \/ Outranked(g)

\* Every elastic workload progresses until it ends: its parts are admitted.
ElasticProgress ==
  \A e \in Guard : (cast[e].elastic /\ pc[e] = "run") ~> pc[e] # "run"
=============================================================================
