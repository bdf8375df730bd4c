--------------------------------- MODULE Cas ----------------------------------
(***************************************************************************)
(* The content-addressed build cache that the worktrees of one machine     *)
(* share (src/scripts/cas.py).  Each command is a process; processes share *)
(* the store directory, its per-key locks and the collector's lock, and    *)
(* may be killed at any point.                                             *)
(*                                                                         *)
(* A key stands for one entry of its kind; an entry's size is 1.  Building *)
(* is one long step that may fail.  The outputs of Lake in the store and   *)
(* what a key hashes are not in this module.                               *)
(***************************************************************************)
EXTENDS Integers, FiniteSets

CONSTANTS
  Proc,      \* the processes
  Nobody,
  Key, NoKey,
  KindOf,    \* the kind of each key
  Compiler,  \* the key of the compiler that air exports run
  Cap,       \* the collector's cap, in entries
  MinAge,    \* gc --min-age
  StageAge,  \* the age at which a stage counts as abandoned (2 days)
  MaxTime,   \* bound on the clock
  MaxStarts  \* bound on the commands of one run

ASSUME CasAssumption ==
  /\ Nobody \notin Proc
  /\ NoKey \notin Key
  /\ Compiler \in Key
  /\ KindOf \in [Key -> {"zig", "air", "src", "native"}]
  /\ KindOf[Compiler] = "zig"
  /\ {Cap, MinAge, StageAge, MaxTime, MaxStarts} \subseteq Nat
  /\ IsFiniteSet(Key) /\ IsFiniteSet(Proc)

VARIABLES
  now,       \* the clock
  pc,        \* where each process is
  want,      \* the key a command works on
  entry,     \* the directory of a key: "none", "partial" or "complete"
  used,      \* the newer of the mtimes of its marker and its use stamp; 0: none
  lock,      \* the holder of the lock of each key
  tmp,       \* the directories in tmp/
  gcLock,    \* the holder of gc.lock
  items,     \* the last use of the collector's candidates, as it read them
  excess,    \* how much the collector has still to free
  starts     \* commands started so far

store == <<entry, used, tmp>>
gc    == <<gcLock, items, excess>>
vars  == <<now, pc, want, lock, store, gc, starts>>

Locked(k) == KindOf[k] \in {"zig", "native"}

Stops == {"idle", "lookup", "lock", "locked", "touch", "build", "rename", "collided", "use",
          "clean", "total", "evict", "bury"}

Never == -1    \* not a candidate

Stage == [by : Proc \cup {Nobody}, key : Key, time : Nat, built : BOOLEAN]

TypeOK ==
  /\ now \in Nat
  /\ pc \in [Proc -> Stops]
  /\ want \in [Proc -> Key \cup {NoKey}]
  /\ entry \in [Key -> {"none", "partial", "complete"}]
  /\ used \in [Key -> Nat]
  /\ lock \in [Key -> Proc \cup {Nobody}]
  /\ tmp \subseteq Stage
  /\ gcLock \in Proc \cup {Nobody}
  /\ items \in [Key -> Nat \cup {Never}]
  /\ excess \in Int
  /\ starts \in Nat
  /\ \A k \in Key : lock[k] # Nobody => Locked(k) /\ want[lock[k]] = k
  /\ \A s \in tmp : s.by # Nobody => pc[s.by] \in {"build", "rename", "collided", "bury"}

Init ==
  /\ now = 0
  /\ pc = [p \in Proc |-> "idle"]
  /\ want = [p \in Proc |-> NoKey]
  /\ entry = [k \in Key |-> "none"]
  /\ used = [k \in Key |-> 0]
  /\ lock = [k \in Key |-> Nobody]
  /\ tmp = {}
  /\ gcLock = Nobody
  /\ items = [k \in Key |-> Never]
  /\ excess = 0
  /\ starts = 0

Present(k) == entry[k] # "none"

(* A process goes on, or ends its command. *)
Goto(p, l) ==
  /\ pc' = [pc EXCEPT ![p] = l]
  /\ want' = IF l = "idle" THEN [want EXCEPT ![p] = NoKey] ELSE want

StagesOf(p) == {s \in tmp : s.by = p}

(* A stage and its mtime, empty and with its output and marker. *)
NewStage(p, k) == [by |-> p, key |-> k, time |-> now, built |-> FALSE]
BuiltStage(p, k) == [by |-> p, key |-> k, time |-> now, built |-> TRUE]

(* What a process leaves in tmp/ when it stops using its stage. *)
Abandoned(p) == (tmp \ StagesOf(p)) \cup {[s EXCEPT !.by = Nobody] : s \in StagesOf(p)}

Unlocked(p) == [k \in Key |-> IF lock[k] = p THEN Nobody ELSE lock[k]]

-----------------------------------------------------------------------------
(* A command that needs an entry.                                          *)

(* An air export touches its compiler's entry; without one it is not       *)
(* cached.                                                                 *)
Start(p, k) ==
  /\ pc[p] = "idle"
  /\ starts < MaxStarts
  /\ starts' = starts + 1
  /\ want' = [want EXCEPT ![p] = k]
  /\ \/ KindOf[k] = "air" /\ Present(Compiler) /\ used' = [used EXCEPT ![Compiler] = now]
     \/ KindOf[k] # "air" /\ UNCHANGED used
  /\ pc' = [pc EXCEPT ![p] = IF KindOf[k] = "native" THEN "lock" ELSE "lookup"]
  /\ UNCHANGED <<now, entry, lock, tmp, gc>>

(* flock is not fair: any waiting process may get the lock. *)
Lock(p) ==
  /\ pc[p] = "lock"
  /\ lock[want[p]] = Nobody
  /\ lock' = [lock EXCEPT ![want[p]] = p]
  /\ Goto(p, "locked")
  /\ UNCHANGED <<now, store, gc, starts>>

(* The first half of a lookup, which finds the marker. *)
Finds(p) ==
  /\ pc[p] \in {"lookup", "locked"}
  /\ Present(want[p])
  /\ Goto(p, "touch")
  /\ UNCHANGED <<now, lock, store, gc, starts>>

(* The second half: the stamp, if the entry is still there; the lock is    *)
(* given up.                                                               *)
Touch(p) ==
  /\ pc[p] = "touch"
  /\ used' = IF Present(want[p]) THEN [used EXCEPT ![want[p]] = now] ELSE used
  /\ lock' = Unlocked(p)
  /\ Goto(p, "use")
  /\ UNCHANGED <<now, entry, tmp, gc, starts>>

(* Mutant: a miss of a compiler is not looked up again under the lock. *)
MissesOnce(p) ==
  /\ pc[p] = "locked" \/ (pc[p] = "lookup" /\ ~Present(want[p]))
  /\ \/ /\ pc[p] = "lookup" /\ Locked(want[p])
        /\ Goto(p, "lock")
        /\ UNCHANGED tmp
     \/ /\ pc[p] = "locked" \/ ~Locked(want[p])
        /\ tmp' = tmp \cup {NewStage(p, want[p])}
        /\ Goto(p, "build")
  /\ UNCHANGED <<now, entry, used, lock, gc, starts>>

(* A miss: a compiler is looked up again under its lock, anything else is  *)
(* built in a stage.                                                       *)
Misses(p) ==
  /\ pc[p] \in {"lookup", "locked"}
  /\ ~Present(want[p])
  /\ \/ /\ pc[p] = "lookup" /\ Locked(want[p])
        /\ Goto(p, "lock")
        /\ UNCHANGED tmp
     \/ /\ pc[p] = "locked" \/ ~Locked(want[p])
        /\ tmp' = tmp \cup {NewStage(p, want[p])}
        /\ Goto(p, "build")
  /\ UNCHANGED <<now, entry, used, lock, gc, starts>>

(* The build succeeds: its output and the marker are in the stage. *)
Builds(p) ==
  /\ pc[p] = "build"
  /\ StagesOf(p) # {}
  /\ tmp' = (tmp \ StagesOf(p)) \cup {BuiltStage(p, want[p])}
  /\ Goto(p, "rename")
  /\ UNCHANGED <<now, entry, used, lock, gc, starts>>

(* Mutants: the exit code is not looked at; the lock is kept. *)
BuildFailsIgnored(p) ==
  /\ pc[p] = "build"
  /\ Goto(p, "rename")
  /\ UNCHANGED <<now, lock, store, gc, starts>>
BuildFailsLocked(p) ==
  /\ pc[p] = "build"
  /\ tmp' = tmp \ StagesOf(p)
  /\ Goto(p, "idle")
  /\ UNCHANGED <<now, lock, entry, used, gc, starts>>

(* It fails; a source tree leaves its stage behind. *)
BuildFails(p) ==
  /\ pc[p] = "build"
  /\ tmp' = IF KindOf[want[p]] = "src" THEN Abandoned(p) ELSE tmp \ StagesOf(p)
  /\ lock' = Unlocked(p)
  /\ Goto(p, "idle")
  /\ UNCHANGED <<now, entry, used, gc, starts>>

(* A process that built a native binary has its output already. *)
AfterPublish(p) == Goto(p, IF KindOf[want[p]] = "native" THEN "idle" ELSE "use")

(* The rename of the stage into place. *)
Publish(p) ==
  /\ pc[p] = "rename"
  /\ ~Present(want[p])
  /\ \E s \in StagesOf(p) :
       /\ entry' = [entry EXCEPT ![want[p]] = IF s.built THEN "complete" ELSE "partial"]
       /\ used' = [used EXCEPT ![want[p]] = s.time]
  /\ tmp' = tmp \ StagesOf(p)
  /\ lock' = Unlocked(p)
  /\ AfterPublish(p)
  /\ UNCHANGED <<now, gc, starts>>

(* The rename fails: another builder was first, or the stage is gone. *)
Collides(p) ==
  /\ pc[p] = "rename"
  /\ Present(want[p]) \/ StagesOf(p) = {}
  /\ Goto(p, "collided")
  /\ UNCHANGED <<now, lock, store, gc, starts>>

(* The other entry is used if it is there; else the error is raised, and   *)
(* only a compiler's stage is cleaned up.                                  *)
AfterCollision(p) ==
  /\ pc[p] = "collided"
  /\ \/ /\ Present(want[p])
        /\ tmp' = tmp \ StagesOf(p)
        /\ AfterPublish(p)
     \/ /\ ~Present(want[p])
        /\ tmp' = IF KindOf[want[p]] = "zig" THEN tmp \ StagesOf(p) ELSE Abandoned(p)
        /\ Goto(p, "idle")
  /\ lock' = Unlocked(p)
  /\ UNCHANGED <<now, entry, used, gc, starts>>

(* The entry's files are read, or are gone. *)
Use(p) ==
  /\ pc[p] = "use"
  /\ Goto(p, "idle")
  /\ UNCHANGED <<now, lock, store, gc, starts>>

-----------------------------------------------------------------------------
(* The collector.                                                          *)

GcStart(p) ==
  /\ pc[p] = "idle"
  /\ starts < MaxStarts
  /\ gcLock = Nobody
  /\ starts' = starts + 1
  /\ gcLock' = p
  /\ Goto(p, "clean")
  /\ UNCHANGED <<now, lock, store, items, excess>>

IsStale(s) == now - s.time > StageAge

(* It removes the stages that look abandoned, then reads the last use of   *)
(* every entry.                                                            *)
GcScan(p) ==
  /\ pc[p] = "clean"
  /\ tmp' = {s \in tmp : ~IsStale(s)}
  /\ items' = [k \in Key |-> IF Present(k) THEN used[k] ELSE Never]
  /\ Goto(p, "total")
  /\ UNCHANGED <<now, lock, entry, used, gcLock, excess, starts>>

(* Mutant: the stages count too. *)
GcTotalAll(p) ==
  /\ pc[p] = "total"
  /\ excess' = Cardinality({k \in Key : Present(k)}) + Cardinality(tmp) - Cap
  /\ Goto(p, "evict")
  /\ UNCHANGED <<now, lock, store, gcLock, items, starts>>

(* Then it measures the store. *)
GcTotal(p) ==
  /\ pc[p] = "total"
  /\ excess' = Cardinality({k \in Key : Present(k)}) - Cap
  /\ Goto(p, "evict")
  /\ UNCHANGED <<now, lock, store, gcLock, items, starts>>

Oldest(k) == items[k] # Never /\ \A j \in Key : items[j] # Never => items[k] <= items[j]

MayEvict(k) == Oldest(k) /\ excess > 0 /\ now - items[k] >= MinAge

(* The next entry in the order of the read times is moved to tmp/. *)
GcEvict(p, k) ==
  /\ pc[p] = "evict"
  /\ MayEvict(k)
  /\ entry' = [entry EXCEPT ![k] = "none"]
  /\ used' = [used EXCEPT ![k] = 0]
  /\ tmp' = tmp \cup {NewStage(p, k)}
  /\ items' = [items EXCEPT ![k] = Never]
  /\ excess' = excess - 1
  /\ Goto(p, "bury")
  /\ UNCHANGED <<now, lock, gcLock, starts>>

GcBury(p) ==
  /\ pc[p] = "bury"
  /\ tmp' = tmp \ StagesOf(p)
  /\ Goto(p, "evict")
  /\ UNCHANGED <<now, lock, entry, used, gc, starts>>

GcEnd(p) ==
  /\ pc[p] = "evict"
  /\ \A k \in Key : ~MayEvict(k)
  /\ gcLock' = Nobody
  /\ items' = [k \in Key |-> Never]
  /\ excess' = 0
  /\ Goto(p, "idle")
  /\ UNCHANGED <<now, lock, store, starts>>

-----------------------------------------------------------------------------
Step(p) ==
  \/ Lock(p) \/ Finds(p) \/ Touch(p) \/ Misses(p)
  \/ Builds(p) \/ BuildFails(p) \/ Publish(p) \/ Collides(p) \/ AfterCollision(p) \/ Use(p)
  \/ GcScan(p) \/ GcTotal(p) \/ (\E k \in Key : GcEvict(p, k)) \/ GcBury(p) \/ GcEnd(p)

Command(p) == (\E k \in Key : Start(p, k)) \/ GcStart(p)

(* A process is killed: the system drops its locks, its stage stays. *)
Crash(p) ==
  /\ pc[p] # "idle"
  /\ Goto(p, "idle")
  /\ tmp' = Abandoned(p)
  /\ lock' = Unlocked(p)
  /\ IF gcLock = p
       THEN gcLock' = Nobody /\ items' = [k \in Key |-> Never] /\ excess' = 0
       ELSE UNCHANGED gc
  /\ UNCHANGED <<now, entry, used, starts>>

Tick ==
  /\ now < MaxTime
  /\ now' = now + 1
  /\ UNCHANGED <<pc, want, lock, store, gc, starts>>

Next == (\E p \in Proc : Step(p) \/ Command(p) \/ Crash(p)) \/ Tick

(* The system runs some process that can run, and a build ends: the guard  *)
(* that runs it has a timeout.                                             *)
Spec == Init /\ [][Next]_vars /\ WF_vars(\E p \in Proc : Step(p))

-----------------------------------------------------------------------------
(* Properties.                                                             *)

(* A visible entry is complete, whatever failed or was killed: what makes  *)
(* a hit without a lock sound.                                             *)
EntriesComplete == \A k \in Key : entry[k] # "partial"

(* Concurrent misses of a compiler or a native build build once: while one *)
(* process builds, no other does and the entry is not there.               *)
BuildsOnce ==
  \A p \in Proc :
    pc[p] \in {"build", "rename"} /\ Locked(want[p]) =>
      /\ ~Present(want[p])
      /\ \A q \in Proc \ {p} : pc[q] \in {"build", "rename"} => want[q] # want[p]

(* cas.py: what a command finds in the store. *)
StoreKept == EntriesComplete /\ BuildsOnce

(* A collection never goes below the cap, however old its measures are:    *)
(* processes that publish and touch meanwhile only add.                    *)
GcKeepsCap ==
  [][(\E k \in Key : Present(k) /\ ~Present(k)') => Cardinality({k \in Key : Present(k)}) > Cap]_vars

(* All commands end: a process that waits for a lock gets it, also when    *)
(* holders fail or are killed.  flock queues nobody, so this says nothing  *)
(* of an endless stream of commands; MaxStarts ends it.                    *)
CommandsEnd == <>[](\A p \in Proc : pc[p] = "idle")

(* What cas.py and docs/build-cache.md say of gc: it never removes an      *)
(* entry used within --min-age.                                            *)
RecentEntriesKept ==
  [][\A k \in Key : Present(k) /\ ~Present(k)' => now - used[k] >= MinAge]_vars

=============================================================================
