------------------------------ MODULE Atomics -------------------------------
(***************************************************************************)
(* The atomic operations of the memory model (src/ZigLean/Mem/Thread.lean, *)
(* "Atomics (RC11)"): an atomic location keeps its writes as messages in   *)
(* modification order, a read picks one that is not too old, a write picks *)
(* a place after those, and an RMW goes right after the message it read.   *)
(*                                                                         *)
(* The client is any program in which main has spawned the other threads,  *)
(* each thread t performs operations of program.ops[t], and main joins the *)
(* threads that have ended.  A turn of the scheduler separates any two operations. *)
(*                                                                         *)
(* A location is the set of bytes it covers, so locations can overlap.     *)
(***************************************************************************)
EXTENDS VClock, Sequences, FiniteSetsExt, SequencesExt

CONSTANTS
  Loc,      \* locations: nonempty sets of bytes
  Programs  \* what runs: the operations of each thread, the values they write and
            \* the bound on the operations of one run

Order == {"relaxed", "acquire", "release", "acqRel"}   \* seqCst has the rule of acqRel
Cas == {"cas", "casWeak"}
OpName == {"read", "write", "load", "store", "rmw"} \cup Cas

ASSUME AtomicsAssumption ==
  /\ 0 \in Thread /\ Thread \subseteq Nat /\ IsFiniteSet(Thread)
  /\ \A l \in Loc : l # {}
  /\ \A p \in Programs :
       /\ \A t \in Thread :
            p.ops[t] \subseteq [op : OpName, loc : Loc, ord : Order, fail : {"relaxed", "acquire"}]
       /\ \A t \in Thread \ {0} :   \* ids are given in order
            p.ops[t] # {} => \A u \in 1 .. t : u \in Thread /\ p.ops[u] # {}
       /\ 0 \in p.vals   \* the initial value of every byte
       /\ p.max \in Nat

VARIABLES
  program,    \* the program that runs
  clocks,     \* m.clocks
  joined,     \* the threads that have ended and that main has joined
  footprint,  \* m.footprint
  bytes,      \* the value of each byte
  msgs,       \* the messages of each location; <<>>: not an atomic location
  seen,       \* the last message that a thread read or wrote; 0: none
  nextMsg,    \* m.nextMsg
  ops,        \* number of operations so far
  outcome     \* "running", or the error that ended the run

avars == <<program, clocks, joined, footprint, bytes, msgs, seen, nextMsg, ops, outcome>>

Byte == UNION Loc

IsAcq(ord) == ord \in {"acquire", "acqRel"}
IsRel(ord) == ord \in {"release", "acqRel"}

(* Main has spawned the threads of the program, in order, and nothing else; *)
(* an id that the program does not use counts as joined.                   *)
Spawned == {t \in Thread \ {0} : program.ops[t] # {}}

Init ==
  /\ program \in Programs
  /\ clocks = [t \in Thread |->
                 [ZeroClock EXCEPT ![0] = IF t = 0 THEN Cardinality(Spawned)
                                          ELSE IF t \in Spawned THEN t ELSE 0]]
  /\ joined = Thread \ ({0} \cup Spawned)
  /\ footprint = {}
  /\ bytes = [b \in Byte |-> 0]
  /\ msgs = [l \in Loc |-> <<>>]
  /\ seen = [t \in Thread |-> [l \in Loc |-> 0]]
  /\ nextMsg = 1
  /\ ops = 0
  /\ outcome = "running"

-----------------------------------------------------------------------------
(* The race check, as in Threads. *)

Solo(t) == t = 0 /\ joined = Thread \ {0}

Races(t, c, l, k) ==
  /\ ~Solo(t)
  /\ \E e \in footprint :
       e.loc \cap l # {} /\ Concurrent(e.clock, c) /\ RacePair(e.kind, k)

Recorded(t, c, l, k) == [tid |-> t, clock |-> c, loc |-> l, kind |-> k]

-----------------------------------------------------------------------------
(* Locations and messages.                                                 *)

PlainWrites(l) == {e \in footprint : e.kind = "write" /\ e.loc \cap l # {}}

(* The join of the clocks of the plain writes to the bytes of l. *)
PlainClock(l) == [t \in Thread |-> Max({0} \cup {e.clock[t] : e \in PlainWrites(l)})]

(* Some plain write to l did not happen before the clock c. *)
PlainSince(l, c) == \E e \in PlainWrites(l) : ~ClockLe(e.clock, c)

(* Mutant: the message takes the bytes of the whole block. *)
PlainMsgBlock(l) ==
  [id |-> nextMsg, val |-> bytes, clock |-> PlainClock(l), rel |-> ZeroClock, rmwOf |-> 0]

(* The bytes of l as a message: what plain writes left there. *)
PlainMsg(l) ==
  [id |-> nextMsg, val |-> [b \in l |-> bytes[b]], clock |-> PlainClock(l),
   rel |-> ZeroClock, rmwOf |-> 0]

Stale(l) ==
  LET m == Last(msgs[l])
  IN  m.val # [b \in l |-> bytes[b]] \/ PlainSince(l, m.clock)

Overlapping(l) == {k \in Loc \ {l} : msgs[k] # <<>> /\ k \cap l # {}}

(* A mixed-size access: every access to the bytes it shares with another   *)
(* location must have happened before it.                                  *)
MixedRace(c, l) ==
  /\ msgs[l] = <<>>
  /\ \E k \in Overlapping(l), e \in footprint :
       e.loc \cap k \cap l # {} /\ ~ClockLe(e.clock, c)

(* Mutant: a plain write since the last message is not looked for. *)
LocatedByValue(l) ==
  IF msgs[l] = <<>>
    THEN [k \in Loc |-> IF k = l THEN <<PlainMsg(l)>>
                        ELSE IF k \in Overlapping(l) THEN <<>> ELSE msgs[k]]
    ELSE IF Last(msgs[l]).val # [b \in l |-> bytes[b]]
           THEN [msgs EXCEPT ![l] = Append(@, PlainMsg(l))]
           ELSE msgs

(* Mutant: an access to the bytes of another location leaves that in place. *)
LocatedKeepsOthers(l) ==
  IF msgs[l] = <<>> \/ Stale(l)
    THEN [msgs EXCEPT ![l] = Append(@, PlainMsg(l))]
    ELSE msgs

(* The messages once an operation has found its location: the location is  *)
(* created if need be, retiring the ones it overlaps, and plain writes     *)
(* since its newest message become a message.                              *)
Located(l) ==
  IF msgs[l] = <<>>
    THEN [k \in Loc |-> IF k = l THEN <<PlainMsg(l)>>
                        ELSE IF k \in Overlapping(l) THEN <<>> ELSE msgs[k]]
    ELSE IF Stale(l)
           THEN [msgs EXCEPT ![l] = Append(@, PlainMsg(l))]
           ELSE msgs

NextId(l) == IF msgs[l] = <<>> \/ Stale(l) THEN nextMsg + 1 ELSE nextMsg

(* The threads' views, without the retired locations. *)
SeenAfter(l) ==
  IF msgs[l] = <<>>
    THEN [t \in Thread |-> [k \in Loc |-> IF k \in Overlapping(l) THEN 0 ELSE seen[t][k]]]
    ELSE seen

RmwAfter(ms, p) == p < Len(ms) /\ ms[p + 1].rmwOf = ms[p].id

(* Mutant: a thread may read a message older than one it has read. *)
FloorForgets(ms, t, c, l) == Max({1} \cup {p \in DOMAIN ms : ClockLe(ms[p].clock, c)})

(* Mutant: only the released part of a writer's clock is looked at. *)
FloorReleased(ms, t, c, l) ==
  Max({1} \cup {p \in DOMAIN ms : ClockLe(ms[p].rel, c) \/ ms[p].id = seen[t][l]})

(* The oldest position that t can read: the newest message that happened   *)
(* before it, or that it read or wrote before.                             *)
Floor(ms, t, c, l) ==
  Max({1} \cup {p \in DOMAIN ms : ClockLe(ms[p].clock, c) \/ ms[p].id = seen[t][l]})

ReadOpts(ms, t, c, l) == Floor(ms, t, c, l) .. Len(ms)
RmwOpts(ms, t, c, l)  == {p \in ReadOpts(ms, t, c, l) : ~RmwAfter(ms, p)}

(* The places of a new message: after the floor, not between an RMW and    *)
(* the message that it read.                                               *)
WriteSlots(ms, t, c, l) ==
  {p \in Floor(ms, t, c, l) + 1 .. Len(ms) + 1 : p = Len(ms) + 1 \/ ~RmwAfter(ms, p - 1)}

-----------------------------------------------------------------------------
(* Operations of a thread.                                                 *)

Going(t) == outcome = "running" /\ t \notin joined /\ ops < program.max

Fail(e) ==
  /\ outcome' = e
  /\ ops' = ops + 1
  /\ UNCHANGED <<program, clocks, joined, footprint, bytes, msgs, seen, nextMsg>>

(* An access of kind k is a race, or an atomic one of mixed size. *)
Refuse(t, l, k) ==
  LET c == Bump(clocks[t], t)
  IN  \/ Races(t, c, l, k) /\ Fail("illegal")
      \/ IsAtomic(k) /\ ~Races(t, c, l, k) /\ MixedRace(c, l) /\ Fail("unspecified")

Accept(t, l, k) ==
  LET c == Bump(clocks[t], t)
  IN  ~Races(t, c, l, k) /\ (IsAtomic(k) => ~MixedRace(c, l))

PlainAccess(t, l, k, v) ==
  LET c == Bump(clocks[t], t)
  IN  /\ Accept(t, l, k)
      /\ clocks' = [clocks EXCEPT ![t] = c]
      /\ footprint' = footprint \cup {Recorded(t, c, l, k)}
      /\ bytes' = IF k = "write" THEN [b \in Byte |-> IF b \in l THEN v ELSE bytes[b]] ELSE bytes
      /\ ops' = ops + 1
      /\ UNCHANGED <<program, joined, msgs, seen, nextMsg, outcome>>

(* The access kind that an operation records first: a cas writes only when *)
(* it succeeds.                                                            *)
KindOf(op) ==
  CASE op \in {"read", "write"} -> op
    [] op \in {"store", "rmw"} -> "atomicWrite"
    [] OTHER -> "atomicRead"

Word(l, v) == [b \in l |-> v]

(* The current thread has read or written message id of location l. *)
Observe(t, l, id) == seen' = [SeenAfter(l) EXCEPT ![t][l] = id]

(* Mutant: an acquire adopts the clock of the writer, released or not. *)
AdoptWriter(ord, c, m) == IF IsAcq(ord) THEN Merge(c, m.clock) ELSE c

(* The clock of a thread that reads message m. *)
Adopt(ord, c, m) == IF IsAcq(ord) THEN Merge(c, m.rel) ELSE c

(* atomicLoadAt: the thread reads position p. *)
LoadAt(t, l, ord, p) ==
  LET c  == Bump(clocks[t], t)
      ms == Located(l)[l]
  IN  /\ Accept(t, l, "atomicRead")
      /\ p \in ReadOpts(ms, t, c, l)
      /\ clocks' = [clocks EXCEPT ![t] = Adopt(ord, c, ms[p])]
      /\ footprint' = footprint \cup {Recorded(t, c, l, "atomicRead")}
      /\ msgs' = Located(l)
      /\ nextMsg' = NextId(l)
      /\ Observe(t, l, ms[p].id)
      /\ ops' = ops + 1
      /\ UNCHANGED <<program, joined, bytes, outcome>>

(* Mutant: a message in the middle is stored in memory too. *)
InsertMsgStores(l, p, m) ==
  /\ msgs' = [Located(l) EXCEPT ![l] = InsertAt(Located(l)[l], p, m)]
  /\ bytes' = [b \in Byte |-> IF b \in l THEN m.val[b] ELSE bytes[b]]
  /\ nextMsg' = m.id + 1

(* Put m at place p of location l; at the end it is also in the bytes. *)
InsertMsg(l, p, m) ==
  LET ms == Located(l)[l]
  IN  /\ msgs' = [Located(l) EXCEPT ![l] = InsertAt(ms, p, m)]
      /\ bytes' = IF p = Len(ms) + 1
                    THEN [b \in Byte |-> IF b \in l THEN m.val[b] ELSE bytes[b]]
                    ELSE bytes
      /\ nextMsg' = m.id + 1

(* atomicStoreAt: the thread writes v at place p. *)
StoreAt(t, l, ord, p, v) ==
  LET c == Bump(clocks[t], t)
      m == [id |-> NextId(l), val |-> Word(l, v), clock |-> c,
            rel |-> IF IsRel(ord) THEN c ELSE ZeroClock, rmwOf |-> 0]
  IN  /\ Accept(t, l, "atomicWrite")
      /\ p \in WriteSlots(Located(l)[l], t, c, l)
      /\ clocks' = [clocks EXCEPT ![t] = c]
      /\ footprint' = footprint \cup {Recorded(t, c, l, "atomicWrite")}
      /\ InsertMsg(l, p, m)
      /\ Observe(t, l, m.id)
      /\ ops' = ops + 1
      /\ UNCHANGED <<program, joined, outcome>>

(* Mutant: an RMW starts a release sequence of its own. *)
RmwRelBreaks(ord, rd, cl) == IF IsRel(ord) THEN cl ELSE ZeroClock

(* What an acquire read of an RMW's message adopts: the release sequence   *)
(* of the message that the RMW read goes on.                               *)
RmwRel(ord, rd, cl) == IF IsRel(ord) THEN Merge(rd.rel, cl) ELSE rd.rel

(* The write of an RMW that read position p: right after it, and in the    *)
(* release sequence of the message it read.                                *)
RmwWrite(t, l, ord, p, v, c) ==
  LET rd == Located(l)[l][p]
      cl == Adopt(ord, c, rd)
      m  == [id |-> NextId(l), val |-> Word(l, v), clock |-> cl,
             rel |-> RmwRel(ord, rd, cl), rmwOf |-> rd.id]
  IN  /\ clocks' = [clocks EXCEPT ![t] = cl]
      /\ InsertMsg(l, p + 1, m)
      /\ Observe(t, l, m.id)

RmwAt(t, l, ord, p, v) ==
  LET c == Bump(clocks[t], t)
  IN  /\ Accept(t, l, "atomicWrite")
      /\ p \in RmwOpts(Located(l)[l], t, c, l)
      /\ footprint' = footprint \cup {Recorded(t, c, l, "atomicWrite")}
      /\ RmwWrite(t, l, ord, p, v, c)
      /\ ops' = ops + 1
      /\ UNCHANGED <<program, joined, outcome>>

(* Mutant: a cas may take a message that an RMW has already taken. *)
CasOptsTaken(ms, t, c, l, want) == ReadOpts(ms, t, c, l)

(* cmpxchgAt and cmpxchgWeakAt read position p: a strong one may not read  *)
(* an expected value that an RMW has already taken; a weak one may fail on *)
(* any position.                                                           *)
CasOpts(ms, t, c, l, want) ==
  {p \in ReadOpts(ms, t, c, l) : ms[p].val = want => ~RmwAfter(ms, p)}

CasFails(t, l, fail, p, want, weak) ==
  LET c  == Bump(clocks[t], t)
      ms == Located(l)[l]
  IN  /\ p \in ReadOpts(ms, t, c, l)
      /\ weak \/ ms[p].val # want
      /\ LoadAt(t, l, fail, p)

CasSucceeds(t, l, succ, p, want, v) ==
  LET c  == Bump(clocks[t], t)
      c2 == Bump(c, t)
      ms == Located(l)[l]
  IN  /\ Accept(t, l, "atomicRead")
      /\ p \in CasOpts(ms, t, c, l, want)
      /\ ms[p].val = want
      /\ \/ /\ ~Races(t, c2, l, "atomicWrite")
            /\ footprint' = footprint \cup {Recorded(t, c, l, "atomicRead"), Recorded(t, c2, l, "atomicWrite")}
            /\ RmwWrite(t, l, succ, p, v, c2)
            /\ ops' = ops + 1
            /\ UNCHANGED <<program, joined, outcome>>
         \/ Races(t, c2, l, "atomicWrite") /\ Fail("illegal")

(* Thread u has ended; main joins it and adopts its clock. *)
Join(u) ==
  /\ outcome = "running"
  /\ u \in Thread \ (joined \cup {0})
  /\ joined' = joined \cup {u}
  /\ clocks' = [clocks EXCEPT ![0] = Merge(Bump(@, 0), clocks[u])]
  /\ UNCHANGED <<program, footprint, bytes, msgs, seen, nextMsg, ops, outcome>>

-----------------------------------------------------------------------------

Places(l) == 1 .. Len(Located(l)[l]) + 1

Operate(t, o) ==
  /\ Going(t)
  /\ \/ Refuse(t, o.loc, KindOf(o.op))
     \/ /\ o.op = "read"
        /\ PlainAccess(t, o.loc, "read", 0)
     \/ /\ o.op = "write"
        /\ \E v \in program.vals : PlainAccess(t, o.loc, "write", v)
     \/ /\ o.op = "load"
        /\ \E p \in Places(o.loc) : LoadAt(t, o.loc, o.ord, p)
     \/ /\ o.op = "store"
        /\ \E p \in Places(o.loc), v \in program.vals : StoreAt(t, o.loc, o.ord, p, v)
     \/ /\ o.op = "rmw"
        /\ \E p \in Places(o.loc), v \in program.vals : RmwAt(t, o.loc, o.ord, p, v)
     \/ /\ o.op \in Cas
        /\ \E p \in Places(o.loc), w, v \in program.vals :
             \/ CasFails(t, o.loc, o.fail, p, Word(o.loc, w), o.op = "casWeak")
             \/ CasSucceeds(t, o.loc, o.ord, p, Word(o.loc, w), v)

Next ==
  \E t \in Thread :
    \/ \E o \in program.ops[t] : Operate(t, o)
    \/ Join(t)

Spec == Init /\ [][Next]_avars

-----------------------------------------------------------------------------

Message(l) ==
  [id : Nat \ {0}, val : [l -> program.vals], clock : Clock, rel : Clock, rmwOf : Nat]

TypeOK ==
  /\ program \in Programs
  /\ clocks \in [Thread -> Clock]
  /\ joined \subseteq Thread \ {0}
  /\ \A e \in footprint :
       e.tid \in Thread /\ e.clock \in Clock /\ e.loc \in Loc /\ e.kind \in AccessKind
  /\ bytes \in [Byte -> program.vals]
  /\ \A l \in Loc : msgs[l] \in Seq(Message(l))
  /\ seen \in [Thread -> [Loc -> Nat]]
  /\ nextMsg \in Nat \ {0}
  /\ ops \in 0 .. program.max
  /\ outcome \in {"running", "illegal", "unspecified"}

(* The live atomic locations never share a byte, and every view of a       *)
(* thread names a message of a live location: an access of another size    *)
(* ends the locations it overlaps with their messages and views.           *)
LocationsDisjoint ==
  /\ \A k, l \in Loc : msgs[k] # <<>> /\ msgs[l] # <<>> /\ k # l => k \cap l = {}
  /\ \A t \in Thread, l \in Loc :
       seen[t][l] # 0 => \E p \in DOMAIN msgs[l] : msgs[l][p].id = seen[t][l]

(* The newest message of a location holds the bytes of memory, unless a    *)
(* plain write came after it; that message then waits for the next atomic  *)
(* access.                                                                 *)
NewestIsMemory ==
  \A l \in Loc :
    msgs[l] # <<>> =>
      LET m == Last(msgs[l])
      IN  m.val = [b \in l |-> bytes[b]] \/ PlainSince(l, m.clock)

=============================================================================
