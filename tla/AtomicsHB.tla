----------------------------- MODULE AtomicsHB ------------------------------
(***************************************************************************)
(* Atomics with the history of a run: the events in the order they ran,    *)
(* each with the message it read (r), the message it wrote (w) and the     *)
(* events that happened before it (past).  Happens-before is computed from *)
(* the history as RC11 defines it (program order, joins, and an acquire    *)
(* read of a release sequence), without clocks; it is the reference for    *)
(* the clocks and for the messages that a read may pick.                   *)
(***************************************************************************)
EXTENDS Atomics

VARIABLE hist     \* the events so far

hvars == <<avars, hist>>

(* The earlier events in whose release sequence message id of location l   *)
(* is: the write of it and, if that is an RMW, those of the message it     *)
(* read.                                                                   *)
Heads(l, id) ==
  UNION {hist[n].heads : n \in {k \in DOMAIN hist : hist[k].loc = l /\ hist[k].w = id}}

(* What happened before an event of t: t's own earlier events, and the     *)
(* events in from that it synchronizes with, each with its past.           *)
PastFrom(t, from) ==
  LET direct == {n \in DOMAIN hist : hist[n].tid = t} \cup from
  IN  direct \cup UNION {hist[n].past : n \in direct}

(* The event of a step: what it added to the footprint tells whether it    *)
(* wrote, the thread's view which message it read or wrote last.           *)
EventOf(t, o) ==
  LET l     == o.loc
      new   == footprint' \ footprint
      plain == o.op \in {"read", "write"}
      wrote == \E e \in new : e.kind = "atomicWrite"
      last  == IF plain THEN 0 ELSE seen'[t][l]
      r     == IF plain \/ o.op = "store" THEN 0
               ELSE IF wrote THEN (CHOOSE x \in ToSet(msgs'[l]) : x.id = last).rmwOf
               ELSE last
      acq   == r # 0 /\ IsAcq(IF o.op \in Cas /\ ~wrote THEN o.fail ELSE o.ord)
      rel   == wrote /\ IsRel(o.ord)
      read  == IF r = 0 THEN {} ELSE Heads(l, r)
  IN  [tid |-> t, loc |-> l, op |-> o.op, plain |-> plain, rel |-> rel,
       clk |-> {e.clock[t] : e \in new}, r |-> r, w |-> IF wrote THEN last ELSE 0,
       past |-> PastFrom(t, IF acq THEN {n \in read : hist[n].rel} ELSE {}),
       heads |-> {Len(hist) + 1} \cup read]

JoinEvent(u) ==
  [tid |-> 0, loc |-> {}, op |-> "join", plain |-> TRUE, rel |-> FALSE, clk |-> {},
   r |-> 0, w |-> 0, past |-> PastFrom(0, {n \in DOMAIN hist : hist[n].tid = u}), heads |-> {}]

HInit == Init /\ hist = <<>>

HOperate(t, o) ==
  /\ Operate(t, o)
  /\ hist' = IF outcome' = "running" THEN Append(hist, EventOf(t, o)) ELSE hist

HJoin(u) == Join(u) /\ hist' = Append(hist, JoinEvent(u))

HNext ==
  \E t \in Thread :
    \/ \E o \in program.ops[t] : HOperate(t, o)
    \/ HJoin(t)

HSpec == HInit /\ [][HNext]_hvars

-----------------------------------------------------------------------------

Events == DOMAIN hist

(* The events that happened before the next step of t. *)
PastOf(t) == PastFrom(t, {})

Pos(l, id) == CHOOSE p \in DOMAIN msgs[l] : msgs[l][p].id = id
Kept(l, id) == \E p \in DOMAIN msgs[l] : msgs[l][p].id = id

-----------------------------------------------------------------------------
(* The clocks are the happens-before order: a recorded access is below a   *)
(* thread's clock exactly when it happened before the thread's next step,  *)
(* also through release sequences, whatever was acquired on the way.       *)
ClockIsHappensBefore ==
  \A e \in footprint, t \in Thread :
    ClockLe(e.clock, clocks[t])
      <=> \E n \in PastOf(t) : hist[n].tid = e.tid /\ e.clock[e.tid] \in hist[n].clk

(* Two conflicting accesses of a run that goes on are ordered by           *)
(* happens-before: the messages of atomics hide no data race.              *)
NoRecordedRace ==
  \A m, n \in Events :
    /\ m < n
    /\ hist[m].loc \cap hist[n].loc # {}
    /\ hist[m].op = "write" \/ hist[n].op = "write" \/ hist[m].w # 0 \/ hist[n].w # 0
    /\ hist[m].plain \/ hist[n].plain
    => m \in hist[n].past

(* The race check is exact: its clocks are the happens-before order, and no *)
(* data race passes it.                                                    *)
RacesExact == ClockIsHappensBefore /\ NoRecordedRace

(* Coherence: what happened before is not newer.  For writes across        *)
(* threads; for reads in program order only (docs/std-models.md, "Known    *)
(* limit (read views across synchronization)").                            *)
Coherent ==
  \A n \in Events : \A m \in hist[n].past :
    LET e == hist[m]
        f == hist[n]
        l == e.loc
        Old(id) == IF Kept(l, id) THEN Pos(l, id) ELSE 0
    IN  e.loc = f.loc =>
          /\ e.w # 0 /\ f.w # 0 /\ Kept(l, f.w) => Old(e.w) < Pos(l, f.w)
          /\ e.w # 0 /\ f.r # 0 /\ Kept(l, f.r) => Old(e.w) <= Pos(l, f.r)
          /\ e.tid = f.tid =>
               /\ e.r # 0 /\ f.w # 0 /\ Kept(l, f.w) => Old(e.r) < Pos(l, f.w)
               /\ e.r # 0 /\ f.r # 0 /\ Kept(l, f.r) => Old(e.r) <= Pos(l, f.r)

(* Atomicity: nothing ever comes between an RMW and the message it read,   *)
(* however many stores take a place in the middle later.                   *)
RmwAdjacent ==
  \A n \in Events :
    LET f == hist[n]
    IN  f.r # 0 /\ f.w # 0 /\ Kept(f.loc, f.w) /\ Kept(f.loc, f.r) =>
          Pos(f.loc, f.w) = Pos(f.loc, f.r) + 1

(* Modification order, as the messages have it, obeys both. *)
OrderKept == Coherent /\ RmwAdjacent

(* The choices of a read are exactly the messages that coherence allows:   *)
(* an older one is refused only if the thread read or wrote a newer one,   *)
(* or a newer one happened before; so no allowed execution is left out.    *)
ReadsExact ==
  \A t \in Thread \ joined, l \in Loc :
    msgs[l] # <<>> /\ ~Stale(l) /\ outcome = "running" =>
      LET c  == Bump(clocks[t], t)
          Hidden(p) ==
            \/ \E n \in PastOf(t) :
                 LET f == hist[n]
                 IN  /\ f.loc = l
                     /\ \/ f.w # 0 /\ Kept(l, f.w) /\ p < Pos(l, f.w)
                        \/ f.r # 0 /\ f.tid = t /\ Kept(l, f.r) /\ p < Pos(l, f.r)
            \/ \E q \in DOMAIN msgs[l] :   \* a message of plain writes
                 /\ p < q
                 /\ ~ \E n \in Events : hist[n].w = msgs[l][q].id
                 /\ ClockLe(msgs[l][q].clock, clocks[t])
      IN  \A p \in DOMAIN msgs[l] : p \in ReadOpts(msgs[l], t, c, l) <=> ~Hidden(p)

(* A plain write is never lost to the atomics: every later atomic read of  *)
(* its bytes reads a message that has it, also if it left the value as it  *)
(* was.                                                                    *)
PlainWritesKept ==
  \A m, n \in Events :
    /\ m < n
    /\ hist[m].op = "write" /\ hist[m].loc = hist[n].loc
    /\ hist[n].r # 0 /\ Kept(hist[n].loc, hist[n].r)
    => LET l == hist[n].loc
           c == msgs[l][Pos(l, hist[n].r)].clock
       IN  \E e \in footprint :
             /\ e.tid = hist[m].tid
             /\ e.clock[e.tid] \in hist[m].clk
             /\ ClockLe(e.clock, c)

(* Plain and atomic accesses of any size see one memory: no plain write is *)
(* lost, the newest message is the memory, and no two live locations       *)
(* overlap.                                                                *)
OneMemory == PlainWritesKept /\ NewestIsMemory /\ LocationsDisjoint

(* Racing atomic accesses of different size end the run: two of them that  *)
(* share a byte and of which one writes are ordered by happens-before      *)
(* (docs/sep-threads.md, "Mixed-size accesses").                           *)
MixedRaceRejected ==
  \A m, n \in Events :
    /\ m < n
    /\ hist[m].loc # hist[n].loc /\ hist[m].loc \cap hist[n].loc # {}
    /\ ~hist[m].plain /\ ~hist[n].plain
    /\ hist[m].w # 0 \/ hist[n].w # 0
    => m \in hist[n].past

=============================================================================
