---------------------------- MODULE AtomicsProofs ----------------------------
(***************************************************************************)
(* Proofs about Atomics and AtomicsHB, for any threads, locations that     *)
(* overlap as they like and any program, in the order of the module:       *)
(*   - the messages: their types, that the live locations share no byte,   *)
(*     and that the newest message is what memory holds (AInv);            *)
(*   - the history: the clocks are the happens-before order, also through  *)
(*     release sequences (HX), and no data race passes the check (HR);     *)
(*   - modification order: it obeys happens-before, an RMW stays next to   *)
(*     the message it read, and a read may pick exactly what coherence     *)
(*     leaves (HO);                                                        *)
(*   - memory: no plain write is lost to an atomic read (HM).              *)
(* Each part takes the invariants before it as given.                      *)
(***************************************************************************)
EXTENDS AtomicsHB, TLAPS, FiniteSetTheorems, SequenceTheorems, WellFoundedInduction

(***************************************************************************)
(* Vector clocks.                                                          *)
(***************************************************************************)

LEMMA BumpIs ==
  ASSUME NEW c \in Clock, NEW t \in Thread
  PROVE  /\ Bump(c, t) \in Clock /\ ClockLe(c, Bump(c, t))
         /\ Bump(c, t)[t] = c[t] + 1 /\ \A u \in Thread : u # t => Bump(c, t)[u] = c[u]
BY DEF Clock, Bump, ClockLe

(* The merge is the least clock above both. *)
LEMMA MergeIs ==
  ASSUME NEW a \in Clock, NEW b \in Clock
  PROVE  /\ Merge(a, b) \in Clock /\ ClockLe(a, Merge(a, b)) /\ ClockLe(b, Merge(a, b))
         /\ \A t \in Thread : Merge(a, b)[t] = a[t] \/ Merge(a, b)[t] = b[t]
BY DEF Clock, Merge, ClockLe

LEMMA LeRefl == ASSUME NEW a \in Clock PROVE ClockLe(a, a)
BY DEF Clock, ClockLe

LEMMA LeTrans ==
  ASSUME NEW a \in Clock, NEW b \in Clock, NEW c \in Clock, ClockLe(a, b), ClockLe(b, c)
  PROVE  ClockLe(a, c)
<1> SUFFICES ASSUME NEW t \in Thread PROVE a[t] <= c[t]
  BY DEF ClockLe
<1>1. a[t] \in Nat /\ b[t] \in Nat /\ c[t] \in Nat
  BY DEF Clock
<1>2. a[t] <= b[t] /\ b[t] <= c[t]
  BY DEF ClockLe
<1>. QED BY <1>1, <1>2

LEMMA ZeroLe == ZeroClock \in Clock /\ \A c \in Clock : ClockLe(ZeroClock, c)
BY DEF ZeroClock, Clock, ClockLe

(***************************************************************************)
(* Finite sets of numbers have a maximum.                                  *)
(***************************************************************************)

LEMMA SmallestIn ==
  ASSUME NEW S \in SUBSET Nat, S # {}
  PROVE  \E x \in S : \A y \in S : x <= y
<1> DEFINE R == OpToRel(<, Nat)
<1>1. PICK x \in S : \A y \in S : ~(<<y, x>> \in R)
  <2>1. IsWellFoundedOn(R, Nat)
    BY NatLessThanWellFounded DEF R
  <2> HIDE DEF R
  <2>. QED BY <2>1, WFMin
<1>2. \A y \in S : ~(y < x)
  BY <1>1 DEF OpToRel
<1> HIDE DEF R
<1>. QED BY <1>2

LEMMA FiniteIsBounded ==
  ASSUME NEW S \in SUBSET Nat, IsFiniteSet(S)
  PROVE  \E b \in Nat : \A x \in S : x <= b
<1> DEFINE n == Cardinality(S)
<1>1. n \in Nat /\ ExistsBijection(1 .. n, S)
  BY FS_CardinalityType
<1> HIDE DEF n
<1>2. PICK f : f \in [1 .. n -> S] /\ \A x \in S : \E i \in 1 .. n : f[i] = x
  BY <1>1 DEF ExistsBijection, Bijection, Surjection
<1> DEFINE Bad == {k \in 0 .. n : ~ \E b \in Nat : \A i \in 1 .. k : f[i] <= b}
<1>3. Bad = {}
  <2> SUFFICES ASSUME Bad # {} PROVE FALSE
    OBVIOUS
  <2>1. PICK k \in Bad : \A j \in Bad : k <= j
    <3>1. Bad \in SUBSET Nat
      BY <1>1
    <3>. QED BY <3>1, SmallestIn
  <2>2. k \in 0 .. n /\ ~ \E b \in Nat : \A i \in 1 .. k : f[i] <= b
    OBVIOUS
  <2> HIDE DEF Bad
  <2>3. k \in Nat /\ k <= n /\ k # 0 /\ k - 1 \in 0 .. n
    <3>1. k = 0 => \A i \in 1 .. k : f[i] <= 0
      BY <2>2
    <3>. QED BY <1>1, <2>2, <3>1
  <2>4. k - 1 \notin Bad
    BY <2>1, <2>3
  <2>5. PICK b \in Nat : \A i \in 1 .. k - 1 : f[i] <= b
    BY <2>3, <2>4 DEF Bad
  <2>6. \A i \in 1 .. k : f[i] \in Nat
    <3>1. \A i \in 1 .. n : f[i] \in S
      BY <1>2
    <3>2. \A i \in 1 .. k : i \in 1 .. n
      BY <1>1, <2>3
    <3>. QED BY <3>1, <3>2
  <2>7. k \in 1 .. k
    BY <2>3
  <2> DEFINE d == IF b <= f[k] THEN f[k] ELSE b
  <2>8. d \in Nat /\ b <= d /\ f[k] <= d
    BY <2>6, <2>7
  <2> HIDE DEF d
  <2>9. ASSUME NEW i \in 1 .. k PROVE f[i] <= d
    <3>1. i = k \/ i \in 1 .. k - 1
      BY <2>3
    <3>2. f[i] \in Nat
      BY <2>6
    <3>. QED BY <3>1, <3>2, <2>5, <2>8
  <2>. QED BY <2>2, <2>8, <2>9
<1>4. n \in 0 .. n
  BY <1>1
<1>5. PICK b \in Nat : \A i \in 1 .. n : f[i] <= b
  BY <1>3, <1>4
<1>. QED BY <1>2, <1>5

LEMMA MaxIs ==
  ASSUME NEW S \in SUBSET Nat, IsFiniteSet(S), S # {}
  PROVE  Max(S) \in S /\ \A x \in S : x <= Max(S)
<1> DEFINE B == {b \in Nat : \A x \in S : x <= b}
<1>1. B \in SUBSET Nat /\ B # {}
  BY FiniteIsBounded
<1>2. PICK b \in B : \A c \in B : b <= c
  BY <1>1, SmallestIn
<1>3. b \in S
  <2> SUFFICES ASSUME b \notin S PROVE FALSE
    OBVIOUS
  <2>1. \A x \in S : x < b
    OBVIOUS
  <2>2. PICK y \in S : TRUE
    OBVIOUS
  <2>3. b \in Nat /\ y \in Nat /\ y < b
    BY <2>1
  <2>4. b - 1 \in Nat /\ \A x \in S : x <= b - 1
    BY <2>1, <2>3
  <2>5. b - 1 \in B
    BY <2>4
  <2>6. ~(b <= b - 1)
    BY <2>3
  <2>. QED BY <2>5, <2>6, <1>2
<1>4. \E m \in S : \A y \in S : m >= y
  BY <1>3
<1>. QED BY <1>4 DEF Max

(***************************************************************************)
(* Sequences.                                                              *)
(***************************************************************************)

LEMMA InsertIs ==
  ASSUME NEW S, NEW s \in Seq(S), NEW m \in S, NEW p \in 1 .. Len(s) + 1
  PROVE  /\ InsertAt(s, p, m) \in Seq(S)
         /\ Len(InsertAt(s, p, m)) = Len(s) + 1
         /\ DOMAIN InsertAt(s, p, m) = 1 .. Len(s) + 1
         /\ \A i \in 1 .. Len(s) + 1 :
              InsertAt(s, p, m)[i] = IF i < p THEN s[i] ELSE IF i = p THEN m ELSE s[i - 1]
<1> DEFINE a == SubSeq(s, 1, p - 1)
<1> DEFINE b == SubSeq(s, p, Len(s))
<1>0. Len(s) \in Nat /\ p \in Nat /\ p - 1 \in Int /\ \A i \in 1 .. Len(s) : s[i] \in S
  BY LenProperties
<1>1. a \in Seq(S) /\ Len(a) = p - 1 /\ \A i \in 1 .. p - 1 : a[i] = s[i]
  BY <1>0, SubSeqProperties
<1>2. b \in Seq(S) /\ Len(b) = Len(s) + 1 - p /\ \A i \in 1 .. Len(s) + 1 - p : b[i] = s[p + i - 1]
  BY <1>0, SubSeqProperties
<1> DEFINE c == a \o <<m>>
<1> HIDE DEF a, b
<1>3. c \in Seq(S) /\ Len(c) = p /\ \A i \in 1 .. p : c[i] = IF i < p THEN s[i] ELSE m
  BY <1>0, <1>1
<1> HIDE DEF c
<1>4. c \o b \in Seq(S) /\ Len(c \o b) = Len(s) + 1
  <2>1. c \in Seq(S) /\ b \in Seq(S) /\ Len(c) = p /\ Len(b) = Len(s) + 1 - p
    BY <1>2, <1>3
  <2>2. c \o b \in Seq(S) /\ Len(c \o b) = Len(c) + Len(b)
    BY <2>1, ConcatProperties
  <2>. QED BY <1>0, <2>1, <2>2
<1>5. ASSUME NEW i \in 1 .. Len(s) + 1
      PROVE  (c \o b)[i] = IF i < p THEN s[i] ELSE IF i = p THEN m ELSE s[i - 1]
  <2>1. (c \o b)[i] = IF i <= Len(c) THEN c[i] ELSE b[i - Len(c)]
    BY <1>0, <1>2, <1>3, ConcatProperties
  <2>. QED BY SMTT(30), <2>1, <1>0, <1>2, <1>3
<1>6. InsertAt(s, p, m) = c \o b
  BY DEF InsertAt, a, b, c
<1>7. DOMAIN (c \o b) = 1 .. Len(s) + 1
  BY <1>4, LenProperties
<1>. QED BY <1>4, <1>5, <1>6, <1>7

(* An append is an insertion at the end. *)
LEMMA AppendInserts ==
  ASSUME NEW S, NEW s \in Seq(S), NEW m \in S
  PROVE  Append(s, m) = InsertAt(s, Len(s) + 1, m)
<1>0. Len(s) + 1 \in 1 .. Len(s) + 1 /\ Len(s) \in Nat
  BY LenProperties
<1>1. /\ InsertAt(s, Len(s) + 1, m) \in Seq(S)
      /\ Len(InsertAt(s, Len(s) + 1, m)) = Len(s) + 1
      /\ \A i \in 1 .. Len(s) + 1 : InsertAt(s, Len(s) + 1, m)[i] = IF i < Len(s) + 1 THEN s[i] ELSE m
  <2> DEFINE n == Len(s) + 1
  <2>1. n = Len(s) + 1
    OBVIOUS
  <2> HIDE DEF n
  <2>2. /\ InsertAt(s, n, m) \in Seq(S) /\ Len(InsertAt(s, n, m)) = Len(s) + 1
        /\ \A i \in 1 .. Len(s) + 1 :
             InsertAt(s, n, m)[i] = IF i < n THEN s[i] ELSE IF i = n THEN m ELSE s[i - 1]
    BY <1>0, <2>1, InsertIs
  <2>3. \A i \in 1 .. Len(s) + 1 : i < n \/ i = n
    BY <1>0, <2>1
  <2>. QED BY <2>1, <2>2, <2>3
<1>2. /\ Append(s, m) \in Seq(S)
      /\ Len(Append(s, m)) = Len(s) + 1
      /\ \A i \in 1 .. Len(s) + 1 : Append(s, m)[i] = IF i < Len(s) + 1 THEN s[i] ELSE m
  BY <1>0, AppendProperties
<1>. QED BY <1>0, <1>1, <1>2, SeqEqual

(***************************************************************************)
(* The messages.  Every operation changes them in three ways: locations    *)
(* are retired, a message with a new id is inserted, a thread gets a view. *)
(***************************************************************************)

MsgsTyped(ms) == ms = [k \in Loc |-> ms[k]] /\ \A l \in Loc : ms[l] \in Seq(Message(l))

IdsBelow(ms, nx) == \A l \in Loc : \A p \in DOMAIN ms[l] : ms[l][p].id < nx

(* An id names one message. *)
IdsApart(ms) ==
  \A k, l \in Loc : \A p \in DOMAIN ms[k], q \in DOMAIN ms[l] :
    ms[k][p].id = ms[l][q].id => k = l /\ p = q

LiveApart(ms) == \A k, l \in Loc : ms[k] # <<>> /\ ms[l] # <<>> /\ k # l => k \cap l = {}

ViewsLive(ms, sn) ==
  \A t \in Thread, l \in Loc :
    sn[t][l] # 0 => \E p \in DOMAIN ms[l] : ms[l][p].id = sn[t][l]

MsgsOK(ms, sn, nx) ==
  /\ MsgsTyped(ms)
  /\ sn \in [Thread -> [Loc -> Nat]]
  /\ nx \in Nat \ {0}
  /\ IdsBelow(ms, nx)
  /\ IdsApart(ms)
  /\ LiveApart(ms)
  /\ ViewsLive(ms, sn)

Hit(ms, l) == {k \in Loc \ {l} : ms[k] # <<>> /\ k \cap l # {}}
Retired(ms, l) == [k \in Loc |-> IF k \in Hit(ms, l) THEN <<>> ELSE ms[k]]
ViewsRetired(ms, sn, l) ==
  [t \in Thread |-> [k \in Loc |-> IF k \in Hit(ms, l) THEN 0 ELSE sn[t][k]]]

(* The location l can be live with the others. *)
Clear(ms, l) == \A k \in Loc : k # l /\ ms[k] # <<>> => k \cap l = {}

LEMMA MsgOf ==
  ASSUME NEW ms, MsgsTyped(ms), NEW l \in Loc
  PROVE  /\ Len(ms[l]) \in Nat /\ DOMAIN ms[l] = 1 .. Len(ms[l])
         /\ \A p \in DOMAIN ms[l] : ms[l][p] \in Message(l)
         /\ ms[l] # <<>> <=> Len(ms[l]) > 0
<1>1. ms[l] \in Seq(Message(l))
  BY DEF MsgsTyped
<1>2. Len(ms[l]) \in Nat /\ DOMAIN ms[l] = 1 .. Len(ms[l])
  BY <1>1, LenProperties
<1>3. \A p \in 1 .. Len(ms[l]) : ms[l][p] \in Message(l)
  BY <1>1, ElementOfSeq
<1>4. ms[l] # <<>> <=> Len(ms[l]) > 0
  BY <1>1, EmptySeq
<1>. QED BY <1>2, <1>3, <1>4

LEMMA RetireKeeps ==
  ASSUME NEW ms, NEW sn, NEW nx, MsgsOK(ms, sn, nx), NEW l \in Loc, ms[l] = <<>>
  PROVE  /\ MsgsOK(Retired(ms, l), ViewsRetired(ms, sn, l), nx)
         /\ Clear(Retired(ms, l), l)
         /\ Retired(ms, l)[l] = <<>>
<1> DEFINE rs == Retired(ms, l)
<1> DEFINE rn == ViewsRetired(ms, sn, l)
<1>1. rs = [k \in Loc |-> IF k \in Hit(ms, l) THEN <<>> ELSE ms[k]]
  BY DEF Retired
<1>2. \A k \in Loc : rs[k] = IF k \in Hit(ms, l) THEN <<>> ELSE ms[k]
  BY <1>1
<1>3. \A t \in Thread, k \in Loc : rn[t][k] = IF k \in Hit(ms, l) THEN 0 ELSE sn[t][k]
  BY DEF ViewsRetired
<1>4. DOMAIN <<>> = {} /\ \A S : <<>> \in Seq(S)
  OBVIOUS
<1>5. rn \in [Thread -> [Loc -> Nat]]
  BY DEF ViewsRetired, MsgsOK
<1>6. rs = [k \in Loc |-> rs[k]]
  BY <1>1, <1>2
<1> HIDE DEF rs, rn
<1>7. MsgsTyped(rs)
  BY <1>2, <1>4, <1>6 DEF MsgsTyped, MsgsOK
<1>8. IdsBelow(rs, nx) /\ IdsApart(rs)
  <2>1. \A k \in Loc : \A p \in DOMAIN rs[k] : p \in DOMAIN ms[k] /\ rs[k] = ms[k]
    BY <1>2, <1>4
  <2>. QED BY <2>1 DEF IdsBelow, IdsApart, MsgsOK
<1>9. LiveApart(rs)
  BY <1>2 DEF LiveApart, MsgsOK
<1>10. ViewsLive(rs, rn)
  <2> SUFFICES ASSUME NEW t \in Thread, NEW k \in Loc, rn[t][k] # 0
               PROVE  \E p \in DOMAIN rs[k] : rs[k][p].id = rn[t][k]
    BY DEF ViewsLive
  <2>1. k \notin Hit(ms, l) /\ rn[t][k] = sn[t][k] /\ rs[k] = ms[k]
    BY <1>2, <1>3
  <2>. QED BY <2>1 DEF ViewsLive, MsgsOK
<1>11. Clear(rs, l)
  BY <1>2 DEF Clear, Hit
<1>12. rs[l] = <<>>
  BY <1>2
<1>13. MsgsOK(rs, rn, nx)
  BY <1>5, <1>7, <1>8, <1>9, <1>10 DEF MsgsOK
<1>. QED BY <1>11, <1>12, <1>13 DEF rs, rn

(* Where the messages of a location are after an insertion. *)
Inserted(ms, is, l, m, p) ==
  /\ MsgsTyped(is)
  /\ \A k \in Loc : k # l => is[k] = ms[k]
  /\ DOMAIN is[l] = 1 .. Len(ms[l]) + 1 /\ Len(is[l]) = Len(ms[l]) + 1
  /\ is[l] # <<>> /\ p \in DOMAIN is[l] /\ is[l][p] = m
  /\ \A q \in DOMAIN ms[l] : q < p => q \in DOMAIN is[l] /\ is[l][q] = ms[l][q]
  /\ \A q \in DOMAIN ms[l] : q >= p => q + 1 \in DOMAIN is[l] /\ is[l][q + 1] = ms[l][q]
  /\ \A q \in DOMAIN is[l] :
       \/ q < p /\ q \in DOMAIN ms[l] /\ is[l][q] = ms[l][q]
       \/ q = p /\ is[l][q] = m
       \/ q > p /\ q - 1 \in DOMAIN ms[l] /\ is[l][q] = ms[l][q - 1]

LEMMA InsertPlaces ==
  ASSUME NEW ms, MsgsTyped(ms), NEW l \in Loc, NEW m \in Message(l),
         NEW p \in 1 .. Len(ms[l]) + 1
  PROVE  Inserted(ms, [ms EXCEPT ![l] = InsertAt(ms[l], p, m)], l, m, p)
<1> DEFINE is == [ms EXCEPT ![l] = InsertAt(ms[l], p, m)]
<1>0. is = [ms EXCEPT ![l] = InsertAt(ms[l], p, m)]
  OBVIOUS
<1> HIDE DEF is
<1>1. ms[l] \in Seq(Message(l)) /\ ms = [k \in Loc |-> ms[k]]
  BY DEF MsgsTyped
<1>2. is[l] = InsertAt(ms[l], p, m) /\ \A k \in Loc : k # l => is[k] = ms[k]
  BY <1>0, <1>1
<1>3. /\ is[l] \in Seq(Message(l)) /\ Len(is[l]) = Len(ms[l]) + 1
      /\ DOMAIN is[l] = 1 .. Len(ms[l]) + 1
      /\ \A i \in 1 .. Len(ms[l]) + 1 :
           is[l][i] = IF i < p THEN ms[l][i] ELSE IF i = p THEN m ELSE ms[l][i - 1]
  <2> DEFINE s == ms[l]
  <2>1. s \in Seq(Message(l)) /\ p \in 1 .. Len(s) + 1 /\ is[l] = InsertAt(s, p, m)
    BY <1>1, <1>2
  <2> HIDE DEF s
  <2>2. /\ InsertAt(s, p, m) \in Seq(Message(l)) /\ Len(InsertAt(s, p, m)) = Len(s) + 1
        /\ DOMAIN InsertAt(s, p, m) = 1 .. Len(s) + 1
        /\ \A i \in 1 .. Len(s) + 1 :
             InsertAt(s, p, m)[i] = IF i < p THEN s[i] ELSE IF i = p THEN m ELSE s[i - 1]
    BY <2>1, InsertIs
  <2>. QED BY <2>1, <2>2 DEF s
<1>4. is = [k \in Loc |-> is[k]]
  BY <1>0, <1>1
<1>5. MsgsTyped(is)
  BY <1>2, <1>3, <1>4 DEF MsgsTyped
<1>6. Len(ms[l]) \in Nat /\ DOMAIN ms[l] = 1 .. Len(ms[l]) /\ p \in Nat
  BY <1>1, LenProperties
<1>7. is[l] # <<>>
  BY <1>3, <1>6
<1>8. \A q \in DOMAIN is[l] :
        \/ q < p /\ q \in DOMAIN ms[l] /\ is[l][q] = ms[l][q]
        \/ q = p /\ is[l][q] = m
        \/ q > p /\ q - 1 \in DOMAIN ms[l] /\ is[l][q] = ms[l][q - 1]
  <2> TAKE q \in DOMAIN is[l]
  <2>1. q \in Nat /\ q >= 1 /\ q <= Len(ms[l]) + 1 /\ p <= Len(ms[l]) + 1 /\ p >= 1
    BY <1>3, <1>6
  <2>2. is[l][q] = IF q < p THEN ms[l][q] ELSE IF q = p THEN m ELSE ms[l][q - 1]
    BY <1>3
  <2>3. q < p => q \in DOMAIN ms[l]
    BY <2>1, <1>6
  <2>4. q > p => q - 1 \in DOMAIN ms[l]
    BY <2>1, <1>6
  <2>5. q < p \/ q = p \/ q > p
    BY <2>1, <1>6
  <2>. QED BY <2>2, <2>3, <2>4, <2>5, <2>1, <1>6
<1>9. \A q \in DOMAIN ms[l] : q < p => q \in DOMAIN is[l] /\ is[l][q] = ms[l][q]
  BY <1>3, <1>6
<1>10. \A q \in DOMAIN ms[l] : q >= p => q + 1 \in DOMAIN is[l] /\ is[l][q + 1] = ms[l][q]
  <2> TAKE q \in DOMAIN ms[l]
  <2> HAVE q >= p
  <2>1. q + 1 \in 1 .. Len(ms[l]) + 1 /\ ~(q + 1 < p) /\ q + 1 # p /\ (q + 1) - 1 = q
    BY <1>6
  <2>. QED BY <2>1, <1>3
<1>11. p \in DOMAIN is[l] /\ is[l][p] = m
  BY <1>3, <1>6
<1>12. Inserted(ms, is, l, m, p)
  BY <1>2, <1>3, <1>5, <1>7, <1>8, <1>9, <1>10, <1>11 DEF Inserted
<1>. QED BY <1>0, <1>12

LEMMA InsertKeeps ==
  ASSUME NEW ms, NEW sn, NEW nx, MsgsOK(ms, sn, nx), NEW l \in Loc, Clear(ms, l),
         NEW m \in Message(l), m.id = nx, NEW p \in 1 .. Len(ms[l]) + 1
  PROVE  MsgsOK([ms EXCEPT ![l] = InsertAt(ms[l], p, m)], sn, nx + 1)
<1> DEFINE is == [ms EXCEPT ![l] = InsertAt(ms[l], p, m)]
<1>0. /\ MsgsTyped(ms) /\ nx \in Nat /\ nx + 1 \in Nat \ {0} /\ IdsBelow(ms, nx) /\ IdsApart(ms)
      /\ \A k \in Loc : \A q \in DOMAIN ms[k] : ms[k][q].id \in Nat /\ ms[k][q].id < nx /\ q \in Nat
  <2>1. MsgsTyped(ms) /\ nx \in Nat /\ IdsBelow(ms, nx) /\ IdsApart(ms)
    BY DEF MsgsOK
  <2>2. ASSUME NEW k \in Loc, NEW q \in DOMAIN ms[k]
        PROVE  ms[k][q].id \in Nat /\ ms[k][q].id < nx /\ q \in Nat
    <3>1. ms[k][q] \in Message(k) /\ q \in Nat
      BY <2>1, MsgOf
    <3>. QED BY <3>1, <2>1 DEF Message, IdsBelow
  <2>. QED BY <2>1, <2>2
<1>1. is = [ms EXCEPT ![l] = InsertAt(ms[l], p, m)]
  OBVIOUS
<1> HIDE DEF is
<1>2. /\ MsgsTyped(is)
      /\ \A k \in Loc : k # l => is[k] = ms[k]
      /\ DOMAIN is[l] = 1 .. Len(ms[l]) + 1
      /\ is[l] # <<>> /\ p \in DOMAIN is[l] /\ is[l][p] = m
      /\ \A q \in DOMAIN ms[l] : q < p => q \in DOMAIN is[l] /\ is[l][q] = ms[l][q]
      /\ \A q \in DOMAIN ms[l] : q >= p => q + 1 \in DOMAIN is[l] /\ is[l][q + 1] = ms[l][q]
      /\ \A q \in DOMAIN is[l] :
           \/ q < p /\ q \in DOMAIN ms[l] /\ is[l][q] = ms[l][q]
           \/ q = p /\ is[l][q] = m
           \/ q > p /\ q - 1 \in DOMAIN ms[l] /\ is[l][q] = ms[l][q - 1]
  <2>1. MsgsTyped(ms)
    BY <1>0
  <2>2. Inserted(ms, is, l, m, p)
    BY <2>1, <1>1, InsertPlaces
  <2>. QED BY <2>2 DEF Inserted
<1>3. ASSUME NEW k \in Loc, NEW q \in DOMAIN is[k]
      PROVE  \/ k = l /\ q = p /\ is[k][q].id = nx
             \/ \E r \in DOMAIN ms[k] :
                  /\ is[k][q].id = ms[k][r].id
                  /\ ~(k = l /\ q = p)
                  /\ k # l => q = r
                  /\ k = l => q = IF r < p THEN r ELSE r + 1
  <2>1. CASE k # l
    BY <2>1, <1>2
  <2>2. CASE k = l /\ q < p
    BY <2>2, <1>2
  <2>3. CASE k = l /\ q = p
    BY <2>3, <1>2
  <2>4. CASE k = l /\ q > p
    <3>1. q - 1 \in DOMAIN ms[l] /\ is[l][q] = ms[l][q - 1] /\ q - 1 \in Nat /\ p \in Nat /\ q \in Nat
      <4>1. q - 1 \in DOMAIN ms[l] /\ is[l][q] = ms[l][q - 1] /\ p \in Nat /\ q \in Nat
        BY <2>4, <1>2
      <4>. QED BY <4>1, <1>0
    <3>2. ~(q - 1 < p) /\ (q - 1) + 1 = q
      BY <3>1, <2>4
    <3>. QED BY <3>1, <3>2, <2>4
  <2>5. q < p \/ q = p \/ q > p \/ k # l
    BY <1>2
  <2>. QED BY <2>1, <2>2, <2>3, <2>4, <2>5
<1>4. IdsBelow(is, nx + 1)
  <2> SUFFICES ASSUME NEW k \in Loc, NEW q \in DOMAIN is[k] PROVE is[k][q].id < nx + 1
    BY DEF IdsBelow
  <2>. QED BY <1>0, <1>3
<1>5. IdsApart(is)
  <2> SUFFICES ASSUME NEW j \in Loc, NEW k \in Loc, NEW q \in DOMAIN is[j], NEW r \in DOMAIN is[k],
                      is[j][q].id = is[k][r].id
               PROVE  j = k /\ q = r
    BY DEF IdsApart
  <2>1. CASE j = l /\ q = p /\ is[j][q].id = nx
    BY <2>1, <1>0, <1>3
  <2>2. CASE k = l /\ r = p /\ is[k][r].id = nx
    BY <2>2, <1>0, <1>3
  <2>3. CASE ~(j = l /\ q = p) /\ ~(k = l /\ r = p)
    <3>1. PICK a \in DOMAIN ms[j] :
            /\ is[j][q].id = ms[j][a].id
            /\ j # l => q = a
            /\ j = l => q = IF a < p THEN a ELSE a + 1
      BY <1>3, <2>3
    <3>2. PICK b \in DOMAIN ms[k] :
            /\ is[k][r].id = ms[k][b].id
            /\ k # l => r = b
            /\ k = l => r = IF b < p THEN b ELSE b + 1
      BY <1>3, <2>3
    <3>3. ms[j][a].id = ms[k][b].id
      BY <3>1, <3>2
    <3>4. j = k /\ a = b
      BY <3>3, <1>0 DEF IdsApart
    <3>5. a \in Nat /\ p \in Nat
      BY <1>0
    <3>. QED BY <3>1, <3>2, <3>4, <3>5
  <2>. QED BY <2>1, <2>2, <2>3, <1>3
<1>6. LiveApart(is)
  BY <1>2 DEF LiveApart, Clear, MsgsOK
<1>7. ViewsLive(is, sn)
  <2> SUFFICES ASSUME NEW t \in Thread, NEW k \in Loc, sn[t][k] # 0
               PROVE  \E q \in DOMAIN is[k] : is[k][q].id = sn[t][k]
    BY DEF ViewsLive
  <2>1. PICK q \in DOMAIN ms[k] : ms[k][q].id = sn[t][k]
    BY DEF ViewsLive, MsgsOK
  <2>2. q \in Nat /\ p \in Nat
    BY <1>0
  <2>. QED BY <2>1, <2>2, <1>2
<1>8. MsgsOK(is, sn, nx + 1)
  BY <1>0, <1>2, <1>4, <1>5, <1>6, <1>7 DEF MsgsOK
<1>. QED BY <1>1, <1>8

LEMMA ViewKeeps ==
  ASSUME NEW ms, NEW sn, NEW nx, MsgsOK(ms, sn, nx), NEW t \in Thread, NEW l \in Loc,
         NEW p \in DOMAIN ms[l]
  PROVE  MsgsOK(ms, [sn EXCEPT ![t][l] = ms[l][p].id], nx)
<1> DEFINE sv == [sn EXCEPT ![t][l] = ms[l][p].id]
<1>1. ms[l][p].id \in Nat
  <2>1. ms[l][p] \in Message(l)
    BY MsgOf DEF MsgsOK
  <2>. QED BY <2>1 DEF Message
<1>2. sn \in [Thread -> [Loc -> Nat]]
  BY DEF MsgsOK
<1>3. sv \in [Thread -> [Loc -> Nat]]
  BY <1>1, <1>2
<1>4. \A u \in Thread, k \in Loc : sv[u][k] = IF u = t /\ k = l THEN ms[l][p].id ELSE sn[u][k]
  BY <1>2
<1> HIDE DEF sv
<1>5. ViewsLive(ms, sv)
  BY <1>4 DEF ViewsLive, MsgsOK
<1>6. MsgsOK(ms, sv, nx)
  BY <1>3, <1>5 DEF MsgsOK
<1>. QED BY <1>6 DEF sv

(***************************************************************************)
(* Finding a location.                                                     *)
(***************************************************************************)

LEMMA EntryTyped ==
  ASSUME TypeOK, NEW e \in footprint
  PROVE  e.tid \in Thread /\ e.clock \in Clock /\ e.loc \in Loc /\ e.kind \in AccessKind
BY DEF TypeOK

LEMMA PlainClockIs ==
  ASSUME TypeOK, IsFiniteSet(footprint), NEW l \in Loc
  PROVE  /\ PlainClock(l) \in Clock
         /\ \A e \in PlainWrites(l) : ClockLe(e.clock, PlainClock(l))
         /\ \A t \in Thread :
              PlainClock(l)[t] # 0 => \E e \in PlainWrites(l) : PlainClock(l)[t] = e.clock[t]
<1> DEFINE E == PlainWrites(l)
<1>1. IsFiniteSet(E) /\ \A e \in E : e.clock \in Clock
  <2>1. E \in SUBSET footprint
    BY DEF PlainWrites
  <2>. QED BY <2>1, EntryTyped, FS_Subset
<1> HIDE DEF E
<1> DEFINE N(t) == {0} \cup {e.clock[t] : e \in E}
<1>2. ASSUME NEW t \in Thread
      PROVE  /\ Max(N(t)) \in Nat
             /\ \A e \in E : e.clock[t] <= Max(N(t))
             /\ Max(N(t)) # 0 => \E e \in E : Max(N(t)) = e.clock[t]
  <2>1. N(t) \in SUBSET Nat /\ N(t) # {}
    BY <1>1 DEF Clock
  <2>2. IsFiniteSet(N(t))
    <3> DEFINE T == {e.clock[t] : e \in E}
    <3> DEFINE f == [e \in E |-> e.clock[t]]
    <3>1. f \in Surjection(E, T)
      BY DEF Surjection
    <3>2. IsFiniteSet(T)
      BY <3>1, <1>1, FS_Surjection
    <3>3. IsFiniteSet({0})
      BY FS_Singleton
    <3> HIDE DEF T
    <3>4. IsFiniteSet({0} \cup T)
      BY <3>2, <3>3, FS_Union
    <3>. QED BY <3>4 DEF T
  <2> DEFINE M == N(t)
  <2>3. M = N(t)
    OBVIOUS
  <2> HIDE DEF M
  <2>4. Max(M) \in M /\ \A x \in M : x <= Max(M)
    BY <2>1, <2>2, <2>3, MaxIs
  <2>. QED BY <2>1, <2>3, <2>4
<1>3. PlainClock(l) = [t \in Thread |-> Max(N(t))]
  BY DEF PlainClock, E
<1> HIDE DEF N
<1>4. PlainClock(l) \in Clock /\ \A t \in Thread : PlainClock(l)[t] = Max(N(t))
  BY <1>2, <1>3 DEF Clock
<1>. QED BY <1>2, <1>4 DEF ClockLe, E

LEMMA PlainMsgIs ==
  ASSUME TypeOK, IsFiniteSet(footprint), NEW l \in Loc
  PROVE  /\ PlainMsg(l) \in Message(l)
         /\ PlainMsg(l).id = nextMsg /\ PlainMsg(l).val = [b \in l |-> bytes[b]]
         /\ PlainMsg(l).clock = PlainClock(l) /\ PlainMsg(l).rel = ZeroClock
         /\ PlainMsg(l).rmwOf = 0
<1>1. [b \in l |-> bytes[b]] \in [l -> program.vals]
  BY DEF TypeOK, Byte
<1>2. PlainClock(l) \in Clock /\ ZeroClock \in Clock /\ nextMsg \in Nat \ {0}
  BY PlainClockIs, ZeroLe DEF TypeOK
<1>. QED BY <1>1, <1>2 DEF PlainMsg, Message

(* Finding a location makes it live, retires those it overlaps, and ends   *)
(* with a message of the bytes if memory may differ from the last one.     *)
LEMMA LocatedIs ==
  ASSUME TypeOK, IsFiniteSet(footprint), MsgsOK(msgs, seen, nextMsg), NEW l \in Loc
  PROVE  \/ /\ msgs[l] = <<>>
            /\ Located(l) = [Retired(msgs, l) EXCEPT ![l] = InsertAt(Retired(msgs, l)[l], 1, PlainMsg(l))]
            /\ SeenAfter(l) = ViewsRetired(msgs, seen, l)
            /\ NextId(l) = nextMsg + 1
            /\ Len(Retired(msgs, l)[l]) = 0
         \/ /\ msgs[l] # <<>> /\ Stale(l)
            /\ Located(l) = [msgs EXCEPT ![l] = InsertAt(msgs[l], Len(msgs[l]) + 1, PlainMsg(l))]
            /\ SeenAfter(l) = seen
            /\ NextId(l) = nextMsg + 1
         \/ /\ msgs[l] # <<>> /\ ~Stale(l)
            /\ Located(l) = msgs /\ SeenAfter(l) = seen /\ NextId(l) = nextMsg
<1>1. CASE msgs[l] = <<>>
  <2>1. Hit(msgs, l) = Overlapping(l)
    BY DEF Hit, Overlapping
  <2>2. SeenAfter(l) = ViewsRetired(msgs, seen, l) /\ NextId(l) = nextMsg + 1
    BY <1>1, <2>1 DEF SeenAfter, ViewsRetired, NextId
  <2> DEFINE rs == Retired(msgs, l)
  <2>3. rs = [k \in Loc |-> IF k \in Overlapping(l) THEN <<>> ELSE msgs[k]] /\ rs[l] = <<>>
    BY <1>1, <2>1 DEF Retired
  <2>4. Len(rs[l]) = 0
    BY <2>3
  <2>5. InsertAt(rs[l], 1, PlainMsg(l)) = <<PlainMsg(l)>>
    <3>1. <<>> \in Seq(Message(l)) /\ PlainMsg(l) \in Message(l) /\ Len(<<>>) + 1 = 1
      <4>1. PlainMsg(l) \in Message(l)
        BY PlainMsgIs
      <4>2. <<>> \in Seq(Message(l)) /\ Len(<<>>) = 0
        BY EmptySeq
      <4>. QED BY <4>1, <4>2
    <3>2. Append(<<>>, PlainMsg(l)) = InsertAt(<<>>, Len(<<>>) + 1, PlainMsg(l))
      BY <3>1, AppendInserts
    <3>3. Append(<<>>, PlainMsg(l)) = <<PlainMsg(l)>>
      OBVIOUS
    <3>. QED BY <2>3, <3>1, <3>2, <3>3
  <2>6. Located(l) = [k \in Loc |-> IF k = l THEN <<PlainMsg(l)>>
                                    ELSE IF k \in Overlapping(l) THEN <<>> ELSE msgs[k]]
    BY <1>1 DEF Located
  <2>7. Located(l) = [rs EXCEPT ![l] = <<PlainMsg(l)>>]
    BY <2>3, <2>6
  <2>. QED BY <1>1, <2>2, <2>4, <2>5, <2>7
<1>2. CASE msgs[l] # <<>> /\ Stale(l)
  <2>1. msgs[l] \in Seq(Message(l)) /\ PlainMsg(l) \in Message(l)
    BY PlainMsgIs DEF MsgsOK, MsgsTyped
  <2>2. Append(msgs[l], PlainMsg(l)) = InsertAt(msgs[l], Len(msgs[l]) + 1, PlainMsg(l))
    BY <2>1, AppendInserts
  <2>3. Located(l) = [msgs EXCEPT ![l] = Append(msgs[l], PlainMsg(l))]
    BY <1>2 DEF Located
  <2>. QED BY <1>2, <2>2, <2>3 DEF SeenAfter, NextId
<1>3. CASE msgs[l] # <<>> /\ ~Stale(l)
  BY <1>3 DEF Located, SeenAfter, NextId
<1>. QED BY <1>1, <1>2, <1>3

LEMMA LocatedKeeps ==
  ASSUME TypeOK, IsFiniteSet(footprint), MsgsOK(msgs, seen, nextMsg), NEW l \in Loc
  PROVE  /\ MsgsOK(Located(l), SeenAfter(l), NextId(l))
         /\ Located(l)[l] # <<>>
         /\ Clear(Located(l), l)
<1>0. /\ nextMsg \in Nat \ {0} /\ PlainMsg(l) \in Message(l) /\ PlainMsg(l).id = nextMsg
      /\ MsgsTyped(msgs) /\ Len(msgs[l]) \in Nat
  BY PlainMsgIs, MsgOf DEF MsgsOK
<1>1. CASE msgs[l] = <<>>
  <2> DEFINE rs == Retired(msgs, l)
  <2> DEFINE rn == ViewsRetired(msgs, seen, l)
  <2>1. MsgsOK(rs, rn, nextMsg) /\ Clear(rs, l) /\ rs[l] = <<>>
    BY <1>1, RetireKeeps
  <2>2. /\ Located(l) = [rs EXCEPT ![l] = InsertAt(rs[l], 1, PlainMsg(l))]
        /\ SeenAfter(l) = rn /\ NextId(l) = nextMsg + 1 /\ Len(rs[l]) = 0
    BY <1>1, LocatedIs
  <2> HIDE DEF rs, rn
  <2>3. 1 \in 1 .. Len(rs[l]) + 1 /\ MsgsTyped(rs)
    BY <2>1, <2>2 DEF MsgsOK
  <2>4. MsgsOK(Located(l), SeenAfter(l), NextId(l))
    <3>1. MsgsOK([rs EXCEPT ![l] = InsertAt(rs[l], 1, PlainMsg(l))], rn, nextMsg + 1)
      BY <2>1, <2>3, <1>0, InsertKeeps
    <3>. QED BY <3>1, <2>2
  <2>5. Inserted(rs, Located(l), l, PlainMsg(l), 1)
    <3>1. Inserted(rs, [rs EXCEPT ![l] = InsertAt(rs[l], 1, PlainMsg(l))], l, PlainMsg(l), 1)
      BY <2>3, <1>0, InsertPlaces
    <3>. QED BY <3>1, <2>2
  <2>6. Located(l)[l] # <<>> /\ \A k \in Loc : k # l => Located(l)[k] = rs[k]
    BY <2>5 DEF Inserted
  <2>. QED BY <2>1, <2>4, <2>6 DEF Clear
<1>2. CASE msgs[l] # <<>>
  <2>1. Clear(msgs, l)
    BY <1>2 DEF MsgsOK, LiveApart, Clear
  <2>2. CASE Stale(l)
    <3> DEFINE p == Len(msgs[l]) + 1
    <3>1. p \in 1 .. Len(msgs[l]) + 1
      BY <1>0
    <3>2. /\ Located(l) = [msgs EXCEPT ![l] = InsertAt(msgs[l], p, PlainMsg(l))]
          /\ SeenAfter(l) = seen /\ NextId(l) = nextMsg + 1
      BY <1>2, <2>2, LocatedIs
    <3> HIDE DEF p
    <3>3. MsgsOK(Located(l), SeenAfter(l), NextId(l))
      <4>1. MsgsOK([msgs EXCEPT ![l] = InsertAt(msgs[l], p, PlainMsg(l))], seen, nextMsg + 1)
        BY <2>1, <3>1, <1>0, InsertKeeps
      <4>. QED BY <4>1, <3>2
    <3>4. Inserted(msgs, Located(l), l, PlainMsg(l), p)
      <4>1. Inserted(msgs, [msgs EXCEPT ![l] = InsertAt(msgs[l], p, PlainMsg(l))], l, PlainMsg(l), p)
        BY <3>1, <1>0, InsertPlaces
      <4>. QED BY <4>1, <3>2
    <3>5. Located(l)[l] # <<>> /\ \A k \in Loc : k # l => Located(l)[k] = msgs[k]
      BY <3>4 DEF Inserted
    <3>. QED BY <2>1, <3>3, <3>5 DEF Clear
  <2>3. CASE ~Stale(l)
    <3>1. Located(l) = msgs /\ SeenAfter(l) = seen /\ NextId(l) = nextMsg
      BY <1>2, <2>3, LocatedIs
    <3>. QED BY <1>2, <2>1, <3>1
  <2>. QED BY <2>2, <2>3
<1>. QED BY <1>1, <1>2

(* The oldest message that a thread can read.                              *)
LEMMA FloorIs ==
  ASSUME NEW S, NEW ms \in Seq(S), ms # <<>>, NEW t, NEW c, NEW l
  PROVE  /\ Floor(ms, t, c, l) \in 1 .. Len(ms)
         /\ \A p \in 1 .. Len(ms) :
              ClockLe(ms[p].clock, c) \/ ms[p].id = seen[t][l] => p <= Floor(ms, t, c, l)
         /\ \/ Floor(ms, t, c, l) = 1
            \/ ClockLe(ms[Floor(ms, t, c, l)].clock, c)
            \/ ms[Floor(ms, t, c, l)].id = seen[t][l]
<1> DEFINE F == {1} \cup {p \in DOMAIN ms : ClockLe(ms[p].clock, c) \/ ms[p].id = seen[t][l]}
<1>1. Len(ms) \in Nat /\ Len(ms) > 0 /\ DOMAIN ms = 1 .. Len(ms)
  BY LenProperties, EmptySeq
<1>2. F \in SUBSET (1 .. Len(ms)) /\ F # {} /\ F \in SUBSET Nat
  BY <1>1
<1>3. IsFiniteSet(F)
  <2>1. IsFiniteSet(1 .. Len(ms))
    BY <1>1, FS_Interval
  <2> HIDE DEF F
  <2>. QED BY <2>1, <1>2, FS_Subset
<1>4. Floor(ms, t, c, l) = Max(F)
  BY DEF Floor
<1>5. Max(F) \in F /\ \A x \in F : x <= Max(F)
  <2> HIDE DEF F
  <2>. QED BY <1>2, <1>3, MaxIs
<1>6. Max(F) \in 1 .. Len(ms)
  BY <1>2, <1>5
<1>. QED BY <1>1, <1>4, <1>5, <1>6

(* Where the messages are once a location is found: the others are as they *)
(* were or retired, its own stay in place, and at most one comes last.     *)
LocatedAt(l) ==
  LET ls == Located(l)
      n  == Len(ls[l])
  IN  /\ \A k \in Loc : k # l => ls[k] = <<>> \/ ls[k] = msgs[k]
      /\ n \in Nat /\ DOMAIN ls[l] = 1 .. n /\ n \in DOMAIN ls[l]
      /\ \A q \in DOMAIN msgs[l] : q \in DOMAIN ls[l] /\ ls[l][q] = msgs[l][q]
      /\ \A q \in DOMAIN ls[l] :
           \/ q \in DOMAIN msgs[l]
           \/ q = n /\ ls[l][q] = PlainMsg(l) /\ NextId(l) = nextMsg + 1
      /\ \A e \in PlainWrites(l) : ClockLe(e.clock, ls[l][n].clock)
      /\ ls[l][n].val = [b \in l |-> bytes[b]]
      /\ NextId(l) = nextMsg \/ NextId(l) = nextMsg + 1
      /\ \A t \in Thread, k \in Loc : SeenAfter(l)[t][k] = seen[t][k] \/ SeenAfter(l)[t][k] = 0
      /\ \A t \in Thread, k \in Loc : SeenAfter(l)[t][k] # seen[t][k] => ls[k] = <<>>
      /\ \A k \in Loc : k # l /\ ls[k] # <<>> => k \cap l = {}

LEMMA LocatedPlaces ==
  ASSUME TypeOK, IsFiniteSet(footprint), MsgsOK(msgs, seen, nextMsg), NEW l \in Loc
  PROVE  LocatedAt(l)
<1> DEFINE ls == Located(l)
<1> DEFINE n == Len(ls[l])
<1>0. /\ PlainMsg(l) \in Message(l) /\ PlainMsg(l).id = nextMsg
      /\ PlainMsg(l).val = [b \in l |-> bytes[b]] /\ PlainMsg(l).clock = PlainClock(l)
      /\ MsgsTyped(msgs) /\ Len(msgs[l]) \in Nat /\ DOMAIN msgs[l] = 1 .. Len(msgs[l])
      /\ msgs[l] # <<>> <=> Len(msgs[l]) > 0
  <2>1. MsgsTyped(msgs)
    BY DEF MsgsOK
  <2>. QED BY <2>1, PlainMsgIs, MsgOf
<1>1. MsgsOK(ls, SeenAfter(l), NextId(l)) /\ ls[l] # <<>> /\ Clear(ls, l)
  BY LocatedKeeps
<1>2. n \in Nat /\ DOMAIN ls[l] = 1 .. n /\ n \in DOMAIN ls[l]
  <2>1. Len(ls[l]) \in Nat /\ DOMAIN ls[l] = 1 .. Len(ls[l]) /\ Len(ls[l]) > 0
    BY <1>1, MsgOf DEF MsgsOK
  <2>. QED BY <2>1
<1>3. \A k \in Loc : k # l /\ ls[k] # <<>> => k \cap l = {}
  BY <1>1 DEF Clear
<1>4. \A e \in PlainWrites(l) : ClockLe(e.clock, PlainClock(l))
  BY PlainClockIs
<1>5. CASE msgs[l] = <<>>
  <2> DEFINE rs == Retired(msgs, l)
  <2>1. /\ ls = [rs EXCEPT ![l] = InsertAt(rs[l], 1, PlainMsg(l))]
        /\ SeenAfter(l) = ViewsRetired(msgs, seen, l)
        /\ NextId(l) = nextMsg + 1 /\ Len(rs[l]) = 0
    BY <1>5, LocatedIs
  <2>2. MsgsTyped(rs) /\ rs[l] = <<>>
    BY <1>5, RetireKeeps DEF MsgsOK
  <2>3. Inserted(rs, ls, l, PlainMsg(l), 1)
    <3>1. 1 \in 1 .. Len(rs[l]) + 1
      BY <2>1
    <3> HIDE DEF rs, ls
    <3>2. Inserted(rs, [rs EXCEPT ![l] = InsertAt(rs[l], 1, PlainMsg(l))], l, PlainMsg(l), 1)
      BY <2>2, <3>1, <1>0, InsertPlaces
    <3>. QED BY <3>2, <2>1
  <2>4. \A k \in Loc : rs[k] = IF k \in Hit(msgs, l) THEN <<>> ELSE msgs[k]
    BY DEF Retired
  <2>5. \A t \in Thread, k \in Loc :
          SeenAfter(l)[t][k] = IF k \in Hit(msgs, l) THEN 0 ELSE seen[t][k]
    BY <2>1 DEF ViewsRetired
  <2> HIDE DEF rs, ls
  <2>6. /\ n = 1 /\ ls[l][1] = PlainMsg(l) /\ \A k \in Loc : k # l => ls[k] = rs[k]
    BY <2>1, <2>3 DEF Inserted
  <2>7. \A k \in Loc : k \in Hit(msgs, l) => k # l /\ ls[k] = <<>>
    BY <2>4, <2>6 DEF Hit
  <2>8. DOMAIN msgs[l] = {}
    BY <1>5
  <2>9. \A k \in Loc : k # l => ls[k] = <<>> \/ ls[k] = msgs[k]
    BY <2>4, <2>6
  <2>10. \A q \in DOMAIN ls[l] : q = n /\ ls[l][q] = PlainMsg(l)
    BY <1>2, <2>6
  <2>. QED BY <1>0, <1>2, <1>3, <1>4, <2>1, <2>5, <2>6, <2>7, <2>8, <2>9, <2>10 DEF LocatedAt, ls
<1>6. CASE msgs[l] # <<>> /\ Stale(l)
  <2> DEFINE p == Len(msgs[l]) + 1
  <2>1. /\ ls = [msgs EXCEPT ![l] = InsertAt(msgs[l], p, PlainMsg(l))]
        /\ SeenAfter(l) = seen /\ NextId(l) = nextMsg + 1
    BY <1>6, LocatedIs
  <2>2. p \in 1 .. Len(msgs[l]) + 1 /\ \A q \in DOMAIN msgs[l] : q < p
    BY <1>0
  <2> HIDE DEF ls
  <2>3. Inserted(msgs, ls, l, PlainMsg(l), p)
    <3> HIDE DEF p
    <3>1. Inserted(msgs, [msgs EXCEPT ![l] = InsertAt(msgs[l], p, PlainMsg(l))], l, PlainMsg(l), p)
      BY <2>2, <1>0, InsertPlaces
    <3>. QED BY <3>1, <2>1
  <2>4. n = p /\ ls[l][n] = PlainMsg(l) /\ \A k \in Loc : k # l => ls[k] = msgs[k]
    BY <2>3 DEF Inserted
  <2>5. \A q \in DOMAIN msgs[l] : q \in DOMAIN ls[l] /\ ls[l][q] = msgs[l][q]
    BY <2>2, <2>3 DEF Inserted
  <2>6. \A q \in DOMAIN ls[l] : q \in DOMAIN msgs[l] \/ q = n
    BY <2>4, <1>0, <1>2
  <2>. QED BY <1>0, <1>2, <1>3, <1>4, <2>1, <2>4, <2>5, <2>6 DEF LocatedAt, ls
<1>7. CASE msgs[l] # <<>> /\ ~Stale(l)
  <2>1. ls = msgs /\ SeenAfter(l) = seen /\ NextId(l) = nextMsg
    BY <1>7, LocatedIs
  <2>2. /\ msgs[l][Len(msgs[l])].val = [b \in l |-> bytes[b]]
        /\ \A e \in PlainWrites(l) : ClockLe(e.clock, msgs[l][Len(msgs[l])].clock)
    BY <1>7 DEF Stale, PlainSince, Last
  <2> HIDE DEF ls
  <2>. QED BY <1>2, <1>3, <2>1, <2>2 DEF LocatedAt, ls
<1>. QED BY <1>5, <1>6, <1>7

(***************************************************************************)
(* The inductive invariant of Atomics.                                     *)
(***************************************************************************)

(* Nobody is ahead of a thread in the thread's own entry. *)
OwnAhead == \A t, u \in Thread : clocks[u][t] <= clocks[t][t]

AccessBelow == \A e \in footprint : ClockLe(e.clock, clocks[e.tid])

JoinedBelow == \A u \in joined : ClockLe(clocks[u], clocks[0])

MsgsBelow(ms) ==
  \A l \in Loc : \A p \in DOMAIN ms[l] : \A t \in Thread :
    ms[l][p].clock[t] <= clocks[t][t] /\ ms[l][p].rel[t] <= clocks[t][t]

AInv ==
  /\ TypeOK
  /\ IsFiniteSet(footprint)
  /\ MsgsOK(msgs, seen, nextMsg)
  /\ OwnAhead
  /\ AccessBelow
  /\ JoinedBelow
  /\ MsgsBelow(msgs)
  /\ NewestIsMemory

(* What a step of thread t that is no failure does to the clocks and the   *)
(* accesses: cl is its new clock, new are its accesses.                    *)
Touches(t, cl, new) ==
  /\ clocks' = [clocks EXCEPT ![t] = cl]
  /\ footprint' = footprint \cup new
  /\ ops' = ops + 1
  /\ UNCHANGED <<program, joined, outcome>>

(* The clock of t after a step: above a bump of it, and of the others it   *)
(* knows no more than they do.                                             *)
Grown(t, cl) ==
  /\ cl \in Clock
  /\ ClockLe(Bump(clocks[t], t), cl)
  /\ \A u \in Thread : u # t => cl[u] <= clocks[u][u]

(* The accesses of a step of t have numbers that nobody has seen.          *)
Fresh(t, l, cl, new) ==
  /\ IsFiniteSet(new)
  /\ \A e \in new :
       /\ e.tid = t /\ e.loc = l /\ e.kind \in AccessKind /\ e.clock \in Clock
       /\ clocks[t][t] < e.clock[t]
       /\ \A u \in Thread : u # t => e.clock[u] = clocks[t][u]
       /\ ClockLe(e.clock, cl)

Reads(t, l, p, cl, new) ==
  /\ Touches(t, cl, new)
  /\ p \in ReadOpts(Located(l)[l], t, Bump(clocks[t], t), l)
  /\ msgs' = Located(l)
  /\ nextMsg' = NextId(l)
  /\ Observe(t, l, Located(l)[l][p].id)
  /\ UNCHANGED bytes

Writes(t, l, p, m, cl, new) ==
  /\ Touches(t, cl, new)
  /\ InsertMsg(l, p, m)
  /\ Observe(t, l, m.id)

(* A message that a step of t puts at p. *)
Fits(t, l, p, m, cl) ==
  /\ m \in Message(l) /\ m.id = NextId(l) /\ m.clock = cl
  /\ m.rel[t] <= cl[t] /\ \A u \in Thread : u # t => m.rel[u] <= clocks[u][u]
  /\ p \in Floor(Located(l)[l], t, Bump(clocks[t], t), l) + 1 .. Len(Located(l)[l]) + 1

(* The write of an RMW or of a cas that reads p: c is the clock of its     *)
(* last access.                                                            *)
Takes(t, l, ord, p, v, c, new) ==
  /\ p \in RmwOpts(Located(l)[l], t, Bump(clocks[t], t), l)
  /\ footprint' = footprint \cup new
  /\ RmwWrite(t, l, ord, p, v, c)
  /\ ops' = ops + 1
  /\ UNCHANGED <<program, joined, outcome>>

RmwNew(t, l) == {Recorded(t, Bump(clocks[t], t), l, "atomicWrite")}
CasClock(t) == Bump(Bump(clocks[t], t), t)
CasNew(t, l) ==
  {Recorded(t, Bump(clocks[t], t), l, "atomicRead"), Recorded(t, CasClock(t), l, "atomicWrite")}

Failed(t, o) == \E e \in {"illegal", "unspecified"} : Fail(e)
Plains(t, o) ==
  \E k \in {"read", "write"}, v \in program.vals : o.op = k /\ PlainAccess(t, o.loc, k, v)
LoadsIt(t, o) ==
  \/ o.op = "load" /\ \E p \in Places(o.loc) : LoadAt(t, o.loc, o.ord, p)
  \/ o.op \in Cas /\ \E p \in Places(o.loc) : LoadAt(t, o.loc, o.fail, p)
StoresIt(t, o) ==
  o.op = "store" /\ \E p \in Places(o.loc), v \in program.vals : StoreAt(t, o.loc, o.ord, p, v)
RmwsIt(t, o) ==
  /\ o.op = "rmw" /\ Accept(t, o.loc, "atomicWrite")
  /\ \E p \in Places(o.loc), v \in program.vals :
       Takes(t, o.loc, o.ord, p, v, Bump(clocks[t], t), RmwNew(t, o.loc))
CasesIt(t, o) ==
  /\ o.op \in Cas /\ Accept(t, o.loc, "atomicRead")
  /\ ~Races(t, CasClock(t), o.loc, "atomicWrite")
  /\ \E p \in Places(o.loc), v \in program.vals :
       Takes(t, o.loc, o.ord, p, v, CasClock(t), CasNew(t, o.loc))

LEMMA OpTyped ==
  ASSUME TypeOK, NEW t \in Thread, NEW o \in program.ops[t]
  PROVE  o.loc \in Loc /\ o.op \in OpName /\ o.ord \in Order /\ o.fail \in {"relaxed", "acquire"}
BY AtomicsAssumption DEF TypeOK

LEMMA OperateIs ==
  ASSUME TypeOK, NEW t \in Thread, NEW o \in program.ops[t], Operate(t, o)
  PROVE  /\ outcome = "running" /\ t \notin joined /\ ops < program.max
         /\ \/ Failed(t, o)
            \/ Plains(t, o)
            \/ LoadsIt(t, o)
            \/ StoresIt(t, o)
            \/ RmwsIt(t, o)
            \/ CasesIt(t, o)
<1> DEFINE l == o.loc
<1>1. outcome = "running" /\ t \notin joined /\ ops < program.max
  BY DEF Operate, Going
<1>2. 0 \in program.vals
  BY AtomicsAssumption DEF TypeOK
<1>3. CASE Refuse(t, l, KindOf(o.op))
  BY <1>1, <1>3 DEF Refuse, Failed
<1>4. CASE o.op = "read" /\ PlainAccess(t, l, "read", 0)
  BY <1>1, <1>2, <1>4 DEF Plains
<1>5. CASE o.op = "write" /\ \E v \in program.vals : PlainAccess(t, l, "write", v)
  BY <1>1, <1>5 DEF Plains
<1>6. CASE o.op = "load" /\ \E p \in Places(l) : LoadAt(t, l, o.ord, p)
  BY <1>1, <1>6 DEF LoadsIt
<1>7. CASE o.op = "store" /\ \E p \in Places(l), v \in program.vals : StoreAt(t, l, o.ord, p, v)
  BY <1>1, <1>7 DEF StoresIt
<1>8. CASE o.op = "rmw" /\ \E p \in Places(l), v \in program.vals : RmwAt(t, l, o.ord, p, v)
  BY <1>1, <1>8 DEF RmwsIt, RmwAt, Takes, RmwNew
<1>9. ASSUME o.op \in Cas, NEW p \in Places(l), NEW w \in program.vals, NEW v \in program.vals,
             CasFails(t, l, o.fail, p, Word(l, w), o.op = "casWeak")
      PROVE  LoadsIt(t, o)
  BY <1>9 DEF LoadsIt, CasFails
<1>10. ASSUME o.op \in Cas, NEW p \in Places(l), NEW w \in program.vals, NEW v \in program.vals,
              CasSucceeds(t, l, o.ord, p, Word(l, w), v)
       PROVE  Failed(t, o) \/ CasesIt(t, o)
  <2>1. Accept(t, l, "atomicRead")
    BY <1>10 DEF CasSucceeds
  <2>2. p \in RmwOpts(Located(l)[l], t, Bump(clocks[t], t), l)
    BY <1>10 DEF CasSucceeds, CasOpts, RmwOpts
  <2>3. CASE Races(t, CasClock(t), l, "atomicWrite") /\ Fail("illegal")
    BY <2>3 DEF Failed
  <2>4. CASE /\ ~Races(t, CasClock(t), l, "atomicWrite")
             /\ footprint' = footprint \cup CasNew(t, l)
             /\ RmwWrite(t, l, o.ord, p, v, CasClock(t))
             /\ ops' = ops + 1
             /\ UNCHANGED <<program, joined, outcome>>
    BY <2>1, <2>2, <2>4, <1>10 DEF CasesIt, Takes
  <2>. QED BY <2>3, <2>4, <1>10 DEF CasSucceeds, CasNew, CasClock
<1>. QED
  BY <1>1, <1>3, <1>4, <1>5, <1>6, <1>7, <1>8, <1>9, <1>10 DEF Operate

LEMMA ClocksTyped == ASSUME TypeOK PROVE \A t, u \in Thread : clocks[t] \in Clock /\ clocks[t][u] \in Nat
BY DEF TypeOK, Clock

(* The message that a step reads is there, and older than the thread.      *)
LEMMA ReadIs ==
  ASSUME AInv, NEW l \in Loc, NEW t \in Thread, NEW c, NEW p \in ReadOpts(Located(l)[l], t, c, l)
  PROVE  /\ p \in DOMAIN Located(l)[l] /\ p \in Nat /\ Located(l)[l][p] \in Message(l)
         /\ Floor(Located(l)[l], t, c, l) \in DOMAIN Located(l)[l]
         /\ Floor(Located(l)[l], t, c, l) \in Nat /\ Floor(Located(l)[l], t, c, l) <= p
<1> DEFINE ms == Located(l)[l]
<1>1. MsgsTyped(Located(l)) /\ ms # <<>>
  BY LocatedKeeps DEF AInv, MsgsOK
<1>2. ms \in Seq(Message(l)) /\ Len(ms) \in Nat /\ DOMAIN ms = 1 .. Len(ms)
      /\ \A q \in DOMAIN ms : ms[q] \in Message(l)
  BY <1>1, MsgOf DEF MsgsTyped
<1> HIDE DEF ms
<1>3. Floor(ms, t, c, l) \in 1 .. Len(ms)
  BY <1>1, <1>2, FloorIs DEF ms
<1>4. p \in Floor(ms, t, c, l) .. Len(ms)
  BY DEF ReadOpts, ms
<1>5. p \in 1 .. Len(ms) /\ p \in Nat /\ Floor(ms, t, c, l) \in Nat /\ Floor(ms, t, c, l) <= p
  BY <1>2, <1>3, <1>4
<1>. QED BY <1>2, <1>3, <1>5 DEF ms

LEMMA LocatedBelow ==
  ASSUME AInv, NEW l \in Loc
  PROVE  MsgsBelow(Located(l))
<1>0. LocatedAt(l) /\ TypeOK /\ IsFiniteSet(footprint) /\ \A t, u \in Thread : clocks[t][u] \in Nat
  BY LocatedPlaces, ClocksTyped DEF AInv
<1>1. ASSUME NEW t \in Thread PROVE PlainMsg(l).clock[t] <= clocks[t][t]
  <2>1. PlainMsg(l).clock = PlainClock(l)
    BY <1>0, PlainMsgIs
  <2>2. CASE PlainClock(l)[t] = 0
    BY <1>0, <2>1, <2>2
  <2>3. CASE PlainClock(l)[t] # 0
    <3>1. PICK e \in PlainWrites(l) : PlainClock(l)[t] = e.clock[t]
      BY <1>0, <2>3, PlainClockIs
    <3>2. e \in footprint /\ e.clock \in Clock /\ e.tid \in Thread
      BY <1>0, EntryTyped DEF PlainWrites
    <3>3. e.clock[t] <= clocks[e.tid][t] /\ clocks[e.tid][t] <= clocks[t][t] /\ e.clock[t] \in Nat
      BY <3>2 DEF AInv, AccessBelow, ClockLe, OwnAhead, Clock
    <3>. QED BY <1>0, <2>1, <3>1, <3>2, <3>3
  <2>. QED BY <2>2, <2>3
<1>2. \A t \in Thread : PlainMsg(l).rel[t] <= clocks[t][t]
  <2>1. PlainMsg(l).rel = ZeroClock /\ \A t \in Thread : ZeroClock[t] = 0
    BY <1>0, PlainMsgIs DEF ZeroClock
  <2> TAKE t \in Thread
  <2>2. clocks[t][t] \in Nat /\ 0 <= clocks[t][t]
    BY <1>0
  <2>3. PlainMsg(l).rel[t] = 0
    BY <2>1
  <2>. QED BY <2>2, <2>3
<1> SUFFICES ASSUME NEW k \in Loc, NEW p \in DOMAIN Located(l)[k]
             PROVE  \A t \in Thread : /\ Located(l)[k][p].clock[t] <= clocks[t][t]
                                      /\ Located(l)[k][p].rel[t] <= clocks[t][t]
  BY DEF MsgsBelow
<1>3. CASE k # l
  <2>1. Located(l)[k] = msgs[k]
    BY <1>0, <1>3 DEF LocatedAt
  <2>. QED BY <2>1 DEF AInv, MsgsBelow
<1>4. CASE k = l /\ p \in DOMAIN msgs[l]
  BY <1>0, <1>4 DEF LocatedAt, AInv, MsgsBelow
<1>5. CASE k = l /\ p \notin DOMAIN msgs[l]
  <2>1. Located(l)[k][p] = PlainMsg(l)
    BY <1>0, <1>5 DEF LocatedAt
  <2>. QED BY <2>1, <1>1, <1>2
<1>. QED BY <1>3, <1>4, <1>5

(* A bump, twice or once, and what an acquire adopts, is a grown clock.    *)
LEMMA BumpGrown ==
  ASSUME AInv, NEW t \in Thread
  PROVE  /\ Bump(clocks[t], t) \in Clock /\ CasClock(t) \in Clock
         /\ Grown(t, Bump(clocks[t], t)) /\ Grown(t, CasClock(t))
         /\ clocks[t][t] < Bump(clocks[t], t)[t] /\ clocks[t][t] < CasClock(t)[t]
         /\ \A u \in Thread : u # t => Bump(clocks[t], t)[u] = clocks[t][u] /\ CasClock(t)[u] = clocks[t][u]
         /\ ClockLe(Bump(clocks[t], t), CasClock(t))
<1> DEFINE c == Bump(clocks[t], t)
<1>1. clocks[t] \in Clock /\ \A u \in Thread : clocks[t][u] \in Nat
  BY ClocksTyped DEF AInv
<1>2. c \in Clock /\ c[t] = clocks[t][t] + 1 /\ \A u \in Thread : u # t => c[u] = clocks[t][u]
  BY <1>1, BumpIs
<1> HIDE DEF c
<1>3. /\ Bump(c, t) \in Clock /\ Bump(c, t)[t] = c[t] + 1
      /\ \A u \in Thread : u # t => Bump(c, t)[u] = c[u]
      /\ ClockLe(c, Bump(c, t)) /\ ClockLe(c, c)
  BY <1>2, BumpIs, LeRefl
<1>4. \A u \in Thread : u # t => clocks[t][u] <= clocks[u][u]
  BY DEF AInv, OwnAhead
<1>5. CasClock(t) = Bump(c, t)
  BY DEF CasClock, c
<1>6. Grown(t, c) /\ Grown(t, Bump(c, t))
  BY <1>2, <1>3, <1>4 DEF Grown, c
<1>. QED BY <1>1, <1>2, <1>3, <1>5, <1>6 DEF c

LEMMA AdoptGrown ==
  ASSUME AInv, NEW t \in Thread, NEW l \in Loc, NEW c, Grown(t, c), NEW ord,
         NEW p \in DOMAIN Located(l)[l]
  PROVE  Grown(t, Adopt(ord, c, Located(l)[l][p])) /\ ClockLe(c, Adopt(ord, c, Located(l)[l][p]))
<1> DEFINE m == Located(l)[l][p]
<1>1. m \in Message(l) /\ MsgsBelow(Located(l))
  BY LocatedBelow, LocatedKeeps, MsgOf DEF AInv, MsgsOK
<1>2. m.rel \in Clock /\ \A u \in Thread : m.rel[u] <= clocks[u][u]
  BY <1>1 DEF Message, MsgsBelow
<1>3. c \in Clock /\ ClockLe(Bump(clocks[t], t), c) /\ Bump(clocks[t], t) \in Clock
      /\ \A u \in Thread : u # t => c[u] <= clocks[u][u]
  BY BumpGrown DEF Grown
<1> HIDE DEF m
<1>4. CASE ~IsAcq(ord)
  BY <1>3, <1>4, LeRefl DEF Adopt
<1>5. CASE IsAcq(ord)
  <2>1. Adopt(ord, c, m) = Merge(c, m.rel)
    BY <1>5 DEF Adopt
  <2>2. /\ Merge(c, m.rel) \in Clock /\ ClockLe(c, Merge(c, m.rel))
        /\ \A u \in Thread : Merge(c, m.rel)[u] = c[u] \/ Merge(c, m.rel)[u] = m.rel[u]
    BY <1>2, <1>3, MergeIs
  <2>3. ClockLe(Bump(clocks[t], t), Merge(c, m.rel))
    BY <1>3, <2>2, LeTrans
  <2>4. ASSUME NEW u \in Thread, u # t PROVE Merge(c, m.rel)[u] <= clocks[u][u]
    <3>1. m.rel[u] <= clocks[u][u] /\ c[u] <= clocks[u][u]
      BY <1>2, <1>3, <2>4
    <3>. QED BY <3>1, <2>2
  <2>5. Grown(t, Merge(c, m.rel))
    BY <2>2, <2>3, <2>4 DEF Grown
  <2>. QED BY <2>1, <2>2, <2>5 DEF m
<1>. QED BY <1>4, <1>5 DEF m

LEMMA KindsTyped == {"read", "write", "atomicRead", "atomicWrite"} = AccessKind
BY DEF AccessKind

(* A single access with the bumped clock is fresh. *)
LEMMA OneFresh ==
  ASSUME AInv, NEW t \in Thread, NEW l \in Loc, NEW k \in AccessKind, NEW cl,
         ClockLe(Bump(clocks[t], t), cl)
  PROVE  Fresh(t, l, cl, {Recorded(t, Bump(clocks[t], t), l, k)})
<1> DEFINE e == Recorded(t, Bump(clocks[t], t), l, k)
<1>1. e.tid = t /\ e.clock = Bump(clocks[t], t) /\ e.loc = l /\ e.kind = k
  BY DEF Recorded
<1> HIDE DEF e
<1>2. IsFiniteSet({e})
  BY FS_Singleton
<1>3. Fresh(t, l, cl, {e})
  BY <1>1, <1>2, BumpGrown DEF Fresh
<1>. QED BY <1>3 DEF e

LEMMA TwoFresh ==
  ASSUME AInv, NEW t \in Thread, NEW l \in Loc, NEW cl \in Clock, ClockLe(CasClock(t), cl)
  PROVE  Fresh(t, l, cl, CasNew(t, l))
<1> DEFINE e == Recorded(t, Bump(clocks[t], t), l, "atomicRead")
<1> DEFINE f == Recorded(t, CasClock(t), l, "atomicWrite")
<1>1. /\ e.tid = t /\ e.clock = Bump(clocks[t], t) /\ e.loc = l /\ e.kind = "atomicRead"
      /\ f.tid = t /\ f.clock = CasClock(t) /\ f.loc = l /\ f.kind = "atomicWrite"
  BY DEF Recorded
<1>2. CasNew(t, l) = {e} \cup {f}
  BY DEF CasNew
<1> HIDE DEF e, f
<1>3. IsFiniteSet({e} \cup {f})
  BY FS_Singleton, FS_Union
<1>4. ClockLe(Bump(clocks[t], t), cl)
  BY BumpGrown, LeTrans
<1>5. ASSUME NEW g \in {e} \cup {f}
      PROVE  /\ g.tid = t /\ g.loc = l /\ g.kind \in AccessKind /\ g.clock \in Clock
             /\ clocks[t][t] < g.clock[t]
             /\ \A u \in Thread : u # t => g.clock[u] = clocks[t][u]
             /\ ClockLe(g.clock, cl)
  <2>1. CASE g = e
    BY <2>1, <1>1, <1>4, BumpGrown, KindsTyped
  <2>2. CASE g = f
    BY <2>2, <1>1, BumpGrown, KindsTyped
  <2>. QED BY <2>1, <2>2
<1>6. Fresh(t, l, cl, {e} \cup {f})
  BY <1>3, <1>5 DEF Fresh
<1>. QED BY <1>2, <1>6

LEMMA LoadReads ==
  ASSUME AInv, NEW t \in Thread, NEW l \in Loc, NEW ord, NEW p, LoadAt(t, l, ord, p)
  PROVE  LET cl  == Adopt(ord, Bump(clocks[t], t), Located(l)[l][p])
             new == {Recorded(t, Bump(clocks[t], t), l, "atomicRead")}
         IN  Reads(t, l, p, cl, new) /\ Grown(t, cl) /\ Fresh(t, l, cl, new)
<1>1. p \in ReadOpts(Located(l)[l], t, Bump(clocks[t], t), l)
  BY DEF LoadAt
<1>2. p \in DOMAIN Located(l)[l]
  BY <1>1, ReadIs
<1> DEFINE cl == Adopt(ord, Bump(clocks[t], t), Located(l)[l][p])
<1>3. Grown(t, cl) /\ ClockLe(Bump(clocks[t], t), cl)
  BY <1>2, BumpGrown, AdoptGrown
<1>4. Fresh(t, l, cl, {Recorded(t, Bump(clocks[t], t), l, "atomicRead")})
  BY <1>3, OneFresh, KindsTyped
<1>. QED BY <1>1, <1>3, <1>4 DEF LoadAt, Reads, Touches

LEMMA WordTyped == ASSUME NEW l \in Loc, NEW v \in program.vals PROVE Word(l, v) \in [l -> program.vals]
BY DEF Word

LEMMA NextIdTyped == ASSUME AInv, NEW l \in Loc PROVE NextId(l) \in Nat \ {0}
BY DEF AInv, TypeOK, NextId

StoreMsg(t, l, ord, v) ==
  LET c == Bump(clocks[t], t)
  IN  [id |-> NextId(l), val |-> Word(l, v), clock |-> c,
       rel |-> IF IsRel(ord) THEN c ELSE ZeroClock, rmwOf |-> 0]

LEMMA StoreWrites ==
  ASSUME AInv, NEW t \in Thread, NEW l \in Loc, NEW ord, NEW p, NEW v \in program.vals,
         StoreAt(t, l, ord, p, v)
  PROVE  LET cl  == Bump(clocks[t], t)
             new == {Recorded(t, cl, l, "atomicWrite")}
             m   == StoreMsg(t, l, ord, v)
         IN  /\ Writes(t, l, p, m, cl, new) /\ Fits(t, l, p, m, cl)
             /\ Grown(t, cl) /\ Fresh(t, l, cl, new)
             /\ p = Len(Located(l)[l]) + 1 \/ ~RmwAfter(Located(l)[l], p - 1)
<1> DEFINE cl == Bump(clocks[t], t)
<1> DEFINE m == StoreMsg(t, l, ord, v)
<1>1. cl \in Clock /\ Grown(t, cl) /\ ZeroClock \in Clock /\ ClockLe(cl, cl) /\ ClockLe(ZeroClock, cl)
  BY BumpGrown, ZeroLe, LeRefl
<1>2. Fresh(t, l, cl, {Recorded(t, cl, l, "atomicWrite")})
  BY <1>1, OneFresh, KindsTyped
<1>3. /\ Writes(t, l, p, m, cl, {Recorded(t, cl, l, "atomicWrite")})
      /\ p \in WriteSlots(Located(l)[l], t, cl, l)
  BY DEF StoreAt, Writes, Touches, StoreMsg
<1>4. /\ p \in Floor(Located(l)[l], t, cl, l) + 1 .. Len(Located(l)[l]) + 1
      /\ p = Len(Located(l)[l]) + 1 \/ ~RmwAfter(Located(l)[l], p - 1)
  BY <1>3 DEF WriteSlots
<1>5. m \in Message(l) /\ m.id = NextId(l) /\ m.clock = cl /\ (m.rel = cl \/ m.rel = ZeroClock)
  BY <1>1, NextIdTyped, WordTyped DEF StoreMsg, Message
<1>6. m.rel[t] <= cl[t] /\ \A u \in Thread : u # t => m.rel[u] <= clocks[u][u]
  <2>1. cl[t] \in Nat /\ \A u \in Thread : clocks[u][u] \in Nat /\ ZeroClock[u] = 0
    BY <1>1, ClocksTyped DEF ZeroClock, Clock, AInv
  <2> HIDE DEF cl, m
  <2>. QED BY <2>1, <1>1, <1>5 DEF Grown
<1>. QED BY <1>1, <1>2, <1>3, <1>4, <1>5, <1>6 DEF Fits

TakeMsg(t, l, ord, p, v, c) ==
  LET rd == Located(l)[l][p]
      cl == Adopt(ord, c, rd)
  IN  [id |-> NextId(l), val |-> Word(l, v), clock |-> cl,
       rel |-> RmwRel(ord, rd, cl), rmwOf |-> rd.id]

(* What an RMW passes on it need not have acquired itself.                 *)
LEMMA TakeWrites ==
  ASSUME AInv, NEW t \in Thread, NEW l \in Loc, NEW ord, NEW p, NEW v \in program.vals,
         NEW c, Grown(t, c), NEW new,
         Takes(t, l, ord, p, v, c, new)
  PROVE  LET cl == Adopt(ord, c, Located(l)[l][p])
             m  == TakeMsg(t, l, ord, p, v, c)
         IN  /\ Writes(t, l, p + 1, m, cl, new)
             /\ Fits(t, l, p + 1, m, cl)
             /\ Grown(t, cl) /\ ClockLe(c, cl) /\ p \in DOMAIN Located(l)[l]
             /\ ~RmwAfter(Located(l)[l], p)
<1> DEFINE rd == Located(l)[l][p]
<1> DEFINE cl == Adopt(ord, c, rd)
<1> DEFINE m == TakeMsg(t, l, ord, p, v, c)
<1>1. p \in ReadOpts(Located(l)[l], t, Bump(clocks[t], t), l) /\ ~RmwAfter(Located(l)[l], p)
  BY DEF Takes, RmwOpts
<1>2. /\ p \in DOMAIN Located(l)[l] /\ p \in Nat /\ rd \in Message(l)
      /\ Floor(Located(l)[l], t, Bump(clocks[t], t), l) \in Nat
      /\ Floor(Located(l)[l], t, Bump(clocks[t], t), l) <= p
  BY <1>1, ReadIs
<1>3. Grown(t, cl) /\ ClockLe(c, cl) /\ cl \in Clock
  BY <1>2, AdoptGrown DEF Grown
<1>4. Writes(t, l, p + 1, m, cl, new)
  BY DEF Takes, RmwWrite, Writes, Touches, TakeMsg
<1>5. Len(Located(l)[l]) \in Nat /\ DOMAIN Located(l)[l] = 1 .. Len(Located(l)[l])
  BY LocatedPlaces DEF LocatedAt, AInv
<1>6. p + 1 \in Floor(Located(l)[l], t, Bump(clocks[t], t), l) + 1 .. Len(Located(l)[l]) + 1
  BY <1>2, <1>5
<1>7. rd.rel \in Clock /\ rd.id \in Nat
  BY <1>2 DEF Message
<1> HIDE DEF rd, cl
<1>8. RmwRel(ord, rd, cl) \in Clock
  BY <1>3, <1>7, MergeIs DEF RmwRel
<1>9. m = [id |-> NextId(l), val |-> Word(l, v), clock |-> cl,
           rel |-> RmwRel(ord, rd, cl), rmwOf |-> rd.id]
  BY DEF TakeMsg, rd, cl
<1>10. m \in Message(l) /\ m.id = NextId(l) /\ m.clock = cl
  BY <1>3, <1>7, <1>8, <1>9, NextIdTyped, WordTyped DEF Message
<1>11. m.rel[t] <= cl[t] /\ \A u \in Thread : u # t => m.rel[u] <= clocks[u][u]
  <2>1. MsgsBelow(Located(l))
    BY LocatedBelow
  <2>2. \A u \in Thread : rd.rel[u] <= clocks[u][u] /\ rd.rel[u] \in Nat /\ cl[u] \in Nat
    BY <2>1, <1>2, <1>3, <1>7 DEF MsgsBelow, rd, Clock
  <2>3. clocks[t][t] <= cl[t] /\ clocks[t][t] \in Nat
    <3>1. clocks[t][t] < Bump(clocks[t], t)[t] /\ Bump(clocks[t], t)[t] \in Nat
      BY BumpGrown DEF Clock
    <3>2. Bump(clocks[t], t)[t] <= cl[t]
      BY <1>3 DEF Grown, ClockLe
    <3>3. clocks[t][t] \in Nat
      BY ClocksTyped DEF AInv
    <3>. QED BY <3>1, <3>2, <3>3, <2>2
  <2>4. rd.rel[t] <= cl[t]
    BY <2>2, <2>3
  <2>5. \A u \in Thread : u # t => cl[u] <= clocks[u][u]
    BY <1>3 DEF Grown
  <2>6. m.rel = RmwRel(ord, rd, cl)
    BY <1>9
  <2>7. \A u \in Thread : RmwRel(ord, rd, cl)[u] = rd.rel[u] \/ RmwRel(ord, rd, cl)[u] = cl[u]
    BY <1>3, <1>7, MergeIs DEF RmwRel
  <2>. QED BY <2>2, <2>4, <2>5, <2>6, <2>7
<1>12. Fits(t, l, p + 1, m, cl)
  BY <1>6, <1>10, <1>11 DEF Fits, rd, cl
<1>. QED BY <1>1, <1>2, <1>3, <1>4, <1>12 DEF rd, cl

(* The parts of the invariant about clocks.                                *)
LEMMA TouchesKeep ==
  ASSUME AInv, NEW t \in Thread, t \notin joined, NEW l \in Loc, NEW cl, NEW new,
         Touches(t, cl, new), Grown(t, cl), Fresh(t, l, cl, new)
  PROVE  /\ clocks' \in [Thread -> Clock] /\ clocks'[t] = cl
         /\ \A u \in Thread : u # t => clocks'[u] = clocks[u]
         /\ \A u \in Thread : ClockLe(clocks[u], clocks'[u])
         /\ OwnAhead' /\ AccessBelow' /\ JoinedBelow' /\ IsFiniteSet(footprint')
         /\ \A e \in footprint' :
              e.tid \in Thread /\ e.clock \in Clock /\ e.loc \in Loc /\ e.kind \in AccessKind
<1>1. cl \in Clock /\ clocks \in [Thread -> Clock] /\ clocks' = [clocks EXCEPT ![t] = cl]
  BY DEF Grown, Touches, AInv, TypeOK
<1>2. clocks' \in [Thread -> Clock] /\ clocks'[t] = cl /\ \A u \in Thread : u # t => clocks'[u] = clocks[u]
  BY <1>1
<1>3. ClockLe(clocks[t], cl)
  <2>1. ClockLe(clocks[t], Bump(clocks[t], t)) /\ Bump(clocks[t], t) \in Clock
    BY <1>1, BumpIs
  <2>. QED BY <2>1, <1>1, LeTrans DEF Grown
<1>4. \A u \in Thread : ClockLe(clocks[u], clocks'[u])
  BY <1>1, <1>2, <1>3, LeRefl
<1>5. OwnAhead'
  <2> SUFFICES ASSUME NEW x \in Thread, NEW u \in Thread PROVE clocks'[u][x] <= clocks'[x][x]
    BY DEF OwnAhead
  <2>1. clocks[u][x] <= clocks[x][x] /\ clocks[u][x] \in Nat /\ clocks[x][x] \in Nat
    BY ClocksTyped DEF AInv, OwnAhead
  <2>2. clocks[x][x] <= clocks'[x][x] /\ clocks'[x][x] \in Nat
    BY <1>2, <1>4 DEF ClockLe, Clock
  <2>3. CASE u # t
    BY <2>1, <2>2, <2>3, <1>2
  <2>4. CASE u = t /\ x # t
    BY <2>4, <1>2 DEF Grown
  <2>5. CASE u = t /\ x = t
    BY <2>5, <2>2
  <2>. QED BY <2>3, <2>4, <2>5
<1>6. footprint' = footprint \cup new /\ joined' = joined
  BY DEF Touches
<1>7. \A e \in footprint' :
        e.tid \in Thread /\ e.clock \in Clock /\ e.loc \in Loc /\ e.kind \in AccessKind
  BY <1>6, EntryTyped DEF Fresh, AInv
<1>8. AccessBelow'
  <2> SUFFICES ASSUME NEW e \in footprint' PROVE ClockLe(e.clock, clocks'[e.tid])
    BY DEF AccessBelow, ClockLe
  <2>1. CASE e \in new
    BY <2>1, <1>2 DEF Fresh
  <2>2. CASE e \in footprint
    <3>1. ClockLe(e.clock, clocks[e.tid]) /\ e.tid \in Thread
      BY <2>2, EntryTyped DEF AInv, AccessBelow
    <3>. QED BY <3>1, <1>1, <1>2, <1>4, <1>7, LeTrans
  <2>. QED BY <2>1, <2>2, <1>6
<1>9. JoinedBelow'
  <2> SUFFICES ASSUME NEW u \in joined PROVE ClockLe(clocks'[u], clocks'[0])
    BY <1>6 DEF JoinedBelow, ClockLe
  <2>1. u \in Thread /\ u # t /\ 0 \in Thread
    BY AtomicsAssumption DEF AInv, TypeOK
  <2>2. ClockLe(clocks[u], clocks[0]) /\ clocks'[u] = clocks[u]
    BY <2>1, <1>2 DEF AInv, JoinedBelow
  <2>. QED BY <2>1, <2>2, <1>1, <1>2, <1>4, LeTrans
<1>10. IsFiniteSet(footprint')
  BY <1>6, FS_Union DEF AInv, Fresh
<1>. QED BY <1>2, <1>4, <1>5, <1>7, <1>8, <1>9, <1>10

(* A plain write after a message stays after it. *)
LEMMA PlainSinceStays ==
  ASSUME footprint \subseteq footprint', NEW l, NEW c, PlainSince(l, c)
  PROVE  PlainSince(l, c)'
BY DEF PlainSince, PlainWrites, ClockLe

LEMMA RestKept ==
  ASSUME AInv, NEW t \in Thread, ops < program.max, NEW cl, NEW new, Touches(t, cl, new)
  PROVE  /\ program' \in Programs /\ program' = program
         /\ joined' \subseteq Thread \ {0}
         /\ ops' \in 0 .. program'.max
         /\ outcome' \in {"running", "illegal", "unspecified"}
<1>1. program \in Programs /\ ops \in 0 .. program.max /\ program.max \in Nat /\ joined \subseteq Thread \ {0}
      /\ outcome \in {"running", "illegal", "unspecified"}
  BY AtomicsAssumption DEF AInv, TypeOK
<1>2. ops' = ops + 1 /\ program' = program /\ joined' = joined /\ outcome' = outcome
  BY DEF Touches
<1>3. ops + 1 \in 0 .. program.max
  BY <1>1
<1>. QED BY <1>1, <1>2, <1>3

(* TypeOK from its parts. *)
LEMMA TypesFrom ==
  ASSUME program' \in Programs, clocks' \in [Thread -> Clock], joined' \subseteq Thread \ {0},
         \A e \in footprint' :
           e.tid \in Thread /\ e.clock \in Clock /\ e.loc \in Loc /\ e.kind \in AccessKind,
         bytes' \in [Byte -> program'.vals],
         program' = program, MsgsOK(msgs', seen', nextMsg'),
         ops' \in 0 .. program'.max, outcome' \in {"running", "illegal", "unspecified"}
  PROVE  TypeOK' /\ MsgsOK(msgs, seen, nextMsg)'
<1>1. \A l \in Loc : Message(l)' = Message(l)
  BY DEF Message, Clock
<1>2. \A l \in Loc : msgs'[l] \in Seq(Message(l)')
  BY <1>1 DEF MsgsOK, MsgsTyped
<1>3. seen' \in [Thread -> [Loc -> Nat]] /\ nextMsg' \in Nat \ {0}
  BY DEF MsgsOK
<1>4. MsgsOK(msgs, seen, nextMsg)'
  <2>1. MsgsTyped(msgs)'
    BY <1>2 DEF MsgsTyped, MsgsOK
  <2>2. IdsBelow(msgs, nextMsg)' /\ IdsApart(msgs)' /\ LiveApart(msgs)' /\ ViewsLive(msgs, seen)'
    BY DEF MsgsOK, IdsBelow, IdsApart, LiveApart, ViewsLive
  <2>. QED BY <2>1, <2>2, <1>3 DEF MsgsOK
<1>. QED BY <1>2, <1>3, <1>4 DEF TypeOK

(* Memory and the newest messages once a location is found.                *)
LEMMA LocatedNewest ==
  ASSUME AInv, NEW l \in Loc, NEW k \in Loc, k # l, Located(l)[k] # <<>>
  PROVE  LET m == Last(Located(l)[k])
         IN  m.val = [b \in k |-> bytes[b]] \/ PlainSince(k, m.clock)
<1>1. Located(l)[k] = msgs[k]
  BY ZenonT(60), LocatedPlaces DEF AInv, LocatedAt
<1>. QED BY <1>1 DEF AInv, NewestIsMemory

LEMMA ReadsKeep ==
  ASSUME AInv, NEW t \in Thread, t \notin joined, ops < program.max, NEW l \in Loc, NEW p, NEW cl,
         NEW new, Reads(t, l, p, cl, new), Grown(t, cl), Fresh(t, l, cl, new)
  PROVE  AInv'
<1>1. Touches(t, cl, new) /\ msgs' = Located(l) /\ nextMsg' = NextId(l) /\ bytes' = bytes
      /\ seen' = [SeenAfter(l) EXCEPT ![t][l] = Located(l)[l][p].id]
  BY DEF Reads, Observe
<1>2. /\ clocks' \in [Thread -> Clock] /\ OwnAhead' /\ AccessBelow' /\ JoinedBelow'
      /\ IsFiniteSet(footprint') /\ \A u \in Thread : ClockLe(clocks[u], clocks'[u])
      /\ \A e \in footprint' :
           e.tid \in Thread /\ e.clock \in Clock /\ e.loc \in Loc /\ e.kind \in AccessKind
  BY <1>1, TouchesKeep
<1>3. p \in DOMAIN Located(l)[l]
  BY ReadIs DEF Reads
<1>4. MsgsOK(msgs', seen', nextMsg')
  <2>1. MsgsOK(Located(l), SeenAfter(l), NextId(l))
    BY LocatedKeeps DEF AInv
  <2>. QED BY <2>1, <1>1, <1>3, ViewKeeps
<1>5. TypeOK' /\ MsgsOK(msgs, seen, nextMsg)'
  <2>1. bytes' \in [Byte -> program'.vals] /\ program' = program
    BY <1>1 DEF AInv, TypeOK, Touches
  <2>. QED BY <2>1, <1>1, <1>2, <1>4, RestKept, TypesFrom
<1>6. MsgsBelow(msgs)'
  <2> SUFFICES ASSUME NEW k \in Loc, NEW q \in DOMAIN msgs'[k], NEW u \in Thread
               PROVE  msgs'[k][q].clock[u] <= clocks'[u][u] /\ msgs'[k][q].rel[u] <= clocks'[u][u]
    BY DEF MsgsBelow
  <2>1. msgs'[k][q].clock[u] <= clocks[u][u] /\ msgs'[k][q].rel[u] <= clocks[u][u]
    BY <1>1, LocatedBelow DEF MsgsBelow
  <2>2. msgs'[k][q].clock[u] \in Nat /\ msgs'[k][q].rel[u] \in Nat
    <3>1. msgs'[k][q] \in Message(k)
      BY <1>4, MsgOf DEF MsgsOK
    <3>. QED BY <3>1 DEF Message, Clock
  <2>3. clocks[u][u] <= clocks'[u][u] /\ clocks[u][u] \in Nat /\ clocks'[u][u] \in Nat
    BY <1>2, ClocksTyped DEF ClockLe, Clock, AInv
  <2>. QED BY <2>1, <2>2, <2>3
<1>7. NewestIsMemory'
  <2> SUFFICES ASSUME NEW k \in Loc, msgs'[k] # <<>>
               PROVE  \/ Last(msgs'[k]).val = [b \in k |-> bytes'[b]]
                      \/ PlainSince(k, Last(msgs[k]).clock)'
    BY DEF NewestIsMemory, Last
  <2>0. footprint \subseteq footprint'
    BY <1>1 DEF Touches
  <2>1. CASE k = l
    <3>1. Last(Located(l)[l]).val = [b \in l |-> bytes[b]]
      BY LocatedPlaces DEF AInv, LocatedAt, Last
    <3>. QED BY <3>1, <2>1, <1>1
  <2>2. CASE k # l
    <3>1. \/ Last(msgs'[k]).val = [b \in k |-> bytes[b]]
          \/ PlainSince(k, Last(msgs'[k]).clock)
      BY <2>2, <1>1, LocatedNewest
    <3> DEFINE c == Last(msgs'[k]).clock
    <3>2. PlainSince(k, c) => \E e \in footprint' : e.kind = "write" /\ e.loc \cap k # {} /\ ~ClockLe(e.clock, c)
      BY <2>0 DEF PlainSince, PlainWrites
    <3>3. (\E e \in footprint' : e.kind = "write" /\ e.loc \cap k # {} /\ ~ClockLe(e.clock, c)) => PlainSince(k, Last(msgs[k]).clock)'
      BY DEF PlainSince, PlainWrites, ClockLe
    <3>. QED BY <3>1, <3>2, <3>3, <1>1
  <2>. QED BY <2>1, <2>2
<1>. QED BY <1>2, <1>5, <1>6, <1>7 DEF AInv

(* What memory and the messages are after an insertion.                    *)
LEMMA WritePlaces ==
  ASSUME AInv, NEW t \in Thread, NEW l \in Loc, NEW p, NEW m, NEW cl, NEW new,
         Writes(t, l, p, m, cl, new), Fits(t, l, p, m, cl)
  PROVE  /\ Inserted(Located(l), msgs', l, m, p)
         /\ msgs' = [Located(l) EXCEPT ![l] = InsertAt(Located(l)[l], p, m)]
         /\ p \in 1 .. Len(Located(l)[l]) + 1 /\ p \in Nat
         /\ Floor(Located(l)[l], t, Bump(clocks[t], t), l) \in DOMAIN Located(l)[l]
         /\ Floor(Located(l)[l], t, Bump(clocks[t], t), l) \in Nat
         /\ Floor(Located(l)[l], t, Bump(clocks[t], t), l) < p
         /\ MsgsOK(msgs', seen', nextMsg') /\ MsgsTyped(Located(l))
         /\ nextMsg' = NextId(l) + 1
<1> DEFINE ls == Located(l)
<1> DEFINE f == Floor(ls[l], t, Bump(clocks[t], t), l)
<1>1. /\ msgs' = [ls EXCEPT ![l] = InsertAt(ls[l], p, m)] /\ nextMsg' = m.id + 1
      /\ seen' = [SeenAfter(l) EXCEPT ![t][l] = m.id]
  BY DEF Writes, InsertMsg, Observe
<1>2. m \in Message(l) /\ m.id = NextId(l) /\ p \in f + 1 .. Len(ls[l]) + 1
  BY DEF Fits
<1>3. MsgsOK(ls, SeenAfter(l), NextId(l)) /\ ls[l] # <<>> /\ Clear(ls, l)
  BY LocatedKeeps DEF AInv
<1> HIDE DEF ls
<1>4. MsgsTyped(ls) /\ ls[l] \in Seq(Message(l)) /\ Len(ls[l]) \in Nat /\ DOMAIN ls[l] = 1 .. Len(ls[l])
  BY <1>3, MsgOf DEF MsgsOK, MsgsTyped
<1>5. f \in 1 .. Len(ls[l])
  BY <1>3, <1>4, FloorIs
<1> HIDE DEF f
<1>6. p \in 1 .. Len(ls[l]) + 1 /\ f < p /\ f \in Nat /\ p \in Nat
  BY <1>2, <1>4, <1>5
<1>7. Inserted(ls, msgs', l, m, p)
  <2>1. Inserted(ls, [ls EXCEPT ![l] = InsertAt(ls[l], p, m)], l, m, p)
    BY <1>2, <1>4, <1>6, InsertPlaces
  <2>. QED BY <2>1, <1>1
<1>8. MsgsOK(msgs', SeenAfter(l), NextId(l) + 1)
  <2>1. MsgsOK([ls EXCEPT ![l] = InsertAt(ls[l], p, m)], SeenAfter(l), NextId(l) + 1)
    BY <1>2, <1>3, <1>6, InsertKeeps
  <2>. QED BY <2>1, <1>1
<1>9. MsgsOK(msgs', seen', nextMsg')
  <2>1. p \in DOMAIN msgs'[l] /\ msgs'[l][p].id = m.id
    BY <1>7 DEF Inserted
  <2>2. MsgsOK(msgs', [SeenAfter(l) EXCEPT ![t][l] = msgs'[l][p].id], NextId(l) + 1)
    BY <1>8, <2>1, ViewKeeps
  <2>. QED BY <2>1, <2>2, <1>1, <1>2
<1>. QED BY <1>1, <1>2, <1>4, <1>5, <1>6, <1>7, <1>9 DEF ls, f

LEMMA WritesKeep ==
  ASSUME AInv, NEW t \in Thread, t \notin joined, ops < program.max, NEW l \in Loc, NEW p, NEW m,
         NEW cl, NEW new, Writes(t, l, p, m, cl, new), Fits(t, l, p, m, cl), Grown(t, cl),
         Fresh(t, l, cl, new)
  PROVE  AInv'
<1> DEFINE ls == Located(l)
<1>0. /\ Inserted(ls, msgs', l, m, p) /\ MsgsTyped(ls) /\ p \in Nat
      /\ p \in 1 .. Len(ls[l]) + 1 /\ MsgsOK(msgs', seen', nextMsg')
  BY WritePlaces
<1>1. Touches(t, cl, new) /\ m \in Message(l) /\ m.clock = cl
      /\ bytes' = IF p = Len(ls[l]) + 1
                    THEN [b \in Byte |-> IF b \in l THEN m.val[b] ELSE bytes[b]] ELSE bytes
  BY DEF Writes, InsertMsg, Fits
<1>2. /\ clocks' \in [Thread -> Clock] /\ OwnAhead' /\ AccessBelow' /\ JoinedBelow'
      /\ IsFiniteSet(footprint') /\ \A u \in Thread : ClockLe(clocks[u], clocks'[u])
      /\ clocks'[t] = cl /\ \A u \in Thread : u # t => clocks'[u] = clocks[u]
      /\ \A e \in footprint' :
           e.tid \in Thread /\ e.clock \in Clock /\ e.loc \in Loc /\ e.kind \in AccessKind
  BY <1>1, TouchesKeep
<1>3. LocatedAt(l)
  BY LocatedPlaces DEF AInv
<1>4. MsgsBelow(ls)
  BY LocatedBelow
<1>5. TypeOK' /\ MsgsOK(msgs, seen, nextMsg)'
  <2>1. m.val \in [l -> program.vals] /\ bytes \in [Byte -> program.vals] /\ program' = program
    BY <1>1 DEF Message, AInv, TypeOK, Touches
  <2>2. bytes' \in [Byte -> program'.vals]
    BY <1>1, <2>1
  <2>. QED BY <2>1, <2>2, <1>0, <1>1, <1>2, RestKept, TypesFrom
<1> HIDE DEF ls
<1>6. MsgsBelow(msgs)'
  <2> SUFFICES ASSUME NEW k \in Loc, NEW q \in DOMAIN msgs'[k], NEW u \in Thread
               PROVE  msgs'[k][q].clock[u] <= clocks'[u][u] /\ msgs'[k][q].rel[u] <= clocks'[u][u]
    BY DEF MsgsBelow
  <2>1. clocks[u][u] <= clocks'[u][u] /\ clocks[u][u] \in Nat /\ clocks'[u][u] \in Nat
    BY <1>2, ClocksTyped DEF ClockLe, Clock, AInv
  <2>2. CASE k = l /\ q = p
    <3>1. msgs'[k][q] = m
      BY <2>2, <1>0 DEF Inserted
    <3>2. cl[u] <= clocks'[u][u] /\ m.rel[u] <= clocks'[u][u]
      <4>1. CASE u = t
        <5>1. cl[u] \in Nat
          BY <1>1 DEF Message, Clock
        <5>. QED BY <4>1, <5>1, <1>2 DEF Fits
      <4>2. CASE u # t
        BY <4>2, <1>2 DEF Fits, Grown
      <4>. QED BY <4>1, <4>2
    <3>. QED BY <3>1, <3>2, <1>1
  <2>3. CASE ~(k = l /\ q = p)
    <3>1. \E r \in DOMAIN ls[k] : msgs'[k][q] = ls[k][r]
      BY <2>3, <1>0 DEF Inserted
    <3>2. PICK r \in DOMAIN ls[k] : msgs'[k][q] = ls[k][r]
      BY <3>1
    <3>3. ls[k][r] \in Message(k) /\ ls[k][r].clock[u] <= clocks[u][u] /\ ls[k][r].rel[u] <= clocks[u][u]
      BY <1>0, <1>4, MsgOf DEF MsgsBelow
    <3>4. ls[k][r].clock[u] \in Nat /\ ls[k][r].rel[u] \in Nat
      BY <3>3 DEF Message, Clock
    <3>. QED BY <3>2, <3>3, <3>4, <2>1
  <2>. QED BY <2>2, <2>3
<1>7. NewestIsMemory'
  <2> SUFFICES ASSUME NEW k \in Loc, msgs'[k] # <<>>
               PROVE  \/ Last(msgs'[k]).val = [b \in k |-> bytes'[b]]
                      \/ PlainSince(k, Last(msgs[k]).clock)'
    BY DEF NewestIsMemory, Last
  <2>0. footprint \subseteq footprint' /\ Len(ls[l]) \in Nat /\ DOMAIN ls[l] = 1 .. Len(ls[l])
        /\ l \subseteq Byte /\ k \subseteq Byte
    BY <1>1, <1>0, MsgOf DEF Touches, Byte
  <2>1. CASE k = l /\ p = Len(ls[l]) + 1
    <3>1. Last(msgs'[k]) = m
      BY <2>1, <1>0 DEF Inserted, Last
    <3>2. m.val \in [l -> program.vals]
      BY <1>1 DEF Message
    <3>3. \A b \in l : bytes'[b] = m.val[b]
      BY <2>0, <2>1, <1>1
    <3>4. m.val = [b \in l |-> bytes'[b]]
      BY <3>2, <3>3
    <3>. QED BY <3>1, <3>4, <2>1
  <2>2. CASE k = l /\ p # Len(ls[l]) + 1
    <3>1. Len(ls[l]) \in DOMAIN ls[l] /\ Len(ls[l]) >= p
      BY <2>0, <2>2, <1>0, <1>3 DEF LocatedAt, ls
    <3>2. Last(msgs'[l]) = Last(ls[l])
      BY <3>1, <1>0 DEF Inserted, Last
    <3>3. Last(ls[l]).val = [b \in l |-> bytes[b]]
      BY <1>3 DEF LocatedAt, Last, ls
    <3>. QED BY <3>2, <3>3, <2>2, <1>1
  <2>3. CASE k # l
    <3>0. msgs'[k] = ls[k] /\ ls[k] # <<>>
      BY <2>3, <1>0 DEF Inserted
    <3>1. \/ Last(msgs'[k]).val = [b \in k |-> bytes[b]]
          \/ PlainSince(k, Last(msgs'[k]).clock)
      BY <2>3, <3>0, LocatedNewest DEF ls
    <3> DEFINE c == Last(msgs'[k]).clock
    <3>2. PlainSince(k, c) => \E e \in footprint' : e.kind = "write" /\ e.loc \cap k # {} /\ ~ClockLe(e.clock, c)
      BY <2>0 DEF PlainSince, PlainWrites
    <3>3. (\E e \in footprint' : e.kind = "write" /\ e.loc \cap k # {} /\ ~ClockLe(e.clock, c)) => PlainSince(k, Last(msgs[k]).clock)'
      BY DEF PlainSince, PlainWrites, ClockLe
    <3>4. k \cap l = {}
      BY <2>3, <3>0, <1>3 DEF LocatedAt, ls
    <3>5. \A b \in k : bytes'[b] = bytes[b]
      BY <3>4, <2>0, <1>1
    <3>6. [b \in k |-> bytes[b]] = [b \in k |-> bytes'[b]]
      BY <3>5
    <3>. QED BY <3>1, <3>2, <3>3, <3>6
  <2>. QED BY <2>1, <2>2, <2>3
<1>. QED BY <1>2, <1>5, <1>6, <1>7 DEF AInv

LEMMA PlainTouches ==
  ASSUME AInv, NEW t \in Thread, NEW l \in Loc, NEW k \in {"read", "write"}, NEW v,
         PlainAccess(t, l, k, v)
  PROVE  LET cl  == Bump(clocks[t], t)
             new == {Recorded(t, cl, l, k)}
         IN  Touches(t, cl, new) /\ Grown(t, cl) /\ Fresh(t, l, cl, new)
<1>1. k \in AccessKind /\ ClockLe(Bump(clocks[t], t), Bump(clocks[t], t))
  BY BumpGrown, LeRefl DEF AccessKind
<1>. QED BY <1>1, BumpGrown, OneFresh DEF PlainAccess, Touches

LEMMA MsgsStay ==
  ASSUME AInv, program' = program, UNCHANGED <<msgs, seen, nextMsg>>
  PROVE  MsgsOK(msgs', seen', nextMsg')
BY DEF AInv

(* Messages that stay are below clocks that grow. *)
LEMMA BelowStays ==
  ASSUME AInv, program' = program, msgs' = msgs, clocks' \in [Thread -> Clock],
         \A u \in Thread : ClockLe(clocks[u], clocks'[u])
  PROVE  MsgsBelow(msgs)'
<1> SUFFICES ASSUME NEW k \in Loc, NEW q \in DOMAIN msgs[k], NEW u \in Thread
             PROVE  msgs[k][q].clock[u] <= clocks'[u][u] /\ msgs[k][q].rel[u] <= clocks'[u][u]
  BY DEF MsgsBelow
<1>1. msgs[k][q].clock[u] <= clocks[u][u] /\ msgs[k][q].rel[u] <= clocks[u][u]
  BY DEF AInv, MsgsBelow
<1>2. msgs[k][q].clock[u] \in Nat /\ msgs[k][q].rel[u] \in Nat
  <2>1. msgs[k][q] \in Message(k)
    BY MsgOf DEF AInv, MsgsOK
  <2>. QED BY <2>1 DEF Message, Clock
<1>3. clocks[u][u] <= clocks'[u][u] /\ clocks[u][u] \in Nat /\ clocks'[u][u] \in Nat
  BY ClocksTyped DEF ClockLe, Clock, AInv
<1>. QED BY <1>1, <1>2, <1>3

LEMMA PlainKeeps ==
  ASSUME AInv, NEW t \in Thread, t \notin joined, ops < program.max, NEW l \in Loc,
         NEW k \in {"read", "write"}, NEW v \in program.vals, PlainAccess(t, l, k, v)
  PROVE  AInv'
<1> DEFINE cl == Bump(clocks[t], t)
<1> DEFINE new == {Recorded(t, cl, l, k)}
<1>1. Touches(t, cl, new) /\ Grown(t, cl) /\ Fresh(t, l, cl, new)
  BY PlainTouches
<1>2. /\ UNCHANGED <<program, msgs, seen, nextMsg>> /\ footprint' = footprint \cup new
      /\ bytes' = IF k = "write" THEN [b \in Byte |-> IF b \in l THEN v ELSE bytes[b]] ELSE bytes
  BY DEF PlainAccess
<1>3. Recorded(t, cl, l, k) \in new /\ Recorded(t, cl, l, k).kind = k
      /\ Recorded(t, cl, l, k).loc = l /\ Recorded(t, cl, l, k).clock = cl
  BY DEF Recorded
<1>4. cl[t] > clocks[t][t] /\ cl[t] \in Nat /\ clocks[t][t] \in Nat
  BY BumpGrown, ClocksTyped DEF AInv, Clock
<1> HIDE DEF cl, new
<1>5. /\ clocks' \in [Thread -> Clock] /\ OwnAhead' /\ AccessBelow' /\ JoinedBelow'
      /\ IsFiniteSet(footprint') /\ \A u \in Thread : ClockLe(clocks[u], clocks'[u])
      /\ \A e \in footprint' :
           e.tid \in Thread /\ e.clock \in Clock /\ e.loc \in Loc /\ e.kind \in AccessKind
  BY <1>1, TouchesKeep
<1>6. TypeOK' /\ MsgsOK(msgs, seen, nextMsg)'
  <2>1. bytes' \in [Byte -> program'.vals] /\ program' = program
    BY <1>2 DEF AInv, TypeOK
  <2>2. MsgsOK(msgs', seen', nextMsg')
    BY <1>2, MsgsStay
  <2>. QED BY <2>1, <2>2, <1>1, <1>5, RestKept, TypesFrom
<1>7. MsgsBelow(msgs)'
  BY <1>2, <1>5, BelowStays
<1>8. NewestIsMemory'
  <2> SUFFICES ASSUME NEW j \in Loc, msgs[j] # <<>>
               PROVE  \/ Last(msgs[j]).val = [b \in j |-> bytes'[b]]
                      \/ PlainSince(j, Last(msgs[j]).clock)'
    BY <1>2 DEF NewestIsMemory, Last
  <2> DEFINE c == Last(msgs[j]).clock
  <2>1. Last(msgs[j]) \in Message(j) /\ c[t] <= clocks[t][t] /\ c[t] \in Nat
    <3>1. MsgsTyped(msgs) /\ MsgsBelow(msgs)
      BY DEF AInv, MsgsOK
    <3>2. Len(msgs[j]) \in Nat /\ DOMAIN msgs[j] = 1 .. Len(msgs[j]) /\ Len(msgs[j]) > 0
          /\ \A q \in DOMAIN msgs[j] : msgs[j][q] \in Message(j)
      BY <3>1, MsgOf
    <3>3. Len(msgs[j]) \in DOMAIN msgs[j]
      BY <3>2
    <3>. QED BY <3>1, <3>2, <3>3 DEF MsgsBelow, Last, Message, Clock
  <2>2. ~ClockLe(cl, c)
    BY <2>1, <1>4 DEF ClockLe
  <2>3. (\E e \in footprint' : e.kind = "write" /\ e.loc \cap j # {} /\ ~ClockLe(e.clock, c))
          => PlainSince(j, Last(msgs[j]).clock)'
    BY <1>2 DEF PlainSince, PlainWrites, ClockLe
  <2>4. CASE k = "write" /\ l \cap j # {}
    BY <2>2, <2>3, <2>4, <1>2, <1>3
  <2>5. CASE ~(k = "write" /\ l \cap j # {})
    <3>1. \A b \in j : bytes'[b] = bytes[b]
      BY <2>5, <1>2 DEF Byte
    <3>2. [b \in j |-> bytes[b]] = [b \in j |-> bytes'[b]]
      BY <3>1
    <3>3. Last(msgs[j]).val = [b \in j |-> bytes[b]] \/ PlainSince(j, c)
      BY DEF AInv, NewestIsMemory
    <3>4. PlainSince(j, c) => \E e \in footprint' : e.kind = "write" /\ e.loc \cap j # {} /\ ~ClockLe(e.clock, c)
      BY <1>2 DEF PlainSince, PlainWrites
    <3>. QED BY <2>3, <3>2, <3>3, <3>4
  <2>. QED BY <2>4, <2>5
<1>. QED BY <1>5, <1>6, <1>7, <1>8 DEF AInv

LEMMA NewestStays ==
  ASSUME NewestIsMemory, UNCHANGED <<msgs, bytes, footprint>>
  PROVE  NewestIsMemory'
BY DEF NewestIsMemory, PlainSince, PlainWrites, ClockLe

LEMMA FailKeeps ==
  ASSUME AInv, ops < program.max, NEW e \in {"illegal", "unspecified"}, Fail(e)
  PROVE  AInv'
<1>1. outcome' = e /\ ops' = ops + 1
      /\ UNCHANGED <<program, clocks, joined, footprint, bytes, msgs, seen, nextMsg>>
  BY DEF Fail
<1>2. ops' \in 0 .. program'.max
  <2>1. ops \in 0 .. program.max /\ program.max \in Nat
    BY AtomicsAssumption DEF AInv, TypeOK
  <2>. QED BY <2>1, <1>1
<1>3. MsgsOK(msgs', seen', nextMsg')
  BY <1>1, MsgsStay
<1>4. TypeOK' /\ MsgsOK(msgs, seen, nextMsg)'
  <2>1. program' \in Programs /\ clocks' \in [Thread -> Clock] /\ joined' \subseteq Thread \ {0}
        /\ bytes' \in [Byte -> program'.vals] /\ outcome' \in {"running", "illegal", "unspecified"}
    BY <1>1 DEF AInv, TypeOK
  <2>2. \A x \in footprint' :
          x.tid \in Thread /\ x.clock \in Clock /\ x.loc \in Loc /\ x.kind \in AccessKind
    BY <1>1, EntryTyped DEF AInv
  <2>. QED BY <1>1, <1>2, <1>3, <2>1, <2>2, TypesFrom
<1>5. OwnAhead' /\ AccessBelow' /\ JoinedBelow' /\ MsgsBelow(msgs)' /\ IsFiniteSet(footprint')
  BY <1>1 DEF AInv, OwnAhead, AccessBelow, JoinedBelow, MsgsBelow, ClockLe
<1>6. NewestIsMemory'
  BY <1>1, NewestStays DEF AInv
<1>. QED BY <1>4, <1>5, <1>6 DEF AInv

LEMMA JoinKeeps ==
  ASSUME AInv, NEW u \in Thread, Join(u)
  PROVE  AInv'
<1> DEFINE b == Bump(clocks[0], 0)
<1> DEFINE c == Merge(b, clocks[u])
<1>0. 0 \in Thread /\ clocks \in [Thread -> Clock] /\ u # 0 /\ u \notin joined
  BY AtomicsAssumption DEF AInv, TypeOK, Join
<1>1. /\ joined' = joined \cup {u} /\ clocks' = [clocks EXCEPT ![0] = c]
      /\ UNCHANGED <<program, footprint, bytes, msgs, seen, nextMsg, ops, outcome>>
  BY DEF Join
<1>2. b \in Clock /\ ClockLe(clocks[0], b) /\ clocks[u] \in Clock /\ clocks[0] \in Clock
      /\ b[0] = clocks[0][0] + 1 /\ \A x \in Thread : x # 0 => b[x] = clocks[0][x]
  BY <1>0, BumpIs
<1> HIDE DEF b
<1>3. /\ c \in Clock /\ ClockLe(b, c) /\ ClockLe(clocks[u], c)
      /\ \A x \in Thread : c[x] = b[x] \/ c[x] = clocks[u][x]
  BY <1>2, MergeIs
<1> HIDE DEF c
<1>4. ClockLe(clocks[0], c)
  BY <1>2, <1>3, LeTrans
<1>5. clocks' \in [Thread -> Clock] /\ clocks'[0] = c /\ \A x \in Thread : x # 0 => clocks'[x] = clocks[x]
  BY <1>0, <1>1, <1>3
<1>6. \A x \in Thread : ClockLe(clocks[x], clocks'[x])
  BY <1>0, <1>4, <1>5, LeRefl
<1>7. OwnAhead'
  <2> SUFFICES ASSUME NEW x \in Thread, NEW y \in Thread PROVE clocks'[y][x] <= clocks'[x][x]
    BY DEF OwnAhead
  <2>1. /\ clocks[y][x] <= clocks[x][x] /\ clocks[u][x] <= clocks[x][x] /\ clocks[0][x] <= clocks[x][x]
        /\ clocks[y][x] \in Nat /\ clocks[x][x] \in Nat /\ clocks[u][x] \in Nat /\ clocks[0][x] \in Nat
    BY <1>0, ClocksTyped DEF AInv, OwnAhead
  <2>2. clocks[x][x] <= clocks'[x][x] /\ clocks'[x][x] \in Nat
    BY <1>5, <1>6 DEF ClockLe, Clock
  <2>3. CASE y # 0
    BY <2>1, <2>2, <2>3, <1>5
  <2>4. CASE y = 0 /\ x # 0
    BY <2>1, <2>4, <1>2, <1>3, <1>5
  <2>5. CASE y = 0 /\ x = 0
    BY <2>5, <2>2
  <2>. QED BY <2>3, <2>4, <2>5
<1>8. AccessBelow'
  <2> SUFFICES ASSUME NEW e \in footprint PROVE ClockLe(e.clock, clocks'[e.tid])
    BY <1>1 DEF AccessBelow, ClockLe
  <2>1. ClockLe(e.clock, clocks[e.tid]) /\ e.tid \in Thread /\ e.clock \in Clock
    BY EntryTyped DEF AInv, AccessBelow
  <2>. QED BY <2>1, <1>0, <1>5, <1>6, LeTrans
<1>9. JoinedBelow'
  <2> SUFFICES ASSUME NEW x \in joined \cup {u} PROVE ClockLe(clocks'[x], clocks'[0])
    BY <1>1 DEF JoinedBelow, ClockLe
  <2>1. x \in Thread /\ x # 0
    BY <1>0 DEF AInv, TypeOK
  <2>2. CASE x = u
    BY <2>1, <2>2, <1>3, <1>5
  <2>3. CASE x \in joined
    BY <2>1, <2>3, <1>0, <1>2, <1>3, <1>4, <1>5, LeTrans DEF AInv, JoinedBelow
  <2>. QED BY <2>2, <2>3
<1>10. TypeOK' /\ MsgsOK(msgs, seen, nextMsg)'
  <2>1. program' \in Programs /\ joined' \subseteq Thread \ {0} /\ ops' \in 0 .. program'.max
        /\ bytes' \in [Byte -> program'.vals] /\ outcome' \in {"running", "illegal", "unspecified"}
    BY <1>0, <1>1 DEF AInv, TypeOK
  <2>2. \A x \in footprint' :
          x.tid \in Thread /\ x.clock \in Clock /\ x.loc \in Loc /\ x.kind \in AccessKind
    BY <1>1, EntryTyped DEF AInv
  <2>3. MsgsOK(msgs', seen', nextMsg')
    BY <1>1, MsgsStay
  <2>. QED BY <1>1, <1>5, <2>1, <2>2, <2>3, TypesFrom
<1>11. MsgsBelow(msgs)'
  BY <1>1, <1>5, <1>6, BelowStays
<1>12. NewestIsMemory' /\ IsFiniteSet(footprint')
  BY <1>1, NewestStays DEF AInv
<1>. QED BY <1>7, <1>8, <1>9, <1>10, <1>11, <1>12 DEF AInv

(* The children have the ids 1 .. n in the order of their spawns, so none  *)
(* has seen more of main's steps than main.                                *)
LEMMA SpawnedAhead ==
  ASSUME program \in Programs
  PROVE  Cardinality(Spawned) \in Nat /\ \A t \in Spawned : t \in Nat /\ t <= Cardinality(Spawned)
<1>1. IsFiniteSet(Spawned)
  BY AtomicsAssumption, FS_Subset DEF Spawned
<1>2. ASSUME NEW t \in Spawned PROVE t \in Nat /\ t <= Cardinality(Spawned)
  <2>1. t \in Nat /\ t \in Thread \ {0} /\ program.ops[t] # {}
    BY AtomicsAssumption DEF Spawned
  <2>2. 1 .. t \in SUBSET Spawned
    <3>1. \A u \in 1 .. t : u \in Thread /\ program.ops[u] # {}
      BY <2>1, AtomicsAssumption
    <3>. QED BY <3>1 DEF Spawned
  <2>3. Cardinality(1 .. t) = t
    <3>1. 1 \in Int /\ t \in Int /\ ~(1 > t) /\ t - 1 + 1 = t
      BY <2>1
    <3>. QED BY <3>1, FS_Interval
  <2>. QED BY <1>1, <2>1, <2>2, <2>3, FS_Subset
<1>. QED BY <1>1, <1>2, FS_CardinalityType

LEMMA AInitial == Init => AInv
<1> SUFFICES ASSUME Init PROVE AInv
  OBVIOUS
<1> DEFINE first == [t \in Thread |-> IF t = 0 THEN Cardinality(Spawned) ELSE IF t \in Spawned THEN t ELSE 0]
<1>1. /\ program \in Programs /\ joined = Thread \ ({0} \cup Spawned) /\ footprint = {}
      /\ bytes = [b \in Byte |-> 0] /\ msgs = [l \in Loc |-> <<>>]
      /\ seen = [t \in Thread |-> [l \in Loc |-> 0]] /\ nextMsg = 1 /\ ops = 0 /\ outcome = "running"
      /\ clocks = [t \in Thread |-> [ZeroClock EXCEPT ![0] = first[t]]]
  BY DEF Init
<1>2. 0 \in Thread /\ 0 \in program.vals /\ program.max \in Nat
  BY <1>1, AtomicsAssumption
<1>3. \A t \in Thread : first[t] \in Nat /\ first[t] <= first[0]
  <2>1. /\ Cardinality(Spawned) \in Nat
        /\ \A t \in Spawned : t \in Nat /\ t <= Cardinality(Spawned)
    BY <1>1, SpawnedAhead
  <2>2. \A t \in Thread : first[t] = IF t = 0 THEN Cardinality(Spawned) ELSE IF t \in Spawned THEN t ELSE 0
    OBVIOUS
  <2> HIDE DEF first
  <2>3. first[0] = Cardinality(Spawned)
    BY <2>2, <1>2
  <2> TAKE t \in Thread
  <2>4. CASE t = 0
    BY <2>1, <2>3, <2>4
  <2>5. CASE t # 0 /\ t \in Spawned
    BY <2>1, <2>2, <2>3, <2>5
  <2>6. CASE t # 0 /\ t \notin Spawned
    <3>1. first[t] = 0
      BY <2>2, <2>6
    <3>. QED BY <2>1, <2>3, <3>1
  <2>. QED BY <2>4, <2>5, <2>6
<1> HIDE DEF first
<1>4. \A t, u \in Thread : clocks[t][u] = IF u = 0 THEN first[t] ELSE 0
  BY <1>1, <1>2 DEF ZeroClock
<1>5. clocks \in [Thread -> Clock]
  BY <1>1, <1>2, <1>3 DEF ZeroClock, Clock
<1>6. DOMAIN <<>> = {} /\ \A S : <<>> \in Seq(S)
  OBVIOUS
<1>7. \A l \in Loc : msgs[l] = <<>>
  BY <1>1
<1>8. TypeOK
  BY <1>1, <1>2, <1>5, <1>6, <1>7 DEF TypeOK
<1>9. MsgsOK(msgs, seen, nextMsg)
  BY <1>1, <1>6, <1>7 DEF MsgsOK, MsgsTyped, IdsBelow, IdsApart, LiveApart, ViewsLive
<1>10. OwnAhead /\ JoinedBelow
  <2>1. OwnAhead
    BY <1>2, <1>3, <1>4 DEF OwnAhead
  <2>2. JoinedBelow
    <3> SUFFICES ASSUME NEW u \in joined, NEW x \in Thread PROVE clocks[u][x] <= clocks[0][x]
      BY DEF JoinedBelow, ClockLe
    <3>1. u \in Thread
      BY <1>1
    <3>. QED BY <3>1, <1>2, <1>3, <1>4
  <2>. QED BY <2>1, <2>2
<1>11. AccessBelow /\ IsFiniteSet(footprint)
  BY <1>1, FS_EmptySet DEF AccessBelow
<1>12. MsgsBelow(msgs) /\ NewestIsMemory
  BY <1>6, <1>7 DEF MsgsBelow, NewestIsMemory
<1>. QED BY <1>8, <1>9, <1>10, <1>11, <1>12 DEF AInv

LEMMA OperateKeeps ==
  ASSUME AInv, NEW t \in Thread, NEW o \in program.ops[t], Operate(t, o)
  PROVE  AInv'
<1>0. TypeOK /\ o.loc \in Loc
  BY OpTyped DEF AInv
<1>1. t \notin joined /\ ops < program.max
  BY <1>0, OperateIs
<1>2. CASE Failed(t, o)
  BY <1>1, <1>2, FailKeeps DEF Failed
<1>3. CASE Plains(t, o)
  BY <1>0, <1>1, <1>3, PlainKeeps DEF Plains
<1>4. CASE LoadsIt(t, o)
  <2>1. PICK ord, p : LoadAt(t, o.loc, ord, p)
    BY <1>4 DEF LoadsIt
  <2>. QED BY <1>0, <1>1, <2>1, LoadReads, ReadsKeep
<1>5. CASE StoresIt(t, o)
  <2>1. PICK p \in Places(o.loc), v \in program.vals : StoreAt(t, o.loc, o.ord, p, v)
    BY <1>5 DEF StoresIt
  <2>. QED BY <1>0, <1>1, <2>1, StoreWrites, WritesKeep
<1>6. CASE RmwsIt(t, o)
  <2> DEFINE c == Bump(clocks[t], t)
  <2>1. PICK p \in Places(o.loc), v \in program.vals : Takes(t, o.loc, o.ord, p, v, c, RmwNew(t, o.loc))
    BY <1>6 DEF RmwsIt
  <2> DEFINE cl == Adopt(o.ord, c, Located(o.loc)[o.loc][p])
  <2> DEFINE m == TakeMsg(t, o.loc, o.ord, p, v, c)
  <2>2. Grown(t, c)
    BY BumpGrown
  <2>3. /\ Writes(t, o.loc, p + 1, m, cl, RmwNew(t, o.loc)) /\ Fits(t, o.loc, p + 1, m, cl)
        /\ Grown(t, cl) /\ ClockLe(c, cl)
    BY <1>0, <2>1, <2>2, TakeWrites
  <2>4. Fresh(t, o.loc, cl, RmwNew(t, o.loc))
    BY <1>0, <2>3, OneFresh, KindsTyped DEF RmwNew
  <2> HIDE DEF cl, m
  <2>. QED BY <1>0, <1>1, <2>3, <2>4, WritesKeep
<1>7. CASE CasesIt(t, o)
  <2> DEFINE c == CasClock(t)
  <2>1. PICK p \in Places(o.loc), v \in program.vals : Takes(t, o.loc, o.ord, p, v, c, CasNew(t, o.loc))
    BY <1>7 DEF CasesIt
  <2> DEFINE cl == Adopt(o.ord, c, Located(o.loc)[o.loc][p])
  <2> DEFINE m == TakeMsg(t, o.loc, o.ord, p, v, c)
  <2>2. Grown(t, c)
    BY BumpGrown
  <2>3. /\ Writes(t, o.loc, p + 1, m, cl, CasNew(t, o.loc)) /\ Fits(t, o.loc, p + 1, m, cl)
        /\ Grown(t, cl) /\ ClockLe(c, cl)
    BY <1>0, <2>1, <2>2, TakeWrites
  <2>4. Fresh(t, o.loc, cl, CasNew(t, o.loc))
    BY <1>0, <2>3, TwoFresh DEF Grown
  <2> HIDE DEF cl, m
  <2>. QED BY <1>0, <1>1, <2>3, <2>4, WritesKeep
<1>. QED BY <1>0, <1>2, <1>3, <1>4, <1>5, <1>6, <1>7, OperateIs

LEMMA StutterKeeps == ASSUME AInv, UNCHANGED avars PROVE AInv'
<1>1. UNCHANGED <<program, clocks, joined, footprint, bytes, msgs, seen, nextMsg, ops, outcome>>
  BY DEF avars
<1>2. MsgsOK(msgs', seen', nextMsg')
  BY <1>1, MsgsStay
<1>3. TypeOK' /\ MsgsOK(msgs, seen, nextMsg)'
  <2>1. program' \in Programs /\ clocks' \in [Thread -> Clock] /\ joined' \subseteq Thread \ {0}
        /\ bytes' \in [Byte -> program'.vals] /\ outcome' \in {"running", "illegal", "unspecified"}
        /\ ops' \in 0 .. program'.max
    BY <1>1 DEF AInv, TypeOK
  <2>2. \A x \in footprint' :
          x.tid \in Thread /\ x.clock \in Clock /\ x.loc \in Loc /\ x.kind \in AccessKind
    BY <1>1, EntryTyped DEF AInv
  <2>. QED BY <1>1, <1>2, <2>1, <2>2, TypesFrom
<1>4. OwnAhead' /\ AccessBelow' /\ JoinedBelow' /\ MsgsBelow(msgs)' /\ IsFiniteSet(footprint')
  BY <1>1 DEF AInv, OwnAhead, AccessBelow, JoinedBelow, MsgsBelow, ClockLe
<1>5. NewestIsMemory'
  BY <1>1, NewestStays DEF AInv
<1>. QED BY <1>3, <1>4, <1>5 DEF AInv

LEMMA AInductive == AInv /\ [Next]_avars => AInv'
<1> SUFFICES ASSUME AInv, [Next]_avars PROVE AInv'
  OBVIOUS
<1>1. CASE UNCHANGED avars
  BY <1>1, StutterKeeps
<1>2. ASSUME NEW t \in Thread, NEW o \in program.ops[t], Operate(t, o) PROVE AInv'
  BY <1>2, OperateKeeps
<1>3. ASSUME NEW t \in Thread, Join(t) PROVE AInv'
  BY <1>3, JoinKeeps
<1>. QED BY <1>1, <1>2, <1>3 DEF Next

LEMMA AInvariant == Spec => []AInv
<1>. QED BY AInitial, AInductive, PTL DEF Spec

(* Every variable of the atomics keeps its type, whatever the threads do.  *)
THEOREM TypeCorrect == Spec => []TypeOK
<1>1. AInv => TypeOK
  BY DEF AInv
<1>. QED BY <1>1, AInvariant, PTL

(* Two live atomic locations never share a byte, and no thread keeps a     *)
(* view of a message that was retired (retireIdx, src/ZigLean/Mem/         *)
(* Basic.lean).                                                            *)
THEOREM LocationsApart == Spec => []LocationsDisjoint
<1>1. AInv => LocationsDisjoint
  BY DEF AInv, MsgsOK, LiveApart, ViewsLive, LocationsDisjoint
<1>. QED BY <1>1, AInvariant, PTL

(* The newest message of a location is what memory holds, unless a plain   *)
(* write came after it.                                                    *)
THEOREM NewestInMemory == Spec => []NewestIsMemory
<1>1. AInv => NewestIsMemory
  BY DEF AInv
<1>. QED BY <1>1, AInvariant, PTL

-----------------------------------------------------------------------------
(***************************************************************************)
(* The history h of a run, with its accesses fp, clocks cs and messages ms *)
(* (ids below nx).  A clock C is exact for a set D of events: whoever has  *)
(* reached the number of an event has it in D, and C is above all that an  *)
(* event in D recorded or wrote.                                           *)
(***************************************************************************)

Event ==
  [tid : Thread, loc : Loc \cup {{}}, op : OpName \cup {"join"}, plain : BOOLEAN, rel : BOOLEAN,
   clk : SUBSET (Nat \ {0}), r : Nat, w : Nat, past : SUBSET Nat, heads : SUBSET Nat]

(* e is an access of event n. *)
Of(h, e, n) == h[n].tid = e.tid /\ e.clock[e.tid] \in h[n].clk

Reached(h, n, C) == \E k \in h[n].clk : k <= C[h[n].tid]

Above(h, fp, ms, n, C) ==
  /\ \A e \in fp : Of(h, e, n) => ClockLe(e.clock, C)
  /\ \A l \in Loc : \A p \in DOMAIN ms[l] : ms[l][p].id = h[n].w => ClockLe(ms[l][p].clock, C)

Exact(h, fp, ms, C, D) ==
  \A n \in DOMAIN h : (n \in D => Above(h, fp, ms, n, C)) /\ (Reached(h, n, C) => n \in D)

(* The events of A with what happened before them. *)
Closed(h, A) == A \cup UNION {h[n].past : n \in A}
Own(h, t)    == {n \in DOMAIN h : h[n].tid = t}
Past(h, t)   == Closed(h, Own(h, t))

(* What an acquire read of message id synchronizes with. *)
Chain(h, l, id) == UNION {h[n].heads : n \in {k \in DOMAIN h : h[k].loc = l /\ h[k].w = id}}
Freed(h, l, id) == {n \in Chain(h, l, id) : h[n].rel}

HistTyped(h, nx) ==
  /\ h \in Seq(Event)
  /\ \A n \in DOMAIN h :
       /\ h[n].past \subseteq 1 .. n - 1
       /\ h[n].heads \subseteq 1 .. n
       /\ h[n].r < nx /\ h[n].w < nx

(* The numbers of the accesses of a thread tell its events apart. *)
Numbers(h, cs) ==
  /\ \A n \in DOMAIN h : \A k \in h[n].clk : k <= cs[h[n].tid][h[n].tid]
  /\ \A m, n \in DOMAIN h : h[m].tid = h[n].tid /\ m # n => h[m].clk \cap h[n].clk = {}

EveryAccess(h, fp) == \A e \in fp : \E n \in DOMAIN h : Of(h, e, n)

WritesApart(h) == \A m, n \in DOMAIN h : h[m].w # 0 /\ h[m].w = h[n].w => m = n

MsgEvents(h, ms) ==
  \A l \in Loc : \A p \in DOMAIN ms[l], n \in DOMAIN h :
    ms[l][p].id = h[n].w =>
      h[n].loc = l /\ ms[l][p].rmwOf = h[n].r /\ Reached(h, n, ms[l][p].clock)

ClocksExact(h, fp, cs, ms) == \A t \in Thread : Exact(h, fp, ms, cs[t], Past(h, t))

RelsExact(h, fp, ms) ==
  \A l \in Loc : \A p \in DOMAIN ms[l] :
    Exact(h, fp, ms, ms[l][p].rel, Closed(h, Freed(h, l, ms[l][p].id)))

XInv(h, fp, cs, ms, nx) ==
  /\ HistTyped(h, nx)
  /\ Numbers(h, cs)
  /\ EveryAccess(h, fp)
  /\ WritesApart(h)
  /\ MsgEvents(h, ms)
  /\ ClocksExact(h, fp, cs, ms)
  /\ RelsExact(h, fp, ms)

(* What it needs of the invariant of Atomics. *)
MsgTyped(m, cs, nx) ==
  /\ m.id \in Nat \ {0} /\ m.id < nx /\ m.clock \in Clock /\ m.rel \in Clock /\ m.rmwOf \in Nat
  /\ \A t \in Thread : m.clock[t] <= cs[t][t] /\ m.rel[t] <= cs[t][t]

Base(fp, cs, ms, nx) ==
  /\ cs \in [Thread -> Clock]
  /\ \A t, u \in Thread : cs[u][t] <= cs[t][t]
  /\ \A e \in fp : e.tid \in Thread /\ e.clock \in Clock /\ ClockLe(e.clock, cs[e.tid])
  /\ \A l \in Loc : \A p \in DOMAIN ms[l] : MsgTyped(ms[l][p], cs, nx)
  /\ nx \in Nat

LEMMA EventTyped ==
  ASSUME NEW h, NEW nx, HistTyped(h, nx)
  PROVE  /\ Len(h) \in Nat /\ DOMAIN h = 1 .. Len(h)
         /\ \A n \in DOMAIN h :
              /\ h[n] \in Event /\ n \in Nat /\ n <= Len(h)
              /\ h[n].tid \in Thread /\ h[n].clk \subseteq Nat \ {0}
              /\ h[n].r \in Nat /\ h[n].w \in Nat
              /\ h[n].past \subseteq DOMAIN h /\ h[n].heads \subseteq DOMAIN h
<1>1. h \in Seq(Event)
  BY DEF HistTyped
<1>2. Len(h) \in Nat /\ DOMAIN h = 1 .. Len(h)
  BY <1>1, LenProperties
<1>3. SUFFICES ASSUME NEW n \in DOMAIN h
               PROVE  /\ h[n] \in Event /\ n \in Nat /\ n <= Len(h)
                      /\ h[n].tid \in Thread /\ h[n].clk \subseteq Nat \ {0}
                      /\ h[n].r \in Nat /\ h[n].w \in Nat
                      /\ h[n].past \subseteq DOMAIN h /\ h[n].heads \subseteq DOMAIN h
  BY <1>2
<1>4. h[n] \in Event /\ n \in Nat /\ n <= Len(h)
  BY <1>1, <1>2, ElementOfSeq
<1>5. h[n].past \subseteq DOMAIN h /\ h[n].heads \subseteq DOMAIN h
  <2>1. h[n].past \subseteq 1 .. n - 1 /\ h[n].heads \subseteq 1 .. n
    BY DEF HistTyped
  <2>2. 1 .. n - 1 \subseteq 1 .. Len(h) /\ 1 .. n \subseteq 1 .. Len(h)
    BY <1>2, <1>4
  <2>. QED BY <2>1, <2>2, <1>2
<1>. QED BY <1>4, <1>5 DEF Event

LEMMA ClosedTyped ==
  ASSUME NEW h, NEW nx, HistTyped(h, nx)
  PROVE  /\ \A A \in SUBSET DOMAIN h : Closed(h, A) \subseteq DOMAIN h
         /\ \A t : Own(h, t) \subseteq DOMAIN h /\ Past(h, t) \subseteq DOMAIN h
         /\ \A l, id : Chain(h, l, id) \subseteq DOMAIN h /\ Freed(h, l, id) \subseteq DOMAIN h
<1>1. \A n \in DOMAIN h : h[n].past \subseteq DOMAIN h /\ h[n].heads \subseteq DOMAIN h
  BY EventTyped
<1>. QED BY <1>1 DEF Closed, Own, Past, Chain, Freed

(* More of a clock is above what less of it is above. *)
LEMMA AboveGrows ==
  ASSUME NEW h, NEW fp, NEW cs, NEW ms, NEW nx, Base(fp, cs, ms, nx), NEW n,
         NEW C \in Clock, NEW D \in Clock, ClockLe(C, D), Above(h, fp, ms, n, C)
  PROVE  Above(h, fp, ms, n, D)
<1>1. \A e \in fp : Of(h, e, n) => ClockLe(e.clock, D)
  BY LeTrans DEF Above, Base
<1>2. \A l \in Loc : \A p \in DOMAIN ms[l] : ms[l][p].id = h[n].w => ClockLe(ms[l][p].clock, D)
  BY LeTrans DEF Above, Base, MsgTyped
<1>. QED BY <1>1, <1>2 DEF Above

LEMMA ExactMerge ==
  ASSUME NEW h, NEW fp, NEW cs, NEW ms, NEW nx, Base(fp, cs, ms, nx), HistTyped(h, nx),
         NEW C \in Clock, NEW D \in Clock, NEW A, NEW B,
         Exact(h, fp, ms, C, A), Exact(h, fp, ms, D, B)
  PROVE  Exact(h, fp, ms, Merge(C, D), A \cup B)
<1>1. /\ Merge(C, D) \in Clock /\ ClockLe(C, Merge(C, D)) /\ ClockLe(D, Merge(C, D))
      /\ \A t \in Thread : Merge(C, D)[t] = C[t] \/ Merge(C, D)[t] = D[t]
  BY MergeIs
<1> SUFFICES ASSUME NEW n \in DOMAIN h
             PROVE  /\ n \in A \cup B => Above(h, fp, ms, n, Merge(C, D))
                    /\ Reached(h, n, Merge(C, D)) => n \in A \cup B
  BY DEF Exact
<1>2. n \in A => Above(h, fp, ms, n, Merge(C, D))
  BY <1>1, AboveGrows DEF Exact
<1>3. n \in B => Above(h, fp, ms, n, Merge(C, D))
  BY <1>1, AboveGrows DEF Exact
<1>4. Reached(h, n, Merge(C, D)) => Reached(h, n, C) \/ Reached(h, n, D)
  BY <1>1, EventTyped DEF Reached
<1>. QED BY <1>2, <1>3, <1>4 DEF Exact

(* The own steps of a thread make its clock no less exact. *)
LEMMA ExactBump ==
  ASSUME NEW h, NEW fp, NEW cs, NEW ms, NEW nx, Base(fp, cs, ms, nx), HistTyped(h, nx),
         NEW t \in Thread, NEW c \in Clock,
         ClockLe(cs[t], c), \A u \in Thread : u # t => c[u] = cs[t][u],
         Exact(h, fp, ms, cs[t], Past(h, t))
  PROVE  Exact(h, fp, ms, c, Past(h, t))
<1>1. cs[t] \in Clock
  BY DEF Base
<1> SUFFICES ASSUME NEW n \in DOMAIN h
             PROVE  /\ n \in Past(h, t) => Above(h, fp, ms, n, c)
                    /\ Reached(h, n, c) => n \in Past(h, t)
  BY DEF Exact
<1>2. n \in Past(h, t) => Above(h, fp, ms, n, c)
  BY <1>1, AboveGrows DEF Exact
<1>3. h[n].tid = t => n \in Past(h, t)
  BY DEF Past, Closed, Own
<1>4. h[n].tid # t /\ Reached(h, n, c) => Reached(h, n, cs[t])
  BY EventTyped DEF Reached
<1>. QED BY <1>2, <1>3, <1>4 DEF Exact

(* An acquire adds what the release sequence released. *)
LEMMA ExactAdopt ==
  ASSUME NEW h, NEW fp, NEW cs, NEW ms, NEW nx, Base(fp, cs, ms, nx), XInv(h, fp, cs, ms, nx),
         NEW c \in Clock, NEW D, Exact(h, fp, ms, c, D), NEW ord,
         NEW l \in Loc, NEW p \in DOMAIN ms[l]
  PROVE  Exact(h, fp, ms, Adopt(ord, c, ms[l][p]),
               D \cup Closed(h, IF IsAcq(ord) THEN Freed(h, l, ms[l][p].id) ELSE {}))
<1>1. ms[l][p].rel \in Clock
  BY DEF Base, MsgTyped
<1>2. CASE IsAcq(ord)
  <2>1. Exact(h, fp, ms, ms[l][p].rel, Closed(h, Freed(h, l, ms[l][p].id)))
    BY DEF XInv, RelsExact
  <2>2. Exact(h, fp, ms, Merge(c, ms[l][p].rel), D \cup Closed(h, Freed(h, l, ms[l][p].id)))
    BY <1>1, <2>1, ExactMerge DEF XInv
  <2>. QED BY <1>2, <2>2 DEF Adopt
<1>3. CASE ~IsAcq(ord)
  <2>1. D \cup Closed(h, {}) = D
    BY DEF Closed
  <2>. QED BY <1>3, <2>1 DEF Adopt
<1>. QED BY <1>2, <1>3

(***************************************************************************)
(* A new event ev, with the accesses new, and the messages ms2 after it.   *)
(***************************************************************************)

(* Nothing new belongs to an old event. *)
Apart(h, ms, ev, new, ms2) ==
  /\ \A e \in new : e.tid = ev.tid /\ e.clock[e.tid] \in ev.clk
  /\ \A n \in DOMAIN h : h[n].tid = ev.tid => h[n].clk \cap ev.clk = {}
  /\ \A l \in Loc : \A q \in DOMAIN ms2[l] :
       \/ \E p \in DOMAIN ms[l] : ms2[l][q] = ms[l][p]
       \/ \A n \in DOMAIN h : ms2[l][q].id # h[n].w

LEMMA AppendIs ==
  ASSUME NEW h \in Seq(Event), NEW ev \in Event
  PROVE  /\ Append(h, ev) \in Seq(Event)
         /\ Len(h) + 1 \in Nat /\ Len(h) + 1 \notin DOMAIN h
         /\ DOMAIN Append(h, ev) = DOMAIN h \cup {Len(h) + 1}
         /\ Append(h, ev)[Len(h) + 1] = ev
         /\ \A n \in DOMAIN h : Append(h, ev)[n] = h[n] /\ n < Len(h) + 1
<1>1. Len(h) \in Nat /\ DOMAIN h = 1 .. Len(h)
  BY LenProperties
<1>2. /\ Append(h, ev) \in Seq(Event) /\ Len(Append(h, ev)) = Len(h) + 1
      /\ \A i \in 1 .. Len(h) : Append(h, ev)[i] = h[i]
      /\ Append(h, ev)[Len(h) + 1] = ev
  BY AppendProperties
<1>3. DOMAIN Append(h, ev) = 1 .. Len(h) + 1
  BY <1>2, LenProperties
<1>. QED BY <1>1, <1>2, <1>3

LEMMA AboveStays ==
  ASSUME NEW h \in Seq(Event), NEW fp, NEW ms, NEW ev \in Event, NEW new, NEW ms2,
         Apart(h, ms, ev, new, ms2), NEW n \in DOMAIN h, NEW C, Above(h, fp, ms, n, C)
  PROVE  Above(Append(h, ev), fp \cup new, ms2, n, C)
<1>1. Append(h, ev)[n] = h[n]
  BY AppendIs
<1>2. \A e : Of(Append(h, ev), e, n) <=> Of(h, e, n)
  BY <1>1 DEF Of
<1>3. \A e \in new : ~Of(h, e, n)
  BY DEF Of, Apart
<1>4. \A e \in fp \cup new : Of(Append(h, ev), e, n) => ClockLe(e.clock, C)
  BY <1>2, <1>3 DEF Above
<1>5. \A l \in Loc : \A q \in DOMAIN ms2[l] : ms2[l][q].id = h[n].w => ClockLe(ms2[l][q].clock, C)
  BY DEF Apart, Above
<1>. QED BY <1>1, <1>4, <1>5 DEF Above

LEMMA ReachedStays ==
  ASSUME NEW h \in Seq(Event), NEW ev \in Event, NEW C
  PROVE  /\ \A n \in DOMAIN h : Reached(Append(h, ev), n, C) <=> Reached(h, n, C)
         /\ Reached(Append(h, ev), Len(h) + 1, C) <=> \E k \in ev.clk : k <= C[ev.tid]
BY AppendIs DEF Reached

(* A clock that has not seen the new event stays exact. *)
LEMMA ExactStays ==
  ASSUME NEW h \in Seq(Event), NEW fp, NEW ms, NEW ev \in Event, NEW new, NEW ms2,
         Apart(h, ms, ev, new, ms2), NEW C, NEW D \in SUBSET DOMAIN h, Exact(h, fp, ms, C, D),
         \A k \in ev.clk : ~(k <= C[ev.tid])
  PROVE  Exact(Append(h, ev), fp \cup new, ms2, C, D)
<1> SUFFICES ASSUME NEW n \in DOMAIN Append(h, ev)
             PROVE  /\ n \in D => Above(Append(h, ev), fp \cup new, ms2, n, C)
                    /\ Reached(Append(h, ev), n, C) => n \in D
  BY DEF Exact
<1>1. CASE n \in DOMAIN h
  BY <1>1, AboveStays, ReachedStays DEF Exact
<1>2. CASE n = Len(h) + 1
  BY <1>2, AppendIs, ReachedStays
<1>. QED BY <1>1, <1>2, AppendIs

(* One that is above the new event is exact with it. *)
LEMMA ExactWithNew ==
  ASSUME NEW h \in Seq(Event), NEW fp, NEW ms, NEW ev \in Event, NEW new, NEW ms2,
         Apart(h, ms, ev, new, ms2), NEW C, NEW D, Exact(h, fp, ms, C, D),
         Above(Append(h, ev), fp \cup new, ms2, Len(h) + 1, C)
  PROVE  Exact(Append(h, ev), fp \cup new, ms2, C, D \cup {Len(h) + 1})
<1> SUFFICES ASSUME NEW n \in DOMAIN Append(h, ev)
             PROVE  /\ n \in D \cup {Len(h) + 1} => Above(Append(h, ev), fp \cup new, ms2, n, C)
                    /\ Reached(Append(h, ev), n, C) => n \in D \cup {Len(h) + 1}
  BY DEF Exact
<1>1. CASE n \in DOMAIN h
  BY <1>1, AboveStays, ReachedStays, AppendIs DEF Exact
<1>2. CASE n = Len(h) + 1
  BY <1>2
<1>. QED BY <1>1, <1>2, AppendIs

LEMMA ClosedSame ==
  ASSUME NEW h \in Seq(Event), NEW ev \in Event, NEW A, A \subseteq DOMAIN h
  PROVE  Closed(Append(h, ev), A) = Closed(h, A)
<1>1. \A n \in A : Append(h, ev)[n].past = h[n].past
  BY AppendIs
<1>. QED BY <1>1 DEF Closed

LEMMA ClosedStays ==
  ASSUME NEW h \in Seq(Event), NEW ev \in Event, NEW A \in SUBSET DOMAIN h
  PROVE  Closed(Append(h, ev), A \cup {Len(h) + 1}) = Closed(h, A) \cup ev.past \cup {Len(h) + 1}
<1>1. \A n \in A : Append(h, ev)[n].past = h[n].past
  BY AppendIs
<1>2. Append(h, ev)[Len(h) + 1].past = ev.past
  BY AppendIs
<1>. QED BY <1>1, <1>2 DEF Closed

LEMMA OwnStays ==
  ASSUME NEW h \in Seq(Event), NEW ev \in Event
  PROVE  /\ \A u : u # ev.tid => Own(Append(h, ev), u) = Own(h, u)
         /\ Own(Append(h, ev), ev.tid) = Own(h, ev.tid) \cup {Len(h) + 1}
BY AppendIs DEF Own

LEMMA PastStays ==
  ASSUME NEW h \in Seq(Event), NEW ev \in Event, Past(h, ev.tid) \subseteq ev.past
  PROVE  /\ \A u : u # ev.tid => Past(Append(h, ev), u) = Past(h, u)
         /\ Past(Append(h, ev), ev.tid) = ev.past \cup {Len(h) + 1}
<1>1. ASSUME NEW u, u # ev.tid PROVE Past(Append(h, ev), u) = Past(h, u)
  <2> DEFINE A == Own(h, u)
  <2>1. Own(Append(h, ev), u) = A /\ A \in SUBSET DOMAIN h
    BY <1>1, OwnStays DEF Own
  <2>2. Past(h, u) = Closed(h, A)
    BY DEF Past
  <2> HIDE DEF A
  <2>. QED BY <2>1, <2>2, ClosedSame DEF Past
<1>2. Past(Append(h, ev), ev.tid) = Past(h, ev.tid) \cup ev.past \cup {Len(h) + 1}
  <2> DEFINE A == Own(h, ev.tid)
  <2>1. Own(Append(h, ev), ev.tid) = A \cup {Len(h) + 1} /\ A \in SUBSET DOMAIN h
    BY OwnStays DEF Own
  <2>2. Past(h, ev.tid) = Closed(h, A)
    BY DEF Past
  <2> HIDE DEF A
  <2>. QED BY <2>1, <2>2, ClosedStays DEF Past
<1>. QED BY <1>1, <1>2

(* The release sequence of an old message is as it was; that of the new    *)
(* one has the new event, and what the RMW carries on.                     *)
LEMMA ChainStays ==
  ASSUME NEW h \in Seq(Event), NEW ev \in Event,
         \A n \in DOMAIN h : h[n].heads \subseteq DOMAIN h
  PROVE  /\ \A l, id : id # ev.w => Chain(Append(h, ev), l, id) = Chain(h, l, id)
                                    /\ Freed(Append(h, ev), l, id) = Freed(h, l, id)
         /\ (\A n \in DOMAIN h : h[n].w # ev.w) => Chain(Append(h, ev), ev.loc, ev.w) = ev.heads
<1>1. \A l, id : id # ev.w => Chain(Append(h, ev), l, id) = Chain(h, l, id)
  BY AppendIs DEF Chain
<1>2. \A l, id : id # ev.w => Freed(Append(h, ev), l, id) = Freed(h, l, id)
  <2> TAKE l, id
  <2> HAVE id # ev.w
  <2>1. Chain(h, l, id) \subseteq DOMAIN h
    BY DEF Chain
  <2>2. \A n \in Chain(h, l, id) : Append(h, ev)[n].rel = h[n].rel
    BY <2>1, AppendIs
  <2>. QED BY <1>1, <2>2 DEF Freed
<1>3. ASSUME \A n \in DOMAIN h : h[n].w # ev.w
      PROVE  Chain(Append(h, ev), ev.loc, ev.w) = ev.heads
  <2>1. {k \in DOMAIN Append(h, ev) : Append(h, ev)[k].loc = ev.loc /\ Append(h, ev)[k].w = ev.w}
          = {Len(h) + 1}
    BY <1>3, AppendIs
  <2>2. Append(h, ev)[Len(h) + 1].heads = ev.heads
    BY AppendIs
  <2>. QED BY <2>1, <2>2 DEF Chain
<1>. QED BY <1>1, <1>2, <1>3

(* A step whose event is ev keeps the history exact.  It reads and writes  *)
(* as ev says, from is what it synchronizes with, cl its new clock.        *)
NewMsg(h, fp, cs, ms, ev, cl, m) ==
  LET freed == {n \in ev.heads \cap DOMAIN h : h[n].rel}
  IN  /\ m.id = ev.w /\ m.clock = cl /\ m.rmwOf = ev.r /\ m.rel \in Clock
      /\ \E k \in ev.clk : k <= cl[ev.tid]
      /\ IF ev.rel
           THEN Exact(h, fp, ms, m.rel, Closed(h, freed) \cup ev.past) /\ ClockLe(cl, m.rel)
           ELSE Exact(h, fp, ms, m.rel, Closed(h, freed)) /\ m.rel[ev.tid] <= cs[ev.tid][ev.tid]

StepIs(h, fp, cs, ms, nx, ev, new, cl, cs2, ms2, nx2) ==
  /\ ev \in Event
  /\ Past(h, ev.tid) \subseteq ev.past /\ ev.past \subseteq DOMAIN h
  /\ Len(h) + 1 \in ev.heads \/ ev.w = 0
  /\ ev.heads \subseteq DOMAIN h \cup {Len(h) + 1}
  /\ cl \in Clock /\ ClockLe(cs[ev.tid], cl)
  /\ cs2 \in [Thread -> Clock] /\ cs2[ev.tid] = cl
  /\ \A u \in Thread : u # ev.tid => cs2[u] = cs[u]
  /\ \A k \in ev.clk : cs[ev.tid][ev.tid] < k /\ k <= cl[ev.tid]
  /\ \A e \in new :
       /\ e.tid = ev.tid /\ e.clock \in Clock /\ e.clock[e.tid] \in ev.clk
       /\ ClockLe(e.clock, cl)
  /\ Exact(h, fp, ms, cl, ev.past)
  /\ nx2 \in Nat /\ nx <= nx2 /\ ev.r < nx2 /\ ev.w < nx2
  /\ ev.w = 0 \/ nx <= ev.w
  /\ \A l \in Loc : \A q \in DOMAIN ms2[l] :
       \/ \E p \in DOMAIN ms[l] : ms2[l][q] = ms[l][p]
       \/ ev.w # 0 /\ l = ev.loc /\ NewMsg(h, fp, cs, ms, ev, cl, ms2[l][q])

LEMMA StepApart ==
  ASSUME NEW h, NEW fp, NEW cs, NEW ms, NEW nx, Base(fp, cs, ms, nx), XInv(h, fp, cs, ms, nx),
         NEW ev, NEW new, NEW cl, NEW cs2, NEW ms2, NEW nx2,
         StepIs(h, fp, cs, ms, nx, ev, new, cl, cs2, ms2, nx2)
  PROVE  /\ h \in Seq(Event) /\ ev \in Event /\ ev.tid \in Thread /\ ev.w \in Nat /\ ev.r \in Nat
         /\ ev.clk \subseteq Nat \ {0} /\ nx \in Nat /\ nx2 \in Nat
         /\ Apart(h, ms, ev, new, ms2)
         /\ \A n \in DOMAIN h : h[n].w < nx /\ h[n].w \in Nat
         /\ ev.w # 0 => \A n \in DOMAIN h : h[n].w # ev.w
         /\ \A l \in Loc : \A p \in DOMAIN ms[l] : ms[l][p].id # ev.w
<1>1. h \in Seq(Event) /\ ev \in Event
  BY DEF XInv, HistTyped, StepIs
<1>2. ev.tid \in Thread /\ ev.w \in Nat /\ ev.r \in Nat /\ ev.clk \subseteq Nat \ {0}
  BY <1>1 DEF Event
<1>3. nx \in Nat /\ nx2 \in Nat
  BY DEF Base, StepIs
<1>4. \A n \in DOMAIN h : h[n].w < nx /\ h[n].w \in Nat
  <2>1. HistTyped(h, nx)
    BY DEF XInv
  <2>. QED BY <2>1, EventTyped DEF HistTyped
<1>5. ev.w # 0 => \A n \in DOMAIN h : h[n].w # ev.w
  BY <1>2, <1>3, <1>4 DEF StepIs
<1>6. \A n \in DOMAIN h : h[n].tid = ev.tid => h[n].clk \cap ev.clk = {}
  <2> SUFFICES ASSUME NEW n \in DOMAIN h, h[n].tid = ev.tid, NEW k \in h[n].clk, k \in ev.clk
               PROVE  FALSE
    OBVIOUS
  <2>1. k <= cs[ev.tid][ev.tid]
    BY DEF XInv, Numbers
  <2>2. cs[ev.tid][ev.tid] < k
    BY DEF StepIs
  <2>3. k \in Nat /\ cs[ev.tid][ev.tid] \in Nat
    BY <1>2 DEF Base, Clock
  <2>. QED BY <2>1, <2>2, <2>3
<1>7. \A l \in Loc : \A q \in DOMAIN ms2[l] :
        \/ \E p \in DOMAIN ms[l] : ms2[l][q] = ms[l][p]
        \/ \A n \in DOMAIN h : ms2[l][q].id # h[n].w
  BY <1>5 DEF StepIs, NewMsg
<1>8. \A e \in new : e.tid = ev.tid /\ e.clock[e.tid] \in ev.clk
  BY DEF StepIs
<1>9. \A l \in Loc : \A p \in DOMAIN ms[l] : ms[l][p].id # ev.w
  <2>1. \A l \in Loc : \A p \in DOMAIN ms[l] : ms[l][p].id \in Nat \ {0} /\ ms[l][p].id < nx
    BY DEF Base, MsgTyped
  <2>. QED BY <2>1, <1>2, <1>3 DEF StepIs
<1>. QED BY <1>1, <1>2, <1>3, <1>4, <1>5, <1>6, <1>7, <1>8, <1>9 DEF Apart

LEMMA StepTyped ==
  ASSUME NEW h, NEW fp, NEW cs, NEW ms, NEW nx, Base(fp, cs, ms, nx), XInv(h, fp, cs, ms, nx),
         NEW ev, NEW new, NEW cl, NEW cs2, NEW ms2, NEW nx2,
         StepIs(h, fp, cs, ms, nx, ev, new, cl, cs2, ms2, nx2)
  PROVE  /\ HistTyped(Append(h, ev), nx2)
         /\ Numbers(Append(h, ev), cs2)
         /\ EveryAccess(Append(h, ev), fp \cup new)
         /\ WritesApart(Append(h, ev))
         /\ MsgEvents(Append(h, ev), ms2)
<1> DEFINE g == Append(h, ev)
<1> DEFINE N == Len(h) + 1
<1>0. /\ h \in Seq(Event) /\ ev \in Event /\ ev.tid \in Thread /\ ev.w \in Nat /\ ev.r \in Nat
      /\ ev.clk \subseteq Nat \ {0} /\ nx \in Nat /\ nx2 \in Nat
      /\ Apart(h, ms, ev, new, ms2)
      /\ \A n \in DOMAIN h : h[n].w < nx /\ h[n].w \in Nat
      /\ ev.w # 0 => \A n \in DOMAIN h : h[n].w # ev.w
      /\ \A l \in Loc : \A p \in DOMAIN ms[l] : ms[l][p].id # ev.w
  BY StepApart
<1>1. /\ g \in Seq(Event) /\ N \in Nat /\ N \notin DOMAIN h /\ DOMAIN g = DOMAIN h \cup {N}
      /\ g[N] = ev /\ \A n \in DOMAIN h : g[n] = h[n] /\ n < N
  BY <1>0, AppendIs
<1>2. /\ Len(h) \in Nat /\ DOMAIN h = 1 .. Len(h)
      /\ \A n \in DOMAIN h : h[n].r \in Nat /\ h[n].tid \in Thread /\ h[n].clk \subseteq Nat \ {0}
  BY EventTyped DEF XInv
<1>3. HistTyped(g, nx2)
  <2> SUFFICES ASSUME NEW n \in DOMAIN g
               PROVE  /\ g[n].past \subseteq 1 .. n - 1
                      /\ g[n].heads \subseteq 1 .. n
                      /\ g[n].r < nx2 /\ g[n].w < nx2
    BY <1>1 DEF HistTyped
  <2>1. CASE n \in DOMAIN h
    <3>1. /\ h[n].past \subseteq 1 .. n - 1 /\ h[n].heads \subseteq 1 .. n
          /\ h[n].r < nx /\ h[n].w < nx /\ nx <= nx2 /\ h[n].r \in Nat /\ h[n].w \in Nat
      BY <2>1, <1>0, <1>2 DEF XInv, HistTyped, StepIs
    <3>2. g[n] = h[n]
      BY <2>1, <1>1
    <3> HIDE DEF g
    <3>. QED BY <3>1, <3>2, <1>0
  <2>2. CASE n = N
    <3>1. ev.past \subseteq 1 .. N - 1 /\ ev.heads \subseteq 1 .. N /\ ev.r < nx2 /\ ev.w < nx2
      <4>1. DOMAIN h = 1 .. N - 1 /\ DOMAIN h \cup {N} = 1 .. N
        BY <1>2
      <4>. QED BY <4>1 DEF StepIs
    <3>2. g[n] = ev
      BY <2>2, <1>1
    <3> HIDE DEF g
    <3>. QED BY <3>1, <3>2, <2>2
  <2>. QED BY <2>1, <2>2, <1>1
<1>4. \A n \in DOMAIN h : \A k \in h[n].clk : k <= cs2[h[n].tid][h[n].tid]
  <2> SUFFICES ASSUME NEW n \in DOMAIN h, NEW k \in h[n].clk PROVE k <= cs2[h[n].tid][h[n].tid]
    OBVIOUS
  <2>1. k <= cs[h[n].tid][h[n].tid]
    BY DEF XInv, Numbers
  <2>2. h[n].tid # ev.tid => cs2[h[n].tid] = cs[h[n].tid]
    BY <1>2 DEF StepIs
  <2>3. h[n].tid = ev.tid => cs[h[n].tid][h[n].tid] <= cs2[h[n].tid][h[n].tid]
    BY <1>0 DEF StepIs, ClockLe
  <2>4. k \in Nat /\ cs[h[n].tid][h[n].tid] \in Nat /\ cs2[h[n].tid][h[n].tid] \in Nat
    BY <1>2 DEF Base, StepIs, Clock
  <2>. QED BY <2>1, <2>2, <2>3, <2>4
<1>5. \A k \in ev.clk : k <= cs2[ev.tid][ev.tid]
  BY DEF StepIs
<1>6. Numbers(g, cs2)
  <2>1. \A m, n \in DOMAIN h : h[m].tid = h[n].tid /\ m # n => h[m].clk \cap h[n].clk = {}
    BY DEF XInv, Numbers
  <2>2. \A n \in DOMAIN h : h[n].tid = ev.tid => h[n].clk \cap ev.clk = {}
    BY <1>0 DEF Apart
  <2> HIDE DEF g, N
  <2>3. \A n \in DOMAIN g : \A k \in g[n].clk : k <= cs2[g[n].tid][g[n].tid]
    BY <1>1, <1>4, <1>5
  <2>4. \A m, n \in DOMAIN g : g[m].tid = g[n].tid /\ m # n => g[m].clk \cap g[n].clk = {}
    BY <2>1, <2>2, <1>1
  <2>. QED BY <2>3, <2>4 DEF Numbers
<1>7. EveryAccess(g, fp \cup new)
  <2>1. \A e \in fp : \E n \in DOMAIN h : Of(h, e, n)
    BY DEF XInv, EveryAccess
  <2>2. \A e \in new : Of(g, e, N)
    BY <1>0, <1>1 DEF Of, Apart
  <2> HIDE DEF g, N
  <2>3. \A e \in fp : \E n \in DOMAIN g : Of(g, e, n)
    BY <2>1, <1>1 DEF Of
  <2>. QED BY <2>2, <2>3, <1>1 DEF EveryAccess
<1>8. WritesApart(g)
  <2>1. \A m, n \in DOMAIN h : h[m].w # 0 /\ h[m].w = h[n].w => m = n
    BY DEF XInv, WritesApart
  <2> HIDE DEF g, N
  <2>. QED BY <2>1, <1>0, <1>1 DEF WritesApart
<1>9. MsgEvents(g, ms2)
  <2> SUFFICES ASSUME NEW l \in Loc, NEW q \in DOMAIN ms2[l], NEW n \in DOMAIN g, ms2[l][q].id = g[n].w
               PROVE  g[n].loc = l /\ ms2[l][q].rmwOf = g[n].r /\ Reached(g, n, ms2[l][q].clock)
    BY DEF MsgEvents
  <2>1. CASE n \in DOMAIN h
    <3>1. g[n] = h[n]
      BY <2>1, <1>1
    <3>2. PICK p \in DOMAIN ms[l] : ms2[l][q] = ms[l][p]
      BY <2>1, <3>1, <1>0 DEF Apart
    <3>3. h[n].loc = l /\ ms[l][p].rmwOf = h[n].r /\ Reached(h, n, ms[l][p].clock)
      BY <2>1, <3>1, <3>2 DEF XInv, MsgEvents
    <3>4. Reached(g, n, ms[l][p].clock)
      BY <2>1, <3>3, <1>0, ReachedStays
    <3>. QED BY <3>1, <3>2, <3>3, <3>4
  <2>2. CASE n = N
    <3>1. g[n] = ev
      BY <2>2, <1>1
    <3>2. ~ \E p \in DOMAIN ms[l] : ms2[l][q] = ms[l][p]
      BY <3>1, <1>0
    <3>3. l = ev.loc /\ NewMsg(h, fp, cs, ms, ev, cl, ms2[l][q])
      BY <3>2 DEF StepIs
    <3>4. ms2[l][q].clock = cl /\ ms2[l][q].rmwOf = ev.r /\ \E k \in ev.clk : k <= cl[ev.tid]
      BY <3>3 DEF NewMsg
    <3>5. Reached(g, n, cl)
      BY <3>4, <2>2, <1>0, ReachedStays
    <3>. QED BY <3>1, <3>3, <3>4, <3>5
  <2>. QED BY <2>1, <2>2, <1>1
<1>. QED BY <1>3, <1>6, <1>7, <1>8, <1>9

LEMMA StepExact ==
  ASSUME NEW h, NEW fp, NEW cs, NEW ms, NEW nx, Base(fp, cs, ms, nx), XInv(h, fp, cs, ms, nx),
         NEW ev, NEW new, NEW cl, NEW cs2, NEW ms2, NEW nx2,
         StepIs(h, fp, cs, ms, nx, ev, new, cl, cs2, ms2, nx2)
  PROVE  /\ ClocksExact(Append(h, ev), fp \cup new, cs2, ms2)
         /\ RelsExact(Append(h, ev), fp \cup new, ms2)
<1> DEFINE g == Append(h, ev)
<1> DEFINE N == Len(h) + 1
<1> DEFINE t == ev.tid
<1>0. /\ h \in Seq(Event) /\ ev \in Event /\ t \in Thread /\ ev.w \in Nat /\ ev.r \in Nat
      /\ ev.clk \subseteq Nat \ {0} /\ nx \in Nat /\ nx2 \in Nat
      /\ Apart(h, ms, ev, new, ms2)
      /\ \A n \in DOMAIN h : h[n].w < nx /\ h[n].w \in Nat
      /\ ev.w # 0 => \A n \in DOMAIN h : h[n].w # ev.w
      /\ \A l \in Loc : \A p \in DOMAIN ms[l] : ms[l][p].id # ev.w
  BY StepApart
<1>1. /\ g \in Seq(Event) /\ N \in Nat /\ N \notin DOMAIN h /\ DOMAIN g = DOMAIN h \cup {N}
      /\ g[N] = ev /\ \A n \in DOMAIN h : g[n] = h[n] /\ n < N
  BY <1>0, AppendIs
<1>2. HistTyped(h, nx) /\ \A n \in DOMAIN h : h[n].heads \subseteq DOMAIN h
  BY EventTyped DEF XInv
<1>3. /\ \A u : u # t => Past(g, u) = Past(h, u)
      /\ Past(g, t) = ev.past \cup {N}
  BY <1>0, PastStays DEF StepIs
<1>4. \A C : C \in Clock /\ C[t] <= cs[t][t] => \A k \in ev.clk : ~(k <= C[t])
  <2> SUFFICES ASSUME NEW C, C \in Clock, C[t] <= cs[t][t], NEW k \in ev.clk PROVE ~(k <= C[t])
    OBVIOUS
  <2>1. cs[t][t] < k /\ k \in Nat
    BY <1>0 DEF StepIs
  <2>2. cs[t][t] \in Nat /\ C[t] \in Nat
    BY <1>0 DEF Base, Clock
  <2>. QED BY <2>1, <2>2
<1>5. ASSUME NEW C \in Clock, ClockLe(cl, C)
      PROVE  Above(g, fp \cup new, ms2, N, C)
  <2>0. cl \in Clock
    BY DEF StepIs
  <2>1. ASSUME NEW e \in fp PROVE ~Of(g, e, N)
    <3>1. SUFFICES ASSUME e.tid = t, e.clock[t] \in ev.clk PROVE FALSE
      BY <1>1 DEF Of
    <3>2. e.clock \in Clock /\ ClockLe(e.clock, cs[t])
      BY <3>1 DEF Base
    <3>3. e.clock[t] <= cs[t][t]
      BY <3>2, <1>0 DEF ClockLe
    <3>4. ~(e.clock[t] <= e.clock[t])
      BY <1>4, <3>1, <3>2, <3>3
    <3>5. e.clock[t] \in Nat
      BY <3>2, <1>0 DEF Clock
    <3>. QED BY <3>4, <3>5
  <2>2. \A e \in new : ClockLe(e.clock, C)
    BY <2>0, <1>5, LeTrans DEF StepIs
  <2>3. ASSUME NEW l \in Loc, NEW q \in DOMAIN ms2[l], ms2[l][q].id = g[N].w
        PROVE  ClockLe(ms2[l][q].clock, C)
    <3>1. ms2[l][q].id = ev.w
      BY <2>3, <1>1
    <3>2. ~ \E p \in DOMAIN ms[l] : ms2[l][q] = ms[l][p]
      BY <3>1, <1>0
    <3>3. ms2[l][q].clock = cl
      BY <3>2 DEF StepIs, NewMsg
    <3>. QED BY <3>3, <1>5
  <2>. QED BY <2>1, <2>2, <2>3 DEF Above
<1>6. ClocksExact(g, fp \cup new, cs2, ms2)
  <2> SUFFICES ASSUME NEW u \in Thread PROVE Exact(g, fp \cup new, ms2, cs2[u], Past(g, u))
    BY DEF ClocksExact
  <2>1. CASE u = t
    <3>1. Exact(h, fp, ms, cl, ev.past) /\ cl \in Clock /\ cs2[t] = cl
      BY DEF StepIs
    <3>2. Above(g, fp \cup new, ms2, N, cl)
      BY <3>1, <1>5, LeRefl
    <3>3. Exact(g, fp \cup new, ms2, cl, ev.past \cup {N})
      BY <3>1, <3>2, <1>0, ExactWithNew
    <3> HIDE DEF t
    <3>. QED BY <2>1, <3>1, <3>3, <1>3
  <2>2. CASE u # t
    <3>1. Exact(h, fp, ms, cs[u], Past(h, u)) /\ Past(h, u) \in SUBSET DOMAIN h
      BY <1>2, ClosedTyped DEF XInv, ClocksExact
    <3>2. cs[u] \in Clock /\ cs[u][t] <= cs[t][t]
      BY <1>0 DEF Base
    <3>3. \A k \in ev.clk : ~(k <= cs[u][t])
      BY <3>2, <1>4
    <3>4. Exact(g, fp \cup new, ms2, cs[u], Past(h, u))
      BY <3>1, <3>3, <1>0, ExactStays
    <3>5. cs2[u] = cs[u]
      BY <2>2 DEF StepIs
    <3>. QED BY <2>2, <3>4, <3>5, <1>3
  <2>. QED BY <2>1, <2>2
<1>7. RelsExact(g, fp \cup new, ms2)
  <2> SUFFICES ASSUME NEW l \in Loc, NEW q \in DOMAIN ms2[l]
               PROVE  Exact(g, fp \cup new, ms2, ms2[l][q].rel, Closed(g, Freed(g, l, ms2[l][q].id)))
    BY DEF RelsExact
  <2> DEFINE m == ms2[l][q]
  <2>1. CASE \E p \in DOMAIN ms[l] : m = ms[l][p]
    <3>1. PICK p \in DOMAIN ms[l] : m = ms[l][p]
      BY <2>1
    <3> DEFINE F == Freed(h, l, m.id)
    <3>2. Exact(h, fp, ms, m.rel, Closed(h, F)) /\ m.id # ev.w
      BY <3>1, <1>0 DEF XInv, RelsExact
    <3>3. F \in SUBSET DOMAIN h /\ Closed(h, F) \in SUBSET DOMAIN h
      BY <1>2, ClosedTyped
    <3>4. Freed(g, l, m.id) = F
      BY <3>2, <1>0, <1>2, ChainStays
    <3>5. Closed(g, F) = Closed(h, F)
      <4>1. h \in Seq(Event) /\ ev \in Event
        BY <1>0
      <4>2. F \subseteq DOMAIN h
        BY <3>3
      <4>. QED BY <4>1, <4>2, ClosedSame
    <3>6. m.rel \in Clock /\ m.rel[t] <= cs[t][t]
      BY <3>1, <1>0 DEF Base, MsgTyped
    <3>7. \A k \in ev.clk : ~(k <= m.rel[t])
      BY <3>6, <1>4
    <3> HIDE DEF F, m
    <3>8. Exact(g, fp \cup new, ms2, m.rel, Closed(h, F))
      BY <3>2, <3>3, <3>7, <1>0, ExactStays
    <3>. QED BY <3>4, <3>5, <3>8 DEF m
  <2>2. CASE ~ \E p \in DOMAIN ms[l] : m = ms[l][p]
    <3>1. ev.w # 0 /\ l = ev.loc /\ NewMsg(h, fp, cs, ms, ev, cl, m)
      BY <2>2 DEF StepIs
    <3> DEFINE F == {n \in ev.heads \cap DOMAIN h : h[n].rel}
    <3>2. m.id = ev.w
      BY <3>1 DEF NewMsg
    <3>3. Chain(g, l, m.id) = ev.heads
      BY <3>1, <3>2, <1>0, <1>2, ChainStays
    <3>4. ev.heads \subseteq DOMAIN h \cup {N} /\ N \in ev.heads
      BY <3>1 DEF StepIs
    <3>5. F \in SUBSET DOMAIN h /\ Closed(h, F) \in SUBSET DOMAIN h
      BY <1>2, ClosedTyped
    <3>6. Freed(g, l, m.id) = IF ev.rel THEN F \cup {N} ELSE F
      <4>1. \A n \in DOMAIN h : g[n].rel = h[n].rel
        BY <1>1
      <4>2. g[N].rel = ev.rel
        BY <1>1
      <4>3. ev.rel \in BOOLEAN
        BY <1>0 DEF Event
      <4> HIDE DEF g, N
      <4>. QED BY <3>3, <3>4, <4>1, <4>2, <4>3, <1>1 DEF Freed
    <3>7. CASE ev.rel
      <4>1. Exact(h, fp, ms, m.rel, Closed(h, F) \cup ev.past) /\ ClockLe(cl, m.rel)
        BY <3>1, <3>7 DEF NewMsg
      <4>2. m.rel \in Clock
        BY <3>1, <3>7 DEF NewMsg
      <4>3. Above(g, fp \cup new, ms2, N, m.rel)
        BY <4>1, <4>2, <1>5
      <4>4. Closed(g, F \cup {N}) = Closed(h, F) \cup ev.past \cup {N}
        <5> HIDE DEF F
        <5>. QED BY <3>5, <1>0, ClosedStays DEF g
      <4> HIDE DEF F, m
      <4>5. Exact(g, fp \cup new, ms2, m.rel, (Closed(h, F) \cup ev.past) \cup {N})
        BY <4>1, <4>3, <1>0, ExactWithNew
      <4>. QED BY <3>6, <3>7, <4>4, <4>5 DEF m
    <3>8. CASE ~ev.rel
      <4>1. Exact(h, fp, ms, m.rel, Closed(h, F)) /\ m.rel[t] <= cs[t][t]
        BY <3>1, <3>8 DEF NewMsg
      <4>2. m.rel \in Clock
        BY <3>1, <3>8 DEF NewMsg
      <4>3. \A k \in ev.clk : ~(k <= m.rel[t])
        BY <4>1, <4>2, <1>4
      <4>4. Closed(g, F) = Closed(h, F)
        <5>1. h \in Seq(Event) /\ ev \in Event
          BY <1>0
        <5>2. F \subseteq DOMAIN h
          BY <3>5
        <5>. QED BY <5>1, <5>2, ClosedSame
      <4> HIDE DEF F, m
      <4>5. Exact(g, fp \cup new, ms2, m.rel, Closed(h, F))
        BY <4>1, <4>3, <3>5, <1>0, ExactStays
      <4>. QED BY <3>6, <3>8, <4>4, <4>5 DEF m
    <3>. QED BY <3>7, <3>8
  <2>. QED BY <2>1, <2>2
<1>. QED BY <1>6, <1>7

LEMMA StepKeeps ==
  ASSUME NEW h, NEW fp, NEW cs, NEW ms, NEW nx, Base(fp, cs, ms, nx), XInv(h, fp, cs, ms, nx),
         NEW ev, NEW new, NEW cl, NEW cs2, NEW ms2, NEW nx2,
         StepIs(h, fp, cs, ms, nx, ev, new, cl, cs2, ms2, nx2)
  PROVE  XInv(Append(h, ev), fp \cup new, cs2, ms2, nx2)
BY StepTyped, StepExact DEF XInv

(***************************************************************************)
(* The steps of Atomics, with their events.                                *)
(***************************************************************************)

HX == XInv(hist, footprint, clocks, msgs, nextMsg)

LEMMA BaseIs == ASSUME AInv PROVE Base(footprint, clocks, msgs, nextMsg)
<1>1. clocks \in [Thread -> Clock] /\ \A t, u \in Thread : clocks[u][t] <= clocks[t][t]
  BY DEF AInv, TypeOK, OwnAhead
<1>2. \A e \in footprint : e.tid \in Thread /\ e.clock \in Clock /\ ClockLe(e.clock, clocks[e.tid])
  BY EntryTyped DEF AInv, AccessBelow
<1>3. nextMsg \in Nat
  BY DEF AInv, TypeOK
<1>4. ASSUME NEW l \in Loc, NEW p \in DOMAIN msgs[l] PROVE MsgTyped(msgs[l][p], clocks, nextMsg)
  <2>1. msgs[l][p] \in Message(l) /\ msgs[l][p].id < nextMsg
    BY MsgOf DEF AInv, MsgsOK, IdsBelow
  <2>2. \A t \in Thread : msgs[l][p].clock[t] <= clocks[t][t] /\ msgs[l][p].rel[t] <= clocks[t][t]
    BY DEF AInv, MsgsBelow
  <2>. QED BY <2>1, <2>2 DEF MsgTyped, Message
<1>. QED BY <1>1, <1>2, <1>3, <1>4 DEF Base

LEMMA LocatedBase ==
  ASSUME AInv, NEW l \in Loc
  PROVE  Base(footprint, clocks, Located(l), NextId(l))
<1>1. clocks \in [Thread -> Clock] /\ \A t, u \in Thread : clocks[u][t] <= clocks[t][t]
  BY DEF AInv, TypeOK, OwnAhead
<1>2. \A e \in footprint : e.tid \in Thread /\ e.clock \in Clock /\ ClockLe(e.clock, clocks[e.tid])
  BY EntryTyped DEF AInv, AccessBelow
<1>3. NextId(l) \in Nat
  BY NextIdTyped
<1>4. MsgsOK(Located(l), SeenAfter(l), NextId(l)) /\ MsgsBelow(Located(l))
  BY LocatedKeeps, LocatedBelow DEF AInv
<1>5. ASSUME NEW k \in Loc, NEW p \in DOMAIN Located(l)[k] PROVE MsgTyped(Located(l)[k][p], clocks, NextId(l))
  <2>1. MsgsTyped(Located(l)) /\ IdsBelow(Located(l), NextId(l))
    BY <1>4 DEF MsgsOK
  <2>2. Located(l)[k][p] \in Message(k) /\ Located(l)[k][p].id < NextId(l)
    BY <2>1, MsgOf DEF IdsBelow
  <2>3. \A t \in Thread : /\ Located(l)[k][p].clock[t] <= clocks[t][t]
                          /\ Located(l)[k][p].rel[t] <= clocks[t][t]
    BY <1>4 DEF MsgsBelow
  <2>. QED BY <2>2, <2>3 DEF MsgTyped, Message
<1>. QED BY <1>1, <1>2, <1>3, <1>5 DEF Base

LEMMA FewerMsgs ==
  ASSUME NEW h, NEW fp, NEW ms, NEW ms2, NEW C, NEW D, Exact(h, fp, ms, C, D),
         \A l \in Loc : \A q \in DOMAIN ms2[l] :
           \/ \E p \in DOMAIN ms[l] : ms2[l][q] = ms[l][p]
           \/ \A n \in DOMAIN h : ms2[l][q].id # h[n].w
  PROVE  Exact(h, fp, ms2, C, D)
<1> SUFFICES ASSUME NEW n \in DOMAIN h, n \in D PROVE Above(h, fp, ms2, n, C)
  BY DEF Exact
<1>1. Above(h, fp, ms, n, C)
  BY DEF Exact
<1>. QED BY <1>1 DEF Above

(* Finding the location leaves the history exact: the messages that plain  *)
(* writes became are of no event.                                          *)
LEMMA LocatedExact ==
  ASSUME AInv, HX, NEW l \in Loc
  PROVE  XInv(hist, footprint, clocks, Located(l), NextId(l))
<1>0. HistTyped(hist, nextMsg) /\ nextMsg \in Nat /\ LocatedAt(l)
  BY LocatedPlaces DEF HX, XInv, AInv, TypeOK
<1>1. \A n \in DOMAIN hist : /\ hist[n].w \in Nat /\ hist[n].w < nextMsg /\ hist[n].r \in Nat
                             /\ hist[n].r < nextMsg /\ hist[n].clk \subseteq Nat \ {0}
                             /\ hist[n].tid \in Thread
  BY <1>0, EventTyped DEF HistTyped
<1>2. \A k \in Loc : \A q \in DOMAIN Located(l)[k] :
        \/ q \in DOMAIN msgs[k] /\ Located(l)[k][q] = msgs[k][q]
        \/ k = l /\ Located(l)[k][q].id = nextMsg /\ Located(l)[k][q].rel = ZeroClock
  <2> TAKE k \in Loc
  <2> TAKE q \in DOMAIN Located(l)[k]
  <2>1. CASE k = l
    <3>1. PlainMsg(l).id = nextMsg /\ PlainMsg(l).rel = ZeroClock
      BY PlainMsgIs DEF AInv
    <3>2. \/ q \in DOMAIN msgs[l]
          \/ Located(l)[l][q] = PlainMsg(l)
      BY <1>0, <2>1 DEF LocatedAt
    <3>3. q \in DOMAIN msgs[l] => Located(l)[l][q] = msgs[l][q]
      BY <1>0 DEF LocatedAt
    <3>. QED BY <2>1, <3>1, <3>2, <3>3
  <2>2. CASE k # l
    <3>1. Located(l)[k] = <<>> \/ Located(l)[k] = msgs[k]
      BY <1>0, <2>2 DEF LocatedAt
    <3>2. DOMAIN <<>> = {}
      OBVIOUS
    <3>. QED BY <3>1, <3>2
  <2>. QED BY <2>1, <2>2
<1>3. \A k \in Loc : \A q \in DOMAIN Located(l)[k] :
        \/ \E p \in DOMAIN msgs[k] : Located(l)[k][q] = msgs[k][p]
        \/ \A n \in DOMAIN hist : Located(l)[k][q].id # hist[n].w
  BY <1>0, <1>1, <1>2
<1>4. NextId(l) \in Nat /\ nextMsg <= NextId(l)
  BY <1>0 DEF LocatedAt
<1>5. HistTyped(hist, NextId(l))
  <2>1. \A n \in DOMAIN hist : hist[n].r < NextId(l) /\ hist[n].w < NextId(l)
    BY <1>0, <1>1, <1>4
  <2>. QED BY <2>1, <1>0 DEF HistTyped
<1>6. MsgEvents(hist, Located(l))
  <2> SUFFICES ASSUME NEW k \in Loc, NEW q \in DOMAIN Located(l)[k], NEW n \in DOMAIN hist,
                      Located(l)[k][q].id = hist[n].w
               PROVE  hist[n].loc = k /\ Located(l)[k][q].rmwOf = hist[n].r /\ Reached(hist, n, Located(l)[k][q].clock)
    BY DEF MsgEvents
  <2>1. PICK p \in DOMAIN msgs[k] : Located(l)[k][q] = msgs[k][p]
    BY <1>3
  <2>. QED BY <2>1 DEF HX, XInv, MsgEvents
<1>7. ClocksExact(hist, footprint, clocks, Located(l))
  <2> SUFFICES ASSUME NEW t \in Thread PROVE Exact(hist, footprint, Located(l), clocks[t], Past(hist, t))
    BY DEF ClocksExact
  <2>1. Exact(hist, footprint, msgs, clocks[t], Past(hist, t))
    BY DEF HX, XInv, ClocksExact
  <2>. QED BY <2>1, <1>3, FewerMsgs
<1>8. RelsExact(hist, footprint, Located(l))
  <2> SUFFICES ASSUME NEW k \in Loc, NEW q \in DOMAIN Located(l)[k]
               PROVE  Exact(hist, footprint, Located(l), Located(l)[k][q].rel,
                            Closed(hist, Freed(hist, k, Located(l)[k][q].id)))
    BY DEF RelsExact
  <2>1. CASE q \in DOMAIN msgs[k] /\ Located(l)[k][q] = msgs[k][q]
    <3>1. Exact(hist, footprint, msgs, msgs[k][q].rel, Closed(hist, Freed(hist, k, msgs[k][q].id)))
      BY <2>1 DEF HX, XInv, RelsExact
    <3>2. Exact(hist, footprint, Located(l), msgs[k][q].rel, Closed(hist, Freed(hist, k, msgs[k][q].id)))
      BY <3>1, <1>3, FewerMsgs
    <3>. QED BY <3>2, <2>1
  <2>2. CASE Located(l)[k][q].id = nextMsg /\ Located(l)[k][q].rel = ZeroClock
    <3>1. Closed(hist, Freed(hist, k, nextMsg)) = {}
      <4>1. {n \in DOMAIN hist : hist[n].loc = k /\ hist[n].w = nextMsg} = {}
        BY <1>0, <1>1
      <4>2. Freed(hist, k, nextMsg) = {}
        BY <4>1 DEF Freed, Chain
      <4>. QED BY <4>2 DEF Closed
    <3>2. \A n \in DOMAIN hist : ~Reached(hist, n, ZeroClock)
      <4> SUFFICES ASSUME NEW n \in DOMAIN hist, NEW i \in hist[n].clk, i <= ZeroClock[hist[n].tid]
                   PROVE  FALSE
        BY DEF Reached
      <4>1. i \in Nat \ {0} /\ ZeroClock[hist[n].tid] = 0
        BY <1>1 DEF ZeroClock
      <4>. QED BY <4>1
    <3>. QED BY <2>2, <3>1, <3>2 DEF Exact
  <2>. QED BY <2>1, <2>2, <1>2
<1>. QED BY <1>5, <1>6, <1>7, <1>8 DEF HX, XInv

LEMMA PastFromIs ==
  ASSUME NEW t, NEW from
  PROVE  PastFrom(t, from) = Past(hist, t) \cup Closed(hist, from)
BY DEF PastFrom, Past, Own, Closed

LEMMA HeadsAre == ASSUME NEW l, NEW id PROVE Heads(l, id) = Chain(hist, l, id)
BY DEF Heads, Chain

(* The event of an operation o of thread t. *)
Ev(t, o, new, rel, r, w, acq) ==
  [tid |-> t, loc |-> o.loc, op |-> o.op, plain |-> o.op \in {"read", "write"}, rel |-> rel,
   clk |-> {e.clock[t] : e \in new}, r |-> r, w |-> w,
   past |-> Past(hist, t) \cup Closed(hist, IF acq THEN Freed(hist, o.loc, r) ELSE {}),
   heads |-> {Len(hist) + 1} \cup IF r = 0 THEN {} ELSE Chain(hist, o.loc, r)]

LEMMA PlainEvent ==
  ASSUME NEW t, NEW o, NEW new, footprint' \ footprint = new,
         o.op \in {"read", "write"}, \A e \in new : e.kind # "atomicWrite"
  PROVE  EventOf(t, o) = Ev(t, o, new, FALSE, 0, 0, FALSE)
<1>1. \A from : PastFrom(t, from) = Past(hist, t) \cup Closed(hist, from)
  BY PastFromIs
<1>2. ~ \E e \in new : e.kind = "atomicWrite"
  OBVIOUS
<1>. QED BY <1>1, <1>2 DEF EventOf, Ev

LEMMA LoadEvent ==
  ASSUME NEW t, NEW o, NEW new, footprint' \ footprint = new,
         o.op \notin {"read", "write", "store"}, \A e \in new : e.kind # "atomicWrite",
         NEW id, seen'[t][o.loc] = id, id # 0
  PROVE  EventOf(t, o)
           = Ev(t, o, new, FALSE, id, 0, IsAcq(IF o.op \in Cas THEN o.fail ELSE o.ord))
<1>1. \A from : PastFrom(t, from) = Past(hist, t) \cup Closed(hist, from)
  BY PastFromIs
<1>2. ~ \E e \in new : e.kind = "atomicWrite"
  OBVIOUS
<1>3. Heads(o.loc, id) = Chain(hist, o.loc, id)
  BY HeadsAre
<1>. QED BY <1>1, <1>2, <1>3 DEF EventOf, Ev, Freed

LEMMA StoreEvent ==
  ASSUME NEW t, NEW o, NEW new, footprint' \ footprint = new,
         o.op = "store", \E e \in new : e.kind = "atomicWrite",
         NEW id, seen'[t][o.loc] = id
  PROVE  EventOf(t, o) = Ev(t, o, new, IsRel(o.ord), 0, id, FALSE)
<1>1. \A from : PastFrom(t, from) = Past(hist, t) \cup Closed(hist, from)
  BY PastFromIs
<1>2. IsRel(o.ord) \in BOOLEAN
  BY DEF IsRel
<1>. QED BY <1>1, <1>2 DEF EventOf, Ev

LEMMA TakeEvent ==
  ASSUME NEW t, NEW o, NEW new, footprint' \ footprint = new,
         o.op \notin {"read", "write", "store"}, \E e \in new : e.kind = "atomicWrite",
         NEW m, m \in ToSet(msgs'[o.loc]), \A x \in ToSet(msgs'[o.loc]) : x.id = m.id => x = m,
         seen'[t][o.loc] = m.id, m.rmwOf # 0
  PROVE  EventOf(t, o) = Ev(t, o, new, IsRel(o.ord), m.rmwOf, m.id, IsAcq(o.ord))
<1>1. \A from : PastFrom(t, from) = Past(hist, t) \cup Closed(hist, from)
  BY PastFromIs
<1>2. IsRel(o.ord) \in BOOLEAN /\ IsAcq(o.ord) \in BOOLEAN
  BY DEF IsRel, IsAcq
<1>3. Heads(o.loc, m.rmwOf) = Chain(hist, o.loc, m.rmwOf)
  BY HeadsAre
<1>4. (CHOOSE x \in ToSet(msgs'[o.loc]) : x.id = m.id) = m
  OBVIOUS
<1>. QED BY <1>1, <1>2, <1>3, <1>4 DEF EventOf, Ev, Freed

EvIs(ev, t, o, new, cl, rel, r, w, acq) ==
  /\ ev \in Event
  /\ ev.tid = t /\ ev.loc = o.loc /\ ev.r = r /\ ev.w = w /\ ev.rel = rel
  /\ ev.clk = {e.clock[t] : e \in new}
  /\ ev.past = Past(hist, t) \cup Closed(hist, IF acq THEN Freed(hist, o.loc, r) ELSE {})
  /\ ev.heads = {Len(hist) + 1} \cup IF r = 0 THEN {} ELSE Chain(hist, o.loc, r)
  /\ ev.past \subseteq DOMAIN hist
  /\ ev.heads \subseteq DOMAIN hist \cup {Len(hist) + 1}
  /\ \A k \in ev.clk : clocks[t][t] < k /\ k <= cl[t]

LEMMA EvTyped ==
  ASSUME AInv, HX, NEW t \in Thread, NEW o \in program.ops[t], NEW cl, NEW new,
         Fresh(t, o.loc, cl, new), cl \in Clock,
         NEW rel \in BOOLEAN, NEW r \in Nat, NEW w \in Nat, NEW acq \in BOOLEAN,
         NEW ev, ev = Ev(t, o, new, rel, r, w, acq)
  PROVE  EvIs(ev, t, o, new, cl, rel, r, w, acq)
<1>0. /\ HistTyped(hist, nextMsg) /\ Len(hist) \in Nat /\ DOMAIN hist \subseteq Nat
      /\ o.loc \in Loc /\ o.op \in OpName /\ clocks[t][t] \in Nat
  BY OpTyped, EventTyped, ClocksTyped DEF HX, XInv, AInv
<1>1. /\ ev.tid = t /\ ev.loc = o.loc /\ ev.r = r /\ ev.w = w /\ ev.rel = rel
      /\ ev.clk = {e.clock[t] : e \in new}
      /\ ev.past = Past(hist, t) \cup Closed(hist, IF acq THEN Freed(hist, o.loc, r) ELSE {})
      /\ ev.heads = {Len(hist) + 1} \cup IF r = 0 THEN {} ELSE Chain(hist, o.loc, r)
  BY DEF Ev
<1>2. ev.past \subseteq DOMAIN hist
  <2>1. Past(hist, t) \subseteq DOMAIN hist /\ Freed(hist, o.loc, r) \subseteq DOMAIN hist
    BY <1>0, ClosedTyped
  <2>2. (IF acq THEN Freed(hist, o.loc, r) ELSE {}) \in SUBSET DOMAIN hist
    BY <2>1
  <2>3. Closed(hist, IF acq THEN Freed(hist, o.loc, r) ELSE {}) \subseteq DOMAIN hist
    BY <1>0, <2>2, ClosedTyped
  <2>. QED BY <1>1, <2>1, <2>3
<1>3. ev.heads \subseteq DOMAIN hist \cup {Len(hist) + 1}
  <2>1. Chain(hist, o.loc, r) \subseteq DOMAIN hist
    BY <1>0, ClosedTyped
  <2>. QED BY <1>1, <2>1
<1>4. \A e \in new : clocks[t][t] < e.clock[t] /\ e.clock[t] <= cl[t] /\ e.clock[t] \in Nat \ {0}
  <2> TAKE e \in new
  <2>1. clocks[t][t] < e.clock[t] /\ e.clock \in Clock /\ ClockLe(e.clock, cl)
    BY DEF Fresh
  <2>2. e.clock[t] \in Nat /\ e.clock[t] <= cl[t]
    BY <2>1 DEF Clock, ClockLe
  <2>. QED BY <1>0, <2>1, <2>2
<1>5. /\ \A k \in ev.clk : clocks[t][t] < k /\ k <= cl[t]
      /\ ev.clk \subseteq Nat \ {0}
  <2>. QED BY <1>1, <1>4
<1>6. ev \in Event
  <2>1. ev.heads \subseteq Nat /\ ev.past \subseteq Nat /\ ev.clk \subseteq Nat \ {0}
    <3>. QED BY <1>0, <1>2, <1>3, <1>5
  <2>2. (o.op \in {"read", "write"}) \in BOOLEAN
    OBVIOUS
  <2>. QED BY <1>0, <2>1, <2>2 DEF Event, Ev
<1>. QED BY <1>1, <1>2, <1>3, <1>5, <1>6 DEF EvIs

(* The accesses of an operation that writes message w (0: none) have passed *)
(* the race check.                                                         *)
Tested(t, l, new, k) == \E e \in new : e.kind = k /\ ~Races(t, e.clock, l, k)

Tests(t, o, new, w) ==
  /\ o.op \in {"read", "write"} => w = 0 /\ Tested(t, o.loc, new, o.op)
  /\ o.op \notin {"read", "write"} /\ w = 0 => Tested(t, o.loc, new, "atomicRead")
  /\ w # 0 => Tested(t, o.loc, new, "atomicWrite")
  /\ \A e \in new : e.kind = "write" => o.op = "write"

(* What it does to the messages of l: it is plain, or reads r, or writes w, *)
(* right after r if that is not 0.                                         *)
Shape(t, l, cl, new, r, w) ==
  \/ r = 0 /\ w = 0 /\ UNCHANGED <<msgs, seen, nextMsg>>
  \/ /\ w = 0 /\ Accept(t, l, "atomicRead")
     /\ \E p : Reads(t, l, p, cl, new) /\ r = Located(l)[l][p].id
  \/ /\ \E k \in {"atomicRead", "atomicWrite"} : Accept(t, l, k)
     /\ \E p, m :
          /\ Writes(t, l, p, m, cl, new) /\ Fits(t, l, p, m, cl)
          /\ w = m.id /\ r = m.rmwOf
          /\ p = Len(Located(l)[l]) + 1 \/ ~RmwAfter(Located(l)[l], p - 1)
          /\ r # 0 => /\ p - 1 \in DOMAIN Located(l)[l] /\ r = Located(l)[l][p - 1].id
                      /\ Floor(Located(l)[l], t, Bump(clocks[t], t), l) <= p - 1

(* A step that is as its event says: it finds the messages ms. *)
StepFits(t, o, cl, new, rel, r, w, acq, ms, nx) ==
  LET ev == Ev(t, o, new, rel, r, w, acq)
  IN  /\ Touches(t, cl, new) /\ Grown(t, cl) /\ Fresh(t, o.loc, cl, new)
      /\ Tests(t, o, new, w) /\ Shape(t, o.loc, cl, new, r, w)
      /\ rel \in BOOLEAN /\ r \in Nat /\ w \in Nat /\ acq \in BOOLEAN /\ (acq => r # 0)
      /\ hist' = Append(hist, ev)
      /\ Base(footprint, clocks, ms, nx) /\ XInv(hist, footprint, clocks, ms, nx)
      /\ Exact(hist, footprint, ms, cl, ev.past)
      /\ nextMsg' \in Nat /\ nx <= nextMsg' /\ r < nextMsg' /\ w < nextMsg'
      /\ w = 0 \/ nx <= w
      /\ \A l \in Loc : \A q \in DOMAIN msgs'[l] :
           \/ \E p \in DOMAIN ms[l] : msgs'[l][q] = ms[l][p]
           \/ w # 0 /\ l = o.loc /\ NewMsg(hist, footprint, clocks, ms, ev, cl, msgs'[l][q])

HStep(t, o) ==
  \E cl, new, rel, r, w, acq, ms, nx : StepFits(t, o, cl, new, rel, r, w, acq, ms, nx)

(* It keeps the history exact.                                             *)
LEMMA OpStep ==
  ASSUME AInv, HX, NEW t \in Thread, NEW o \in program.ops[t], HStep(t, o)
  PROVE  HX'
<1>000. PICK cl, new, rel, r, w, acq, ms, nx : StepFits(t, o, cl, new, rel, r, w, acq, ms, nx)
  BY DEF HStep
<1> DEFINE ev == Ev(t, o, new, rel, r, w, acq)
<1>0. /\ Touches(t, cl, new) /\ Grown(t, cl) /\ Fresh(t, o.loc, cl, new)
      /\ rel \in BOOLEAN /\ r \in Nat /\ w \in Nat /\ acq \in BOOLEAN
      /\ hist' = Append(hist, ev)
      /\ Base(footprint, clocks, ms, nx) /\ XInv(hist, footprint, clocks, ms, nx)
      /\ Exact(hist, footprint, ms, cl, ev.past)
      /\ nextMsg' \in Nat /\ nx <= nextMsg' /\ r < nextMsg' /\ w < nextMsg'
      /\ w = 0 \/ nx <= w
      /\ \A l \in Loc : \A q \in DOMAIN msgs'[l] :
           \/ \E p \in DOMAIN ms[l] : msgs'[l][q] = ms[l][p]
           \/ w # 0 /\ l = o.loc /\ NewMsg(hist, footprint, clocks, ms, ev, cl, msgs'[l][q])
  BY <1>000 DEF StepFits
<1>00. ev = Ev(t, o, new, rel, r, w, acq)
  OBVIOUS
<1> HIDE DEF ev
<1>1. cl \in Clock /\ ClockLe(clocks[t], cl)
  <2>1. ClockLe(clocks[t], Bump(clocks[t], t)) /\ Bump(clocks[t], t) \in Clock /\ clocks[t] \in Clock
    BY BumpIs DEF AInv, TypeOK
  <2>. QED BY <1>0, <2>1, LeTrans DEF Grown
<1>2. clocks' \in [Thread -> Clock] /\ clocks'[t] = cl /\ \A u \in Thread : u # t => clocks'[u] = clocks[u]
  BY <1>0, <1>1 DEF Touches, AInv, TypeOK
<1>3. /\ ev \in Event
      /\ ev.tid = t /\ ev.loc = o.loc /\ ev.r = r /\ ev.w = w /\ ev.rel = rel
      /\ ev.clk = {e.clock[t] : e \in new}
      /\ ev.past = Past(hist, t) \cup Closed(hist, IF acq THEN Freed(hist, o.loc, r) ELSE {})
      /\ ev.heads = {Len(hist) + 1} \cup IF r = 0 THEN {} ELSE Chain(hist, o.loc, r)
      /\ ev.past \subseteq DOMAIN hist
      /\ ev.heads \subseteq DOMAIN hist \cup {Len(hist) + 1}
      /\ \A k \in ev.clk : clocks[t][t] < k /\ k <= cl[t]
  <2>1. EvIs(ev, t, o, new, cl, rel, r, w, acq)
    BY <1>0, <1>00, <1>1, EvTyped
  <2>. QED BY <2>1 DEF EvIs
<1>4. \A e \in new : e.tid = ev.tid /\ e.clock \in Clock /\ e.clock[e.tid] \in ev.clk /\ ClockLe(e.clock, cl)
  BY <1>0, <1>3 DEF Fresh
<1>5. Past(hist, ev.tid) \subseteq ev.past /\ Len(hist) + 1 \in ev.heads
  BY <1>3
<1>6. StepIs(hist, footprint, clocks, ms, nx, ev, new, cl, clocks', msgs', nextMsg')
  BY <1>0, <1>1, <1>2, <1>3, <1>4, <1>5 DEF StepIs
<1>7. XInv(Append(hist, ev), footprint \cup new, clocks', msgs', nextMsg')
  BY <1>0, <1>6, StepKeeps
<1>8. footprint' = footprint \cup new
  BY <1>0 DEF Touches
<1>. QED BY <1>0, <1>7, <1>8 DEF HX

LEMMA NewIs ==
  ASSUME AInv, NEW t \in Thread, NEW l, NEW cl, NEW new, Touches(t, cl, new), Fresh(t, l, cl, new)
  PROVE  footprint' \ footprint = new
<1>1. footprint' = footprint \cup new
  BY DEF Touches
<1>2. ASSUME NEW e \in new PROVE e \notin footprint
  <2> SUFFICES ASSUME e \in footprint PROVE FALSE
    OBVIOUS
  <2>1. e.tid = t /\ clocks[t][t] < e.clock[t] /\ e.clock[t] \in Nat
    BY DEF Fresh, Clock
  <2>2. e.clock[t] <= clocks[t][t]
    BY <2>1 DEF AInv, AccessBelow, ClockLe
  <2>3. clocks[t][t] \in Nat
    BY ClocksTyped DEF AInv
  <2>. QED BY <2>1, <2>2, <2>3
<1>. QED BY <1>1, <1>2

(* The clock of t after its own accesses is as exact as before. *)
LEMMA OwnExact ==
  ASSUME AInv, HX, NEW t \in Thread, NEW ms, NEW nx, Base(footprint, clocks, ms, nx),
         XInv(hist, footprint, clocks, ms, nx)
  PROVE  /\ Exact(hist, footprint, ms, Bump(clocks[t], t), Past(hist, t))
         /\ Exact(hist, footprint, ms, CasClock(t), Past(hist, t))
<1>1. /\ Bump(clocks[t], t) \in Clock /\ CasClock(t) \in Clock
      /\ \A u \in Thread : u # t => Bump(clocks[t], t)[u] = clocks[t][u] /\ CasClock(t)[u] = clocks[t][u]
      /\ ClockLe(Bump(clocks[t], t), CasClock(t))
  BY BumpGrown
<1>2. clocks[t] \in Clock /\ ClockLe(clocks[t], Bump(clocks[t], t))
  BY BumpIs DEF AInv, TypeOK
<1>3. ClockLe(clocks[t], CasClock(t))
  BY <1>1, <1>2, LeTrans
<1>4. Exact(hist, footprint, ms, clocks[t], Past(hist, t)) /\ HistTyped(hist, nx)
  BY DEF XInv, ClocksExact
<1>5. Exact(hist, footprint, ms, Bump(clocks[t], t), Past(hist, t))
  BY <1>1, <1>2, <1>4, ExactBump
<1>6. Exact(hist, footprint, ms, CasClock(t), Past(hist, t))
  BY <1>1, <1>3, <1>4, ExactBump
<1>. QED BY <1>5, <1>6

LEMMA ZeroExact ==
  ASSUME NEW h, NEW fp, NEW ms, NEW nx, HistTyped(h, nx)
  PROVE  Exact(h, fp, ms, ZeroClock, {})
<1> SUFFICES ASSUME NEW n \in DOMAIN h, NEW k \in h[n].clk, k <= ZeroClock[h[n].tid]
             PROVE  FALSE
  BY DEF Exact, Reached
<1>1. h[n].tid \in Thread /\ h[n].clk \subseteq Nat \ {0}
  BY EventTyped
<1>2. ZeroClock[h[n].tid] = 0 /\ k \in Nat \ {0}
  BY <1>1 DEF ZeroClock
<1>. QED BY <1>2

LEMMA PlainFits ==
  ASSUME AInv, HX, NEW t \in Thread, NEW o \in program.ops[t],
         NEW k \in {"read", "write"}, NEW v, o.op = k, PlainAccess(t, o.loc, k, v),
         hist' = Append(hist, EventOf(t, o))
  PROVE  HStep(t, o)
<1> DEFINE cl == Bump(clocks[t], t)
<1> DEFINE new == {Recorded(t, cl, o.loc, k)}
<1> DEFINE ev == Ev(t, o, new, FALSE, 0, 0, FALSE)
<1>0. o.loc \in Loc /\ Base(footprint, clocks, msgs, nextMsg)
  BY OpTyped, BaseIs DEF AInv
<1>1. Touches(t, cl, new) /\ Grown(t, cl) /\ Fresh(t, o.loc, cl, new)
  BY <1>0, PlainTouches
<1>2. footprint' \ footprint = new
  BY <1>1, NewIs
<1>3. \A e \in new : e.kind # "atomicWrite"
  BY DEF Recorded
<1>4. EventOf(t, o) = ev
  <2> HIDE DEF new
  <2>. QED BY <1>2, <1>3, PlainEvent
<1>5. Exact(hist, footprint, msgs, cl, Past(hist, t))
  BY <1>0, OwnExact DEF HX
<1>6. ev.past = Past(hist, t)
  BY DEF Ev, Closed
<1>7. msgs' = msgs /\ nextMsg' = nextMsg /\ nextMsg \in Nat /\ 0 < nextMsg
  BY DEF PlainAccess, AInv, TypeOK
<1>8. XInv(hist, footprint, clocks, msgs, nextMsg)
  BY DEF HX
<1>9. /\ nextMsg' \in Nat /\ nextMsg <= nextMsg' /\ 0 < nextMsg'
      /\ \A l \in Loc : \A q \in DOMAIN msgs'[l] : \E p \in DOMAIN msgs[l] : msgs'[l][q] = msgs[l][p]
  BY <1>7
<1>10. hist' = Append(hist, ev) /\ Exact(hist, footprint, msgs, cl, ev.past) /\ FALSE \in BOOLEAN /\ 0 \in Nat
  BY <1>4, <1>5, <1>6
<1>12. Tests(t, o, new, 0)
  <2>1. Recorded(t, cl, o.loc, k).kind = k /\ Recorded(t, cl, o.loc, k).clock = cl
    BY DEF Recorded
  <2>2. ~Races(t, cl, o.loc, k)
    BY DEF PlainAccess, Accept
  <2>3. Tested(t, o.loc, new, o.op)
    <3> HIDE DEF cl
    <3>. QED BY <2>1, <2>2 DEF Tested
  <2>4. \A e \in new : e.kind = "write" => o.op = "write"
    <3> HIDE DEF cl
    <3>. QED BY <2>1
  <2> HIDE DEF new
  <2>. QED BY <2>3, <2>4 DEF Tests
<1>13. Shape(t, o.loc, cl, new, 0, 0)
  <2>1. UNCHANGED <<msgs, seen, nextMsg>>
    BY DEF PlainAccess
  <2> HIDE DEF new, cl
  <2>. QED BY <2>1 DEF Shape
<1>11. StepFits(t, o, cl, new, FALSE, 0, 0, FALSE, msgs, nextMsg)
  <2> HIDE DEF new, cl
  <2>. QED BY <1>0, <1>1, <1>7, <1>8, <1>9, <1>10, <1>12, <1>13 DEF StepFits
<1> HIDE DEF ev, new, cl
<1>. QED BY <1>11 DEF HStep

LEMMA LoadFits ==
  ASSUME AInv, HX, NEW t \in Thread, NEW o \in program.ops[t],
         o.op \notin {"read", "write", "store"}, NEW p,
         LoadAt(t, o.loc, IF o.op \in Cas THEN o.fail ELSE o.ord, p),
         hist' = Append(hist, EventOf(t, o))
  PROVE  HStep(t, o)
<1> DEFINE l == o.loc
<1> DEFINE ord == IF o.op \in Cas THEN o.fail ELSE o.ord
<1> DEFINE rd == Located(l)[l][p]
<1> DEFINE c == Bump(clocks[t], t)
<1> DEFINE cl == Adopt(ord, c, rd)
<1> DEFINE new == {Recorded(t, c, l, "atomicRead")}
<1> DEFINE ev == Ev(t, o, new, FALSE, rd.id, 0, IsAcq(ord))
<1>0. /\ l \in Loc /\ Base(footprint, clocks, Located(l), NextId(l))
      /\ XInv(hist, footprint, clocks, Located(l), NextId(l))
  BY OpTyped, LocatedBase, LocatedExact DEF AInv
<1>1. Reads(t, l, p, cl, new) /\ Grown(t, cl) /\ Fresh(t, l, cl, new)
  <2> HIDE DEF ord, l
  <2>1. LoadAt(t, l, ord, p)
    BY DEF ord, l
  <2>. QED BY <1>0, <2>1, LoadReads
<1>2. Touches(t, cl, new) /\ msgs' = Located(l) /\ nextMsg' = NextId(l) /\ Observe(t, l, rd.id)
  BY <1>1 DEF Reads
<1>3. footprint' \ footprint = new
  <2> HIDE DEF cl, new, l
  <2>. QED BY <1>1, <1>2, NewIs
<1>4. \A e \in new : e.kind # "atomicWrite"
  BY DEF Recorded
<1>5. p \in DOMAIN Located(l)[l]
  BY <1>0, <1>1, ReadIs DEF Reads
<1>6. rd.id \in Nat \ {0} /\ rd.id < NextId(l)
  BY <1>0, <1>5 DEF Base, MsgTyped
<1>7. seen'[t][l] = rd.id
  <2>1. SeenAfter(l) \in [Thread -> [Loc -> Nat]]
    BY <1>0, LocatedKeeps DEF MsgsOK, AInv
  <2>2. seen' = [SeenAfter(l) EXCEPT ![t][l] = rd.id]
    BY <1>2 DEF Observe
  <2> HIDE DEF rd, l
  <2>. QED BY <2>1, <2>2, <1>0
<1>8. EventOf(t, o) = ev
  <2>1. EventOf(t, o) = Ev(t, o, new, FALSE, rd.id, 0, IsAcq(IF o.op \in Cas THEN o.fail ELSE o.ord))
    <3> HIDE DEF new, rd
    <3>. QED BY <1>3, <1>4, <1>6, <1>7, LoadEvent
  <2>. QED BY <2>1
<1>9. c \in Clock /\ Exact(hist, footprint, Located(l), c, Past(hist, t))
  BY <1>0, OwnExact, BumpGrown
<1>10. Exact(hist, footprint, Located(l), cl,
             Past(hist, t) \cup Closed(hist, IF IsAcq(ord) THEN Freed(hist, l, rd.id) ELSE {}))
  <2> HIDE DEF l, ord, c
  <2>. QED BY <1>0, <1>5, <1>9, ExactAdopt
<1>11. Exact(hist, footprint, Located(l), cl, ev.past)
  BY <1>10 DEF Ev
<1>12. /\ nextMsg' \in Nat /\ NextId(l) <= nextMsg' /\ rd.id < nextMsg' /\ 0 < nextMsg'
       /\ \A k \in Loc : \A q \in DOMAIN msgs'[k] : \E i \in DOMAIN Located(l)[k] : msgs'[k][q] = Located(l)[k][i]
  <2>1. NextId(l) \in Nat \ {0}
    BY <1>0, NextIdTyped
  <2>. QED BY <2>1, <1>2, <1>6
<1>13. hist' = Append(hist, ev)
  BY <1>8
<1>14. FALSE \in BOOLEAN /\ IsAcq(ord) \in BOOLEAN /\ 0 \in Nat /\ rd.id \in Nat /\ rd.id # 0
  BY <1>6 DEF IsAcq
<1>15. Accept(t, l, "atomicRead")
  BY DEF LoadAt
<1>16. Tests(t, o, new, 0)
  <2>1. Recorded(t, c, l, "atomicRead").kind = "atomicRead" /\ Recorded(t, c, l, "atomicRead").clock = c
    BY DEF Recorded
  <2>2. ~Races(t, c, l, "atomicRead")
    BY <1>15 DEF Accept
  <2>3. Tested(t, l, new, "atomicRead")
    <3> HIDE DEF c
    <3>. QED BY <2>1, <2>2 DEF Tested
  <2>4. \A e \in new : e.kind = "write" => o.op = "write"
    <3> HIDE DEF c
    <3>. QED BY <2>1
  <2> HIDE DEF new
  <2>. QED BY <2>3, <2>4 DEF Tests
<1>17. Shape(t, l, cl, new, rd.id, 0)
  <2> HIDE DEF new, cl, c, ord
  <2>. QED BY <1>1, <1>15 DEF Shape
<1>18. StepFits(t, o, cl, new, FALSE, rd.id, 0, IsAcq(ord), Located(l), NextId(l))
  <2> HIDE DEF new, cl, c, rd, ord
  <2>. QED BY <1>0, <1>1, <1>2, <1>11, <1>12, <1>13, <1>14, <1>16, <1>17 DEF StepFits
<1> HIDE DEF new, cl, rd, ord
<1>. QED BY <1>18 DEF HStep

(* Where the messages of a step are that wrote m. *)
LEMMA WrittenAre ==
  ASSUME AInv, NEW t \in Thread, NEW l \in Loc, NEW p, NEW m, NEW cl, NEW new,
         Writes(t, l, p, m, cl, new), Fits(t, l, p, m, cl)
  PROVE  /\ \A k \in Loc : \A q \in DOMAIN msgs'[k] :
              \/ \E i \in DOMAIN Located(l)[k] : msgs'[k][q] = Located(l)[k][i]
              \/ k = l /\ msgs'[k][q] = m
         /\ m \in ToSet(msgs'[l]) /\ \A x \in ToSet(msgs'[l]) : x.id = m.id => x = m
         /\ seen'[t][l] = m.id
         /\ nextMsg' = NextId(l) + 1 /\ m.id = NextId(l) /\ NextId(l) \in Nat \ {0}
<1>1. /\ Inserted(Located(l), msgs', l, m, p)
      /\ MsgsOK(msgs', seen', nextMsg')
      /\ nextMsg' = NextId(l) + 1
  BY WritePlaces
<1>2. \A k \in Loc : \A q \in DOMAIN msgs'[k] :
        \/ \E i \in DOMAIN Located(l)[k] : msgs'[k][q] = Located(l)[k][i]
        \/ k = l /\ msgs'[k][q] = m
  <2> TAKE k \in Loc
  <2>1. CASE k = l
    BY <2>1, <1>1 DEF Inserted
  <2>2. CASE k # l
    BY <2>2, <1>1 DEF Inserted
  <2>. QED BY <2>1, <2>2
<1>3. p \in DOMAIN msgs'[l] /\ msgs'[l][p] = m
  BY <1>1 DEF Inserted
<1>4. m \in ToSet(msgs'[l])
  BY <1>3 DEF ToSet
<1>5. \A x \in ToSet(msgs'[l]) : x.id = m.id => x = m
  <2> SUFFICES ASSUME NEW q \in DOMAIN msgs'[l], msgs'[l][q].id = m.id PROVE msgs'[l][q] = m
    BY DEF ToSet
  <2>1. q = p
    BY <1>1, <1>3 DEF MsgsOK, IdsApart
  <2>. QED BY <2>1, <1>3
<1>6. seen'[t][l] = m.id
  <2>1. SeenAfter(l) \in [Thread -> [Loc -> Nat]]
    BY LocatedKeeps DEF MsgsOK, AInv
  <2>2. seen' = [SeenAfter(l) EXCEPT ![t][l] = m.id]
    BY DEF Writes, Observe
  <2>. QED BY <2>1, <2>2
<1>7. m.id = NextId(l) /\ NextId(l) \in Nat \ {0}
  BY NextIdTyped DEF Fits
<1>. QED BY <1>1, <1>2, <1>4, <1>5, <1>6, <1>7

LEMMA StoreFits ==
  ASSUME AInv, HX, NEW t \in Thread, NEW o \in program.ops[t], o.op = "store",
         NEW p, NEW v \in program.vals, StoreAt(t, o.loc, o.ord, p, v),
         hist' = Append(hist, EventOf(t, o))
  PROVE  HStep(t, o)
<1> DEFINE l == o.loc
<1> DEFINE cl == Bump(clocks[t], t)
<1> DEFINE new == {Recorded(t, cl, l, "atomicWrite")}
<1> DEFINE m == StoreMsg(t, l, o.ord, v)
<1> DEFINE ev == Ev(t, o, new, IsRel(o.ord), 0, m.id, FALSE)
<1>0. /\ l \in Loc /\ Base(footprint, clocks, Located(l), NextId(l))
      /\ XInv(hist, footprint, clocks, Located(l), NextId(l))
  BY OpTyped, LocatedBase, LocatedExact DEF AInv
<1>1. /\ Writes(t, l, p, m, cl, new) /\ Fits(t, l, p, m, cl)
      /\ Grown(t, cl) /\ Fresh(t, l, cl, new)
      /\ p = Len(Located(l)[l]) + 1 \/ ~RmwAfter(Located(l)[l], p - 1)
  <2> HIDE DEF l
  <2>1. StoreAt(t, l, o.ord, p, v)
    BY DEF l
  <2>. QED BY <1>0, <2>1, StoreWrites
<1>2. Touches(t, cl, new)
  BY <1>1 DEF Writes
<1>3. footprint' \ footprint = new
  <2> HIDE DEF cl, new, l
  <2>. QED BY <1>1, <1>2, NewIs
<1>4. /\ \A k \in Loc : \A q \in DOMAIN msgs'[k] :
           \/ \E i \in DOMAIN Located(l)[k] : msgs'[k][q] = Located(l)[k][i]
           \/ k = l /\ msgs'[k][q] = m
      /\ seen'[t][l] = m.id
      /\ nextMsg' = NextId(l) + 1 /\ m.id = NextId(l) /\ NextId(l) \in Nat \ {0}
  <2> HIDE DEF cl, new, l, m
  <2>. QED BY <1>0, <1>1, WrittenAre
<1>5. \E e \in new : e.kind = "atomicWrite" /\ e.clock[t] = cl[t]
  <2>1. Recorded(t, cl, l, "atomicWrite") \in new
    OBVIOUS
  <2>2. /\ Recorded(t, cl, l, "atomicWrite").kind = "atomicWrite"
        /\ Recorded(t, cl, l, "atomicWrite").clock[t] = cl[t]
    BY DEF Recorded
  <2> HIDE DEF new, cl
  <2>. QED BY <2>1, <2>2
<1>6. EventOf(t, o) = ev
  <2>1. \E e \in new : e.kind = "atomicWrite"
    BY <1>5
  <2> HIDE DEF new, m
  <2>. QED BY <1>3, <1>4, <2>1, StoreEvent
<1>7. cl \in Clock /\ ClockLe(cl, cl) /\ cl[t] \in Nat /\ clocks[t][t] \in Nat
  BY BumpGrown, LeRefl, ClocksTyped DEF Clock, AInv
<1>8. Exact(hist, footprint, Located(l), cl, Past(hist, t))
  BY <1>0, OwnExact
<1>9. ev.past = Past(hist, t) /\ ev.heads = {Len(hist) + 1} /\ ev.w = m.id /\ ev.r = 0
      /\ ev.rel = IsRel(o.ord) /\ ev.tid = t /\ ev.clk = {e.clock[t] : e \in new}
  BY DEF Ev, Closed
<1>10. NewMsg(hist, footprint, clocks, Located(l), ev, cl, m)
  <2>1. HistTyped(hist, NextId(l)) /\ Len(hist) + 1 \notin DOMAIN hist
    <3>1. HistTyped(hist, NextId(l)) /\ Len(hist) \in Nat /\ DOMAIN hist = 1 .. Len(hist)
      BY <1>0, EventTyped DEF XInv
    <3>. QED BY <3>1
  <2>2. Closed(hist, {n \in ev.heads \cap DOMAIN hist : hist[n].rel}) = {}
    <3>1. ev.heads \cap DOMAIN hist = {}
      BY <1>9, <2>1
    <3>. QED BY <3>1 DEF Closed
  <2>3. m.clock = cl /\ m.rmwOf = 0 /\ m.rel = IF IsRel(o.ord) THEN cl ELSE ZeroClock
    BY DEF StoreMsg
  <2>4. Exact(hist, footprint, Located(l), ZeroClock, {}) /\ ZeroClock[t] = 0 /\ ZeroClock \in Clock
    BY <2>1, ZeroExact, ZeroLe DEF ZeroClock
  <2>5. \E k \in ev.clk : k <= cl[ev.tid]
    <3>1. cl[t] \in ev.clk
      <4> HIDE DEF ev, new, cl
      <4>. QED BY <1>5, <1>9
    <3> HIDE DEF ev, cl
    <3>. QED BY <3>1, <1>7, <1>9
  <2>6. CASE IsRel(o.ord)
    <3>1. m.rel = cl /\ ev.rel
      BY <2>6, <2>3, <1>9
    <3>2. Exact(hist, footprint, Located(l), m.rel,
                Closed(hist, {n \in ev.heads \cap DOMAIN hist : hist[n].rel}) \cup ev.past)
      BY <3>1, <2>2, <1>8, <1>9
    <3> HIDE DEF ev, m, cl
    <3>. QED BY <3>1, <3>2, <2>3, <2>5, <1>7, <1>9 DEF NewMsg
  <2>7. CASE ~IsRel(o.ord)
    <3>1. m.rel = ZeroClock /\ ~ev.rel
      BY <2>7, <2>3, <1>9
    <3>2. Exact(hist, footprint, Located(l), m.rel,
                Closed(hist, {n \in ev.heads \cap DOMAIN hist : hist[n].rel}))
      BY <3>1, <2>2, <2>4
    <3>3. m.rel[ev.tid] <= clocks[ev.tid][ev.tid] /\ m.rel \in Clock
      <4> HIDE DEF ev, m, cl
      <4>. QED BY <3>1, <2>4, <1>7, <1>9
    <3> HIDE DEF ev, m, cl
    <3>. QED BY <3>1, <3>2, <3>3, <2>3, <2>5, <1>7, <1>9 DEF NewMsg
  <2>. QED BY <2>6, <2>7
<1>11. /\ nextMsg' \in Nat /\ NextId(l) <= nextMsg' /\ 0 < nextMsg' /\ m.id < nextMsg' /\ m.id # 0
       /\ NextId(l) <= m.id /\ m.id \in Nat
  BY <1>4
<1>12. \A k \in Loc : \A q \in DOMAIN msgs'[k] :
         \/ \E i \in DOMAIN Located(l)[k] : msgs'[k][q] = Located(l)[k][i]
         \/ m.id # 0 /\ k = l /\ NewMsg(hist, footprint, clocks, Located(l), ev, cl, msgs'[k][q])
  <2> HIDE DEF ev, m, cl, l
  <2>. QED BY <1>4, <1>10, <1>11
<1>13. hist' = Append(hist, ev) /\ Exact(hist, footprint, Located(l), cl, ev.past)
  BY <1>6, <1>8, <1>9
<1>14. FALSE \in BOOLEAN /\ IsRel(o.ord) \in BOOLEAN /\ 0 \in Nat
  BY DEF IsRel
<1>15. Accept(t, l, "atomicWrite")
  BY DEF StoreAt
<1>16. Tests(t, o, new, m.id)
  <2>1. Recorded(t, cl, l, "atomicWrite").kind = "atomicWrite" /\ Recorded(t, cl, l, "atomicWrite").clock = cl
    BY DEF Recorded
  <2>2. ~Races(t, cl, l, "atomicWrite")
    BY <1>15 DEF Accept
  <2>3. Tested(t, l, new, "atomicWrite")
    <3> HIDE DEF cl
    <3>. QED BY <2>1, <2>2 DEF Tested
  <2>4. \A e \in new : e.kind = "write" => o.op = "write"
    <3> HIDE DEF cl
    <3>. QED BY <2>1
  <2> HIDE DEF m, new
  <2>. QED BY <2>3, <2>4, <1>11 DEF Tests
<1>17. Shape(t, l, cl, new, 0, m.id)
  <2>1. m.rmwOf = 0
    BY DEF StoreMsg
  <2> HIDE DEF new, cl, m, l
  <2>. QED BY <1>1, <1>15, <2>1 DEF Shape
<1>18. StepFits(t, o, cl, new, IsRel(o.ord), 0, m.id, FALSE, Located(l), NextId(l))
  <2> HIDE DEF new, cl, m
  <2>. QED BY <1>0, <1>1, <1>2, <1>11, <1>12, <1>13, <1>14, <1>16, <1>17 DEF StepFits
<1> HIDE DEF new, cl, m
<1>. QED BY <1>18 DEF HStep

(* An RMW, or a cas that succeeded: c is the clock of its last access.     *)
LEMMA TakeFits ==
  ASSUME AInv, HX, NEW t \in Thread, NEW o \in program.ops[t],
         o.op \notin {"read", "write", "store"},
         NEW p, NEW v \in program.vals, NEW c \in Clock, NEW new, Grown(t, c),
         Exact(hist, footprint, Located(o.loc), c, Past(hist, t)),
         Takes(t, o.loc, o.ord, p, v, c, new),
         \A cl \in Clock : ClockLe(c, cl) => Fresh(t, o.loc, cl, new),
         \E e \in new : e.kind = "atomicWrite", Tested(t, o.loc, new, "atomicWrite"),
         \A e \in new : e.kind # "write",
         \E k \in {"atomicRead", "atomicWrite"} : Accept(t, o.loc, k),
         hist' = Append(hist, EventOf(t, o))
  PROVE  HStep(t, o)
<1> DEFINE l == o.loc
<1> DEFINE rd == Located(l)[l][p]
<1> DEFINE cl == Adopt(o.ord, c, rd)
<1> DEFINE m == TakeMsg(t, l, o.ord, p, v, c)
<1> DEFINE ev == Ev(t, o, new, IsRel(o.ord), rd.id, m.id, IsAcq(o.ord))
<1>0. /\ l \in Loc /\ Base(footprint, clocks, Located(l), NextId(l))
      /\ XInv(hist, footprint, clocks, Located(l), NextId(l))
  BY OpTyped, LocatedBase, LocatedExact DEF AInv
<1>1. /\ Writes(t, l, p + 1, m, cl, new) /\ Fits(t, l, p + 1, m, cl)
      /\ Grown(t, cl) /\ ClockLe(c, cl) /\ p \in DOMAIN Located(l)[l]
      /\ ~RmwAfter(Located(l)[l], p)
  <2> HIDE DEF l
  <2>1. Takes(t, l, o.ord, p, v, c, new)
    BY DEF l
  <2>. QED BY <1>0, <2>1, TakeWrites
<1>2. Touches(t, cl, new) /\ cl \in Clock /\ Fresh(t, l, cl, new)
  <2>1. cl \in Clock
    BY <1>1 DEF Grown
  <2>. QED BY <2>1, <1>1 DEF Writes
<1>3. footprint' \ footprint = new
  <2> HIDE DEF cl, l
  <2>. QED BY <1>1, <1>2, NewIs
<1>4. /\ \A k \in Loc : \A q \in DOMAIN msgs'[k] :
           \/ \E i \in DOMAIN Located(l)[k] : msgs'[k][q] = Located(l)[k][i]
           \/ k = l /\ msgs'[k][q] = m
      /\ m \in ToSet(msgs'[l]) /\ \A x \in ToSet(msgs'[l]) : x.id = m.id => x = m
      /\ seen'[t][l] = m.id
      /\ nextMsg' = NextId(l) + 1 /\ m.id = NextId(l) /\ NextId(l) \in Nat \ {0}
  <2> HIDE DEF cl, l, m
  <2>. QED BY <1>0, <1>1, WrittenAre
<1>5. /\ rd.id \in Nat \ {0} /\ rd.id < NextId(l) /\ rd.rel \in Clock /\ rd.rel[t] <= clocks[t][t]
  BY <1>0, <1>1 DEF Base, MsgTyped
<1>6. m.clock = cl /\ m.rmwOf = rd.id /\ m.rel = RmwRel(o.ord, rd, cl)
  BY DEF TakeMsg
<1>7. EventOf(t, o) = ev
  <2>1. m.rmwOf # 0
    BY <1>5, <1>6
  <2>2. EventOf(t, o) = Ev(t, o, new, IsRel(o.ord), m.rmwOf, m.id, IsAcq(o.ord))
    <3> HIDE DEF m, rd
    <3>. QED BY <1>3, <1>4, <2>1, TakeEvent
  <2>. QED BY <2>2, <1>6
<1>8. Exact(hist, footprint, Located(l), cl,
            Past(hist, t) \cup Closed(hist, IF IsAcq(o.ord) THEN Freed(hist, l, rd.id) ELSE {}))
  <2>1. Exact(hist, footprint, Located(l), c, Past(hist, t))
    OBVIOUS
  <2> HIDE DEF l
  <2>. QED BY <1>0, <1>1, <2>1, ExactAdopt
<1>9. /\ ev.past = Past(hist, t) \cup Closed(hist, IF IsAcq(o.ord) THEN Freed(hist, l, rd.id) ELSE {})
      /\ ev.heads = {Len(hist) + 1} \cup Chain(hist, l, rd.id) /\ ev.w = m.id /\ ev.r = rd.id
      /\ ev.rel = IsRel(o.ord) /\ ev.tid = t /\ ev.clk = {e.clock[t] : e \in new}
  BY <1>5 DEF Ev
<1>10. Exact(hist, footprint, Located(l), cl, ev.past)
  BY ZenonT(40), <1>8, <1>9
<1>11. NewMsg(hist, footprint, clocks, Located(l), ev, cl, m)
  <2>1. /\ HistTyped(hist, NextId(l)) /\ Len(hist) + 1 \notin DOMAIN hist
        /\ Chain(hist, l, rd.id) \subseteq DOMAIN hist
    <3>1. HistTyped(hist, NextId(l)) /\ Len(hist) \in Nat /\ DOMAIN hist = 1 .. Len(hist)
      BY <1>0, EventTyped DEF XInv
    <3>. QED BY <3>1, ClosedTyped
  <2> DEFINE F == {n \in ev.heads \cap DOMAIN hist : hist[n].rel}
  <2>2. F = Freed(hist, l, rd.id)
    <3>1. ev.heads \cap DOMAIN hist = Chain(hist, l, rd.id)
      BY <1>9, <2>1
    <3>. QED BY SMTT(40), <3>1 DEF Freed
  <2>3. Exact(hist, footprint, Located(l), rd.rel, Closed(hist, F))
    <3>1. Exact(hist, footprint, Located(l), rd.rel, Closed(hist, Freed(hist, l, rd.id)))
      BY <1>0, <1>1 DEF XInv, RelsExact
    <3>. QED BY <3>1, <2>2
  <2>4. \E k \in ev.clk : k <= cl[ev.tid]
    <3>1. PICK e \in new : e.kind = "atomicWrite"
      OBVIOUS
    <3>2. e.clock[t] \in ev.clk
      <4> HIDE DEF ev
      <4>. QED BY <1>9
    <3>3. e.clock[t] <= cl[t]
      BY <1>2 DEF Fresh, ClockLe
    <3>. QED BY <3>2, <3>3, <1>9
  <2>5. CASE IsRel(o.ord)
    <3>1. m.rel = Merge(rd.rel, cl) /\ ev.rel
      BY <2>5, <1>6, <1>9 DEF RmwRel
    <3>2. m.rel \in Clock /\ ClockLe(cl, m.rel)
      <4> HIDE DEF m, rd, cl, ev
      <4>. QED BY <3>1, <1>2, <1>5, MergeIs
    <3>3. Exact(hist, footprint, Located(l), m.rel, Closed(hist, F) \cup ev.past)
      <4> HIDE DEF m, rd, cl, ev, F
      <4>. QED BY <1>0, <1>2, <1>5, <1>10, <2>1, <2>3, <3>1, ExactMerge
    <3> HIDE DEF ev, m, cl, rd
    <3>. QED BY SMTT(40), <3>1, <3>2, <3>3, <2>4, <1>6, <1>9 DEF NewMsg
  <2>6. CASE ~IsRel(o.ord)
    <3>1. m.rel = rd.rel /\ ~ev.rel
      BY <2>6, <1>6, <1>9 DEF RmwRel
    <3>2. Exact(hist, footprint, Located(l), m.rel, Closed(hist, F))
      BY SMTT(40), <3>1, <2>3
    <3>3. m.rel[ev.tid] <= clocks[ev.tid][ev.tid] /\ m.rel \in Clock
      BY <3>1, <1>5, <1>9
    <3> HIDE DEF ev, m, cl, rd
    <3>. QED BY SMTT(40), <3>1, <3>2, <3>3, <2>4, <1>6, <1>9 DEF NewMsg
  <2>. QED BY <2>5, <2>6
<1>12. /\ nextMsg' \in Nat /\ NextId(l) <= nextMsg' /\ rd.id < nextMsg' /\ m.id < nextMsg' /\ m.id # 0
       /\ NextId(l) <= m.id /\ m.id \in Nat /\ rd.id \in Nat /\ rd.id # 0
  BY <1>4, <1>5
<1>13. \A k \in Loc : \A q \in DOMAIN msgs'[k] :
         \/ \E i \in DOMAIN Located(l)[k] : msgs'[k][q] = Located(l)[k][i]
         \/ m.id # 0 /\ k = l /\ NewMsg(hist, footprint, clocks, Located(l), ev, cl, msgs'[k][q])
  <2> HIDE DEF ev, m, cl, l
  <2>. QED BY <1>4, <1>11, <1>12
<1>14. hist' = Append(hist, ev) /\ IsRel(o.ord) \in BOOLEAN /\ IsAcq(o.ord) \in BOOLEAN
  BY <1>7 DEF IsRel, IsAcq
<1>15. Tests(t, o, new, m.id)
  BY <1>12 DEF Tests
<1>16. Shape(t, l, cl, new, rd.id, m.id)
  <2>1. p \in ReadOpts(Located(l)[l], t, Bump(clocks[t], t), l)
    BY DEF Takes, RmwOpts
  <2>2. p \in Nat /\ Floor(Located(l)[l], t, Bump(clocks[t], t), l) <= p
    BY <2>1, <1>0, ReadIs
  <2>3. (p + 1) - 1 = p
    BY <2>2
  <2> DEFINE q == p + 1
  <2>4. Writes(t, l, q, m, cl, new) /\ Fits(t, l, q, m, cl) /\ q - 1 = p
    BY <1>1, <2>3
  <2> HIDE DEF cl, m, l, q
  <2>5. /\ rd.id = m.rmwOf /\ (q = Len(Located(l)[l]) + 1 \/ ~RmwAfter(Located(l)[l], q - 1))
        /\ q - 1 \in DOMAIN Located(l)[l] /\ rd.id = Located(l)[l][q - 1].id
        /\ Floor(Located(l)[l], t, Bump(clocks[t], t), l) <= q - 1
    BY <1>1, <1>6, <2>2, <2>4
  <2>6. \E k \in {"atomicRead", "atomicWrite"} : Accept(t, l, k)
    BY DEF l
  <2> HIDE DEF rd
  <2>. QED BY <2>4, <2>5, <2>6 DEF Shape
<1>17. StepFits(t, o, cl, new, IsRel(o.ord), rd.id, m.id, IsAcq(o.ord), Located(l), NextId(l))
  <2> HIDE DEF cl, m, rd
  <2>. QED BY <1>0, <1>1, <1>2, <1>10, <1>12, <1>13, <1>14, <1>15, <1>16 DEF StepFits
<1> HIDE DEF cl, m, rd
<1>. QED BY <1>17 DEF HStep

LEMMA JoinExact ==
  ASSUME AInv, HX, NEW u \in Thread, Join(u), hist' = Append(hist, JoinEvent(u))
  PROVE  HX'
<1> DEFINE ev == JoinEvent(u)
<1> DEFINE cl == Merge(Bump(clocks[0], 0), clocks[u])
<1>0. /\ 0 \in Thread /\ Base(footprint, clocks, msgs, nextMsg)
      /\ XInv(hist, footprint, clocks, msgs, nextMsg) /\ HistTyped(hist, nextMsg)
      /\ nextMsg \in Nat \ {0} /\ clocks \in [Thread -> Clock]
  BY AtomicsAssumption, BaseIs DEF HX, XInv, AInv, TypeOK
<1>1. /\ clocks[0] \in Clock /\ clocks[u] \in Clock /\ Bump(clocks[0], 0) \in Clock
      /\ ClockLe(clocks[0], Bump(clocks[0], 0))
  BY <1>0, BumpIs
<1>2. cl \in Clock /\ ClockLe(clocks[0], cl)
  <2>1. cl \in Clock /\ ClockLe(Bump(clocks[0], 0), cl)
    BY <1>1, MergeIs
  <2> HIDE DEF cl
  <2>. QED BY <2>1, <1>1, LeTrans
<1>3. Exact(hist, footprint, msgs, cl, Past(hist, 0) \cup Past(hist, u))
  <2>1. Exact(hist, footprint, msgs, Bump(clocks[0], 0), Past(hist, 0))
    BY <1>0, OwnExact
  <2>2. Exact(hist, footprint, msgs, clocks[u], Past(hist, u))
    BY <1>0 DEF XInv, ClocksExact
  <2>. QED BY <2>1, <2>2, <1>0, <1>1, ExactMerge
<1>4. Past(hist, 0) \subseteq DOMAIN hist /\ Past(hist, u) \subseteq DOMAIN hist
      /\ Len(hist) \in Nat /\ DOMAIN hist = 1 .. Len(hist)
  BY <1>0, ClosedTyped, EventTyped
<1>5. /\ ev.tid = 0 /\ ev.clk = {} /\ ev.r = 0 /\ ev.w = 0 /\ ev.heads = {} /\ ev.rel = FALSE
      /\ ev.past = Past(hist, 0) \cup Past(hist, u)
  <2>1. PastFrom(0, {n \in DOMAIN hist : hist[n].tid = u}) = Past(hist, 0) \cup Past(hist, u)
    BY PastFromIs DEF Past, Own
  <2>. QED BY <2>1 DEF JoinEvent
<1>6. ev \in Event
  <2>1. ev.past \in SUBSET Nat
    <3> HIDE DEF ev
    <3>. QED BY <1>4, <1>5
  <2>. QED BY <2>1, <1>0 DEF JoinEvent, Event
<1>7. /\ clocks' \in [Thread -> Clock] /\ clocks'[0] = cl
      /\ \A v \in Thread : v # 0 => clocks'[v] = clocks[v]
      /\ msgs' = msgs /\ nextMsg' = nextMsg /\ footprint' = footprint
  <2>1. clocks' = [clocks EXCEPT ![0] = cl]
    BY DEF Join
  <2> HIDE DEF cl
  <2>. QED BY <2>1, <1>0, <1>2 DEF Join
<1>8. StepIs(hist, footprint, clocks, msgs, nextMsg, ev, {}, cl, clocks', msgs', nextMsg')
  <2> HIDE DEF ev, cl
  <2>. QED BY <1>0, <1>2, <1>3, <1>4, <1>5, <1>6, <1>7 DEF StepIs
<1>9. XInv(Append(hist, ev), footprint \cup {}, clocks', msgs', nextMsg')
  <2> HIDE DEF ev, cl
  <2>. QED BY <1>0, <1>8, StepKeeps
<1>. QED BY <1>7, <1>9 DEF HX

LEMMA OperateFits ==
  ASSUME AInv, HX, NEW t \in Thread, NEW o \in program.ops[t], HOperate(t, o)
  PROVE  HStep(t, o) \/ UNCHANGED <<hist, clocks, joined, footprint, msgs, seen, nextMsg>>
<1>0. Operate(t, o) /\ outcome = "running"
  BY OperateIs DEF HOperate, AInv
<1>1. CASE Failed(t, o)
  <2>1. outcome' # "running" /\ UNCHANGED <<clocks, joined, footprint, msgs, seen, nextMsg>>
    BY <1>1 DEF Failed, Fail
  <2>2. hist' = hist
    BY <2>1 DEF HOperate
  <2>. QED BY <2>1, <2>2
<1>2. ASSUME outcome' = outcome PROVE hist' = Append(hist, EventOf(t, o))
  BY <1>0, <1>2 DEF HOperate
<1>3. CASE Plains(t, o)
  <2>1. PICK k \in {"read", "write"}, v \in program.vals : o.op = k /\ PlainAccess(t, o.loc, k, v)
    BY <1>3 DEF Plains
  <2>2. outcome' = outcome
    BY <2>1 DEF PlainAccess
  <2>. QED BY <2>1, <2>2, <1>2, PlainFits
<1>4. CASE LoadsIt(t, o)
  <2> DEFINE ord == IF o.op \in Cas THEN o.fail ELSE o.ord
  <2>1. /\ o.op \notin {"read", "write", "store"}
        /\ \E p \in Places(o.loc) : LoadAt(t, o.loc, ord, p)
    BY <1>4 DEF LoadsIt, Cas
  <2>2. PICK p \in Places(o.loc) : LoadAt(t, o.loc, ord, p)
    BY <2>1
  <2>3. outcome' = outcome
    BY <2>2 DEF LoadAt
  <2>. QED BY <2>1, <2>2, <2>3, <1>2, LoadFits
<1>5. CASE StoresIt(t, o)
  <2>1. PICK p \in Places(o.loc), v \in program.vals : StoreAt(t, o.loc, o.ord, p, v)
    BY <1>5 DEF StoresIt
  <2>2. outcome' = outcome /\ o.op = "store"
    BY <1>5, <2>1 DEF StoreAt, StoresIt
  <2>. QED BY <2>1, <2>2, <1>2, StoreFits
<1>6. CASE RmwsIt(t, o)
  <2> DEFINE c == Bump(clocks[t], t)
  <2> DEFINE new == RmwNew(t, o.loc)
  <2>1. PICK p \in Places(o.loc), v \in program.vals : Takes(t, o.loc, o.ord, p, v, c, new)
    BY <1>6 DEF RmwsIt
  <2>2. outcome' = outcome /\ o.op \notin {"read", "write", "store"} /\ o.loc \in Loc
    BY <1>6, <2>1, OpTyped DEF Takes, RmwsIt, AInv
  <2>3. c \in Clock /\ Grown(t, c)
    BY BumpGrown
  <2>4. Exact(hist, footprint, Located(o.loc), c, Past(hist, t))
    BY <2>2, LocatedBase, LocatedExact, OwnExact
  <2>5. \A cl \in Clock : ClockLe(c, cl) => Fresh(t, o.loc, cl, new)
    BY <2>2, OneFresh, KindsTyped DEF RmwNew
  <2>6. \E e \in new : e.kind = "atomicWrite"
    BY DEF RmwNew, Recorded
  <2>7. hist' = Append(hist, EventOf(t, o))
    BY <2>2, <1>2
  <2>8. Tested(t, o.loc, new, "atomicWrite")
    <3>1. ~Races(t, c, o.loc, "atomicWrite")
      BY <1>6 DEF RmwsIt, Accept
    <3>2. /\ Recorded(t, c, o.loc, "atomicWrite").kind = "atomicWrite"
          /\ Recorded(t, c, o.loc, "atomicWrite").clock = c
      BY DEF Recorded
    <3>3. Recorded(t, c, o.loc, "atomicWrite") \in new
      BY DEF RmwNew
    <3> HIDE DEF c, new
    <3>. QED BY <3>1, <3>2, <3>3 DEF Tested
  <2>9. \E k \in {"atomicRead", "atomicWrite"} : Accept(t, o.loc, k)
    BY <1>6 DEF RmwsIt
  <2>10. \A e \in new : e.kind # "write"
    BY DEF RmwNew, Recorded
  <2> HIDE DEF c, new
  <2>. QED BY <2>1, <2>2, <2>3, <2>4, <2>5, <2>6, <2>7, <2>8, <2>9, <2>10, TakeFits
<1>7. CASE CasesIt(t, o)
  <2> DEFINE c == CasClock(t)
  <2> DEFINE new == CasNew(t, o.loc)
  <2>1. PICK p \in Places(o.loc), v \in program.vals : Takes(t, o.loc, o.ord, p, v, c, new)
    BY <1>7 DEF CasesIt
  <2>2. outcome' = outcome /\ o.op \notin {"read", "write", "store"} /\ o.loc \in Loc
    BY <1>7, <2>1, OpTyped DEF Takes, CasesIt, AInv, Cas
  <2>3. c \in Clock /\ Grown(t, c)
    BY BumpGrown
  <2>4. Exact(hist, footprint, Located(o.loc), c, Past(hist, t))
    BY <2>2, LocatedBase, LocatedExact, OwnExact
  <2>5. \A cl \in Clock : ClockLe(c, cl) => Fresh(t, o.loc, cl, new)
    BY <2>2, TwoFresh
  <2>6. \E e \in new : e.kind = "atomicWrite"
    BY DEF CasNew, Recorded
  <2>7. hist' = Append(hist, EventOf(t, o))
    BY <2>2, <1>2
  <2>8. Tested(t, o.loc, new, "atomicWrite")
    <3>1. ~Races(t, c, o.loc, "atomicWrite")
      BY <1>7 DEF CasesIt
    <3>2. /\ Recorded(t, c, o.loc, "atomicWrite").kind = "atomicWrite"
          /\ Recorded(t, c, o.loc, "atomicWrite").clock = c
      BY DEF Recorded
    <3>3. Recorded(t, c, o.loc, "atomicWrite") \in new
      BY DEF CasNew
    <3> HIDE DEF c, new
    <3>. QED BY <3>1, <3>2, <3>3 DEF Tested
  <2>9. \E k \in {"atomicRead", "atomicWrite"} : Accept(t, o.loc, k)
    BY <1>7 DEF CasesIt
  <2>10. \A e \in new : e.kind # "write"
    BY DEF CasNew, Recorded
  <2> HIDE DEF c, new
  <2>. QED BY <2>1, <2>2, <2>3, <2>4, <2>5, <2>6, <2>7, <2>8, <2>9, <2>10, TakeFits
<1>. QED BY <1>0, <1>1, <1>3, <1>4, <1>5, <1>6, <1>7, OperateIs DEF AInv

LEMMA HInitial == HInit => HX
<1> SUFFICES ASSUME HInit PROVE HX
  OBVIOUS
<1>1. hist = <<>> /\ footprint = {} /\ \A l \in Loc : msgs[l] = <<>>
  BY DEF HInit, Init
<1>2. hist \in Seq(Event) /\ DOMAIN hist = {} /\ \A l \in Loc : DOMAIN msgs[l] = {}
  BY <1>1
<1>. QED BY <1>1, <1>2 DEF HX, XInv, HistTyped, Numbers, EveryAccess, WritesApart, MsgEvents,
             ClocksExact, RelsExact, Exact

HInv == AInv /\ HX

LEMMA HInductive == HInv /\ [HNext]_hvars => HInv'
<1> SUFFICES ASSUME HInv, [HNext]_hvars PROVE HInv'
  OBVIOUS
<1>1. AInv /\ HX
  BY DEF HInv
<1>2. [Next]_avars
  BY DEF HNext, HOperate, HJoin, Next, hvars
<1>3. AInv'
  BY <1>1, <1>2, AInductive
<1>4. ASSUME UNCHANGED hvars PROVE HX'
  <2>1. UNCHANGED <<hist, footprint, clocks, msgs, nextMsg>>
    BY <1>4 DEF hvars, avars
  <2>. QED BY <1>1, <2>1 DEF HX
<1>5. ASSUME NEW t \in Thread, NEW o \in program.ops[t], HOperate(t, o) PROVE HX'
  <2>1. CASE HStep(t, o)
    BY <1>1, <2>1, OpStep
  <2>2. CASE UNCHANGED <<hist, clocks, joined, footprint, msgs, seen, nextMsg>>
    BY <1>1, <2>2 DEF HX
  <2>. QED BY <1>1, <1>5, <2>1, <2>2, OperateFits
<1>6. ASSUME NEW t \in Thread, HJoin(t) PROVE HX'
  BY <1>1, <1>6, JoinExact DEF HJoin
<1>7. HX'
  BY <1>4, <1>5, <1>6 DEF HNext
<1>. QED BY <1>3, <1>7 DEF HInv

LEMMA HInvariant == HSpec => []HInv
<1>1. HInit => HInv
  BY HInitial, AInitial DEF HInit, HInv
<1>. QED BY <1>1, HInductive, PTL DEF HSpec

PastOfIs == \A t : PastOf(t) = Past(hist, t)

LEMMA PastsAre == PastOfIs
<1> SUFFICES ASSUME NEW t PROVE PastOf(t) = Past(hist, t)
  BY DEF PastOfIs
<1>1. Closed(hist, {}) = {}
  BY DEF Closed
<1>. QED BY <1>1, PastFromIs DEF PastOf

(* The clocks of the atomics are the happens-before order of RC11: a       *)
(* thread's clock is above a recorded access exactly when program order,   *)
(* joins and acquire reads of release sequences lead from the one to the   *)
(* other (Mem/Thread.lean, "Atomics (RC11)").                              *)
THEOREM ClocksAreHappensBefore == HSpec => []ClockIsHappensBefore
<1>1. HInv => ClockIsHappensBefore
  <2> SUFFICES ASSUME HInv, NEW e \in footprint, NEW t \in Thread
               PROVE  ClockLe(e.clock, clocks[t])
                        <=> \E n \in PastOf(t) : hist[n].tid = e.tid /\ e.clock[e.tid] \in hist[n].clk
    BY DEF ClockIsHappensBefore
  <2>0. PastOf(t) = Past(hist, t)
    BY PastsAre DEF PastOfIs
  <2>1. HistTyped(hist, nextMsg) /\ Exact(hist, footprint, msgs, clocks[t], Past(hist, t))
    BY DEF HInv, HX, XInv, ClocksExact
  <2>2. Past(hist, t) \subseteq DOMAIN hist /\ e.tid \in Thread
    BY <2>1, ClosedTyped, EntryTyped DEF HInv, AInv
  <2>3. ASSUME ClockLe(e.clock, clocks[t])
        PROVE  \E n \in PastOf(t) : hist[n].tid = e.tid /\ e.clock[e.tid] \in hist[n].clk
    <3>1. PICK n \in DOMAIN hist : Of(hist, e, n)
      BY DEF HInv, HX, XInv, EveryAccess
    <3>2. Reached(hist, n, clocks[t])
      BY <2>2, <2>3, <3>1 DEF Of, Reached, ClockLe
    <3>. QED BY <2>0, <2>1, <3>1, <3>2 DEF Exact, Of
  <2>4. ASSUME NEW n \in PastOf(t), hist[n].tid = e.tid, e.clock[e.tid] \in hist[n].clk
        PROVE  ClockLe(e.clock, clocks[t])
    <3>1. Above(hist, footprint, msgs, n, clocks[t])
      BY <2>0, <2>1, <2>2 DEF Exact
    <3>. QED BY <3>1, <2>4 DEF Above, Of
  <2>. QED BY <2>3, <2>4
<1>. QED BY <1>1, HInvariant, PTL

-----------------------------------------------------------------------------
(***************************************************************************)
(* No data race passes the race check.                                     *)
(***************************************************************************)

(* The accesses that the footprint keeps of an event. *)
EventKind(h, fp, n) ==
  LET Has(k) == \E e \in fp : Of(h, e, n) /\ e.loc = h[n].loc /\ e.kind = k
  IN  /\ h[n].plain \in BOOLEAN
      /\ h[n].plain => h[n].w = 0
      /\ h[n].plain /\ h[n].loc # {} => h[n].op \in {"read", "write"} /\ Has(h[n].op)
      /\ ~h[n].plain => h[n].op # "write"
      /\ ~h[n].plain /\ h[n].w = 0 => Has("atomicRead")
      /\ h[n].w # 0 => Has("atomicWrite")

EventKinds(h, fp) == \A n \in DOMAIN h : EventKind(h, fp, n)

Conflict(e, f) ==
  /\ e.loc \cap f.loc # {}
  /\ e.op = "write" \/ f.op = "write" \/ e.w # 0 \/ f.w # 0
  /\ e.plain \/ f.plain

RaceFree(h) == \A m, n \in DOMAIN h : m < n /\ Conflict(h[m], h[n]) => m \in h[n].past

(* An access that passed the race check happened after the ones before it  *)
(* that it conflicts with.                                                 *)
LEMMA PassedIsAfter ==
  ASSUME AInv, HX, NEW t \in Thread, NEW c \in Clock, clocks[t][t] < c[t],
         \A u \in Thread : u # t => c[u] = clocks[t][u],
         NEW l, NEW k, ~Races(t, c, l, k),
         NEW e \in footprint, e.loc \cap l # {}, RacePair(e.kind, k),
         NEW m \in DOMAIN hist, Of(hist, e, m)
  PROVE  m \in Past(hist, t)
<1>0. /\ HistTyped(hist, nextMsg) /\ Base(footprint, clocks, msgs, nextMsg)
      /\ Exact(hist, footprint, msgs, clocks[t], Past(hist, t))
      /\ clocks[t] \in Clock /\ e.tid \in Thread /\ e.clock \in Clock
      /\ \A u, v \in Thread : clocks[u][v] \in Nat
  BY BaseIs, EntryTyped, ClocksTyped DEF HX, XInv, ClocksExact, AInv, TypeOK
<1>1. CASE Solo(t)
  <2>1. e.tid = 0 \/ e.tid \in joined
    BY <1>0, <1>1 DEF Solo
  <2>2. t = 0 /\ ClockLe(e.clock, clocks[e.tid])
    BY <1>0, <1>1 DEF Solo, Base
  <2>3. CASE e.tid = 0
    BY <2>2, <2>3 DEF Of, Past, Closed, Own
  <2>4. CASE e.tid \in joined
    <3>1. ClockLe(clocks[e.tid], clocks[t])
      BY <2>2, <2>4 DEF AInv, JoinedBelow
    <3>2. ClockLe(e.clock, clocks[t])
      BY <1>0, <2>2, <3>1, LeTrans DEF AInv, TypeOK
    <3>3. Reached(hist, m, clocks[t])
      BY <1>0, <3>2 DEF Of, Reached, ClockLe
    <3>. QED BY <1>0, <3>3 DEF Exact
  <2>. QED BY <2>1, <2>3, <2>4
<1>2. CASE ~Solo(t)
  <2>1. ClockLe(e.clock, c) \/ ClockLe(c, e.clock)
    BY <1>2 DEF Races, Concurrent
  <2>2. ~ClockLe(c, e.clock)
    <3> SUFFICES ASSUME ClockLe(c, e.clock) PROVE FALSE
      OBVIOUS
    <3>1. c[t] <= e.clock[t] /\ c[t] \in Nat /\ e.clock[t] \in Nat
      BY <1>0 DEF ClockLe, Clock
    <3>2. e.clock[t] <= clocks[e.tid][t] /\ clocks[e.tid][t] <= clocks[t][t]
      BY <1>0 DEF Base, ClockLe
    <3>. QED BY <1>0, <3>1, <3>2
  <2>3. Reached(hist, m, c)
    BY <1>0, <2>1, <2>2 DEF Of, Reached, ClockLe
  <2>4. Exact(hist, footprint, msgs, c, Past(hist, t))
    <3>1. ClockLe(clocks[t], c)
      <4> SUFFICES ASSUME NEW u \in Thread PROVE clocks[t][u] <= c[u]
        BY DEF ClockLe
      <4>1. c[u] \in Nat /\ clocks[t][u] \in Nat
        BY <1>0 DEF Clock
      <4>. QED BY <4>1
    <3>. QED BY <1>0, <3>1, ExactBump
  <2>. QED BY <2>3, <2>4 DEF Exact
<1>. QED BY <1>1, <1>2

HR == EventKinds(hist, footprint) /\ RaceFree(hist)

LEMMA KindStays ==
  ASSUME NEW h \in Seq(Event), NEW ev \in Event, NEW fp, NEW new, NEW n \in DOMAIN h, EventKind(h, fp, n)
  PROVE  EventKind(Append(h, ev), fp \cup new, n)
<1>1. Append(h, ev)[n] = h[n]
  BY AppendIs
<1>2. \A k : (\E e \in fp : Of(h, e, n) /\ e.loc = h[n].loc /\ e.kind = k)
        => (\E e \in fp \cup new : Of(Append(h, ev), e, n) /\ e.loc = Append(h, ev)[n].loc /\ e.kind = k)
  BY <1>1 DEF Of
<1>. QED BY <1>1, <1>2 DEF EventKind

(* The new event e of a step against an event m before it. *)
LEMMA NewIsAfter ==
  ASSUME AInv, HX, HR, NEW t \in Thread, NEW o \in program.ops[t], NEW cl, NEW new,
         Fresh(t, o.loc, cl, new), NEW ev, ev.loc = o.loc, ev.op = o.op,
         ev.plain = (o.op \in {"read", "write"}), Tests(t, o, new, ev.w),
         NEW m \in DOMAIN hist, Conflict(hist[m], ev)
  PROVE  m \in Past(hist, t)
<1> DEFINE Pair(k) == \E e \in footprint : /\ Of(hist, e, m) /\ e.loc \cap o.loc # {}
                                           /\ RacePair(e.kind, k)
<1>1. ASSUME NEW k, Tested(t, o.loc, new, k), Pair(k) PROVE m \in Past(hist, t)
  <2>1. PICK f \in new : f.kind = k /\ ~Races(t, f.clock, o.loc, k)
    BY <1>1 DEF Tested
  <2>2. /\ f.clock \in Clock /\ clocks[t][t] < f.clock[t]
        /\ \A u \in Thread : u # t => f.clock[u] = clocks[t][u]
    BY DEF Fresh
  <2>3. PICK e \in footprint : Of(hist, e, m) /\ e.loc \cap o.loc # {} /\ RacePair(e.kind, k)
    BY <1>1
  <2>. QED BY <2>1, <2>2, <2>3, PassedIsAfter
<1>2. EventKind(hist, footprint, m)
  BY DEF HR, EventKinds
<1>3. hist[m].loc \cap o.loc # {} /\ hist[m].loc # {}
  BY DEF Conflict
<1> DEFINE Has(k) == \E e \in footprint : Of(hist, e, m) /\ e.loc = hist[m].loc /\ e.kind = k
<1>4. \A k, j : Has(k) /\ RacePair(k, j) => Pair(j)
  BY <1>3
<1>5. /\ hist[m].plain => hist[m].op \in {"read", "write"} /\ Has(hist[m].op) /\ hist[m].w = 0
      /\ ~hist[m].plain => hist[m].op # "write"
      /\ ~hist[m].plain /\ hist[m].w = 0 => Has("atomicRead")
      /\ hist[m].w # 0 => Has("atomicWrite")
  BY <1>2, <1>3 DEF EventKind
<1> HIDE DEF Has, Pair
<1>6. CASE o.op = "write"
  <2>1. Tested(t, o.loc, new, "write")
    BY <1>6 DEF Tests
  <2>2. Pair("write")
    BY <1>4, <1>5 DEF RacePair, IsWrite, IsAtomic
  <2>. QED BY <1>1, <2>1, <2>2
<1>7. CASE o.op = "read"
  <2>1. Tested(t, o.loc, new, "read") /\ ev.w = 0
    BY <1>7 DEF Tests
  <2>2. hist[m].op = "write" \/ hist[m].w # 0
    BY <1>7, <2>1 DEF Conflict
  <2>3. Has("write") \/ Has("atomicWrite")
    BY <2>2, <1>5
  <2>4. Pair("read")
    BY <1>4, <2>3 DEF RacePair, IsWrite, IsAtomic
  <2>. QED BY <1>1, <2>1, <2>4
<1>8. CASE o.op \notin {"read", "write"}
  <2>1. hist[m].plain
    BY <1>8 DEF Conflict
  <2>2. hist[m].op \in {"read", "write"} /\ Has(hist[m].op) /\ hist[m].w = 0
    BY <1>5, <2>1
  <2>3. CASE ev.w # 0
    <3>1. Tested(t, o.loc, new, "atomicWrite")
      BY <2>3 DEF Tests
    <3>2. Pair("atomicWrite")
      BY <1>4, <2>2 DEF RacePair, IsWrite, IsAtomic
    <3>. QED BY <1>1, <3>1, <3>2
  <2>4. CASE ev.w = 0
    <3>1. Tested(t, o.loc, new, "atomicRead")
      BY <1>8, <2>4 DEF Tests
    <3>2. hist[m].op = "write"
      BY <1>8, <2>2, <2>4 DEF Conflict
    <3>3. Pair("atomicRead")
      BY <1>4, <2>2, <3>2 DEF RacePair, IsWrite, IsAtomic
    <3>. QED BY <1>1, <3>1, <3>3
  <2>. QED BY <2>3, <2>4
<1>. QED BY <1>6, <1>7, <1>8

LEMMA OpRace ==
  ASSUME AInv, HX, HR, NEW t \in Thread, NEW o \in program.ops[t], HStep(t, o)
  PROVE  HR'
<1>1. PICK cl, new, rel, r, w, acq, ms, nx : StepFits(t, o, cl, new, rel, r, w, acq, ms, nx)
  BY DEF HStep
<1> DEFINE ev == Ev(t, o, new, rel, r, w, acq)
<1> DEFINE g == Append(hist, ev)
<1> DEFINE N == Len(hist) + 1
<1>2. /\ Touches(t, cl, new) /\ Fresh(t, o.loc, cl, new) /\ Grown(t, cl) /\ Tests(t, o, new, w)
      /\ rel \in BOOLEAN /\ r \in Nat /\ w \in Nat /\ acq \in BOOLEAN /\ hist' = g
  BY <1>1 DEF StepFits
<1>3. EvIs(ev, t, o, new, cl, rel, r, w, acq)
  <2>1. ev = Ev(t, o, new, rel, r, w, acq) /\ cl \in Clock
    BY <1>2 DEF Grown
  <2> HIDE DEF ev
  <2>. QED BY <1>2, <2>1, EvTyped
<1>4. /\ ev \in Event /\ ev.tid = t /\ ev.loc = o.loc /\ ev.w = w
      /\ ev.clk = {e.clock[t] : e \in new} /\ Past(hist, t) \subseteq ev.past
  BY <1>3 DEF EvIs
<1>5. ev.op = o.op /\ ev.plain = (o.op \in {"read", "write"})
  BY DEF Ev
<1>6. hist \in Seq(Event) /\ footprint' = footprint \cup new
  BY <1>2 DEF HX, XInv, HistTyped, Touches
<1> HIDE DEF ev
<1>7. /\ g \in Seq(Event) /\ N \in Nat /\ N \notin DOMAIN hist /\ DOMAIN g = DOMAIN hist \cup {N}
      /\ g[N] = ev /\ \A n \in DOMAIN hist : g[n] = hist[n] /\ n < N
  BY <1>4, <1>6, AppendIs
<1>8. EventKinds(g, footprint \cup new)
  <2> SUFFICES ASSUME NEW n \in DOMAIN g PROVE EventKind(g, footprint \cup new, n)
    BY DEF EventKinds
  <2>1. CASE n \in DOMAIN hist
    BY <2>1, <1>4, <1>6, KindStays DEF HR, EventKinds
  <2>2. CASE n = N
    <3> HIDE DEF g, N
    <3>1. ASSUME NEW k, Tested(t, o.loc, new, k)
          PROVE  \E e \in footprint \cup new : Of(g, e, N) /\ e.loc = g[N].loc /\ e.kind = k
      <4>1. PICK e \in new : e.kind = k
        BY <3>1 DEF Tested
      <4>2. e.tid = t /\ e.loc = o.loc /\ e.clock[t] \in ev.clk
        BY <1>2, <1>4 DEF Fresh
      <4>. QED BY <4>1, <4>2, <1>4, <1>7 DEF Of
    <3>2. g[N].plain \in BOOLEAN
      <4>1. (o.op \in {"read", "write"}) \in BOOLEAN
        OBVIOUS
      <4>. QED BY <4>1, <1>5, <1>7
    <3>. QED BY <2>2, <3>1, <3>2, <1>2, <1>4, <1>5, <1>7 DEF EventKind, Tests
  <2>. QED BY <2>1, <2>2, <1>7
<1>9. RaceFree(g)
  <2> SUFFICES ASSUME NEW m \in DOMAIN g, NEW n \in DOMAIN g, m < n, Conflict(g[m], g[n])
               PROVE  m \in g[n].past
    BY DEF RaceFree
  <2>0. DOMAIN hist \subseteq Nat
    BY <1>6, LenProperties
  <2>1. m \in DOMAIN hist
    <3> HIDE DEF N
    <3>1. n <= N /\ n \in Nat
      BY <1>7, <2>0
    <3>. QED BY <3>1, <1>7
  <2>2. CASE n \in DOMAIN hist
    BY <2>1, <2>2, <1>7 DEF HR, RaceFree
  <2>3. CASE n = N
    <3>1. Conflict(hist[m], ev) /\ g[n] = ev
      BY <2>1, <2>3, <1>7
    <3>2. m \in Past(hist, t)
      BY <2>1, <3>1, <1>2, <1>4, <1>5, NewIsAfter
    <3>. QED BY <3>1, <3>2, <1>4
  <2>. QED BY <2>2, <2>3, <1>7
<1>. QED BY <1>2, <1>6, <1>8, <1>9 DEF HR

LEMMA JoinRace ==
  ASSUME AInv, HX, HR, NEW u \in Thread, Join(u), hist' = Append(hist, JoinEvent(u)), HX'
  PROVE  HR'
<1> DEFINE ev == JoinEvent(u)
<1> DEFINE g == Append(hist, ev)
<1> DEFINE N == Len(hist) + 1
<1>1. ev.loc = {} /\ ev.plain = TRUE /\ ev.w = 0
  BY DEF JoinEvent
<1>2. hist \in Seq(Event) /\ footprint' = footprint
  BY DEF HX, XInv, HistTyped, Join
<1>3. Len(hist) \in Nat /\ DOMAIN hist = 1 .. Len(hist)
  BY <1>2, LenProperties
<1>4. /\ N \in Nat /\ DOMAIN g = DOMAIN hist \cup {N}
      /\ g[N] = ev /\ \A n \in DOMAIN hist : g[n] = hist[n]
  <2>1. Len(g) = Len(hist) + 1 /\ DOMAIN g = 1 .. Len(hist) + 1
    BY <1>2, <1>3
  <2>2. g[N] = ev /\ \A n \in 1 .. Len(hist) : g[n] = hist[n]
    BY <1>2, <1>3
  <2>. QED BY <1>3, <2>1, <2>2
<1> HIDE DEF ev, g
<1>5. EventKinds(g, footprint)
  <2> SUFFICES ASSUME NEW n \in DOMAIN g PROVE EventKind(g, footprint, n)
    BY DEF EventKinds
  <2>1. CASE n \in DOMAIN hist
    <3>1. EventKind(hist, footprint, n) /\ g[n] = hist[n]
      BY <2>1, <1>4 DEF HR, EventKinds
    <3>. QED BY <3>1 DEF EventKind, Of
  <2>2. CASE n = N
    BY <2>2, <1>1, <1>4 DEF EventKind
  <2>. QED BY <2>1, <2>2, <1>4
<1>6. RaceFree(g)
  <2> SUFFICES ASSUME NEW m \in DOMAIN g, NEW n \in DOMAIN g, m < n, Conflict(g[m], g[n])
               PROVE  m \in g[n].past
    BY DEF RaceFree
  <2>1. m # N /\ n # N
    BY <1>1, <1>4 DEF Conflict
  <2>. QED BY <2>1, <1>4 DEF HR, RaceFree
<1>7. hist' = g
  BY DEF g, ev
<1>. QED BY <1>2, <1>5, <1>6, <1>7 DEF HR

RInv == HInv /\ HR

LEMMA RInductive == RInv /\ [HNext]_hvars => RInv'
<1> SUFFICES ASSUME RInv, [HNext]_hvars PROVE RInv'
  OBVIOUS
<1>1. AInv /\ HX /\ HR /\ HInv'
  BY HInductive DEF RInv, HInv
<1>2. ASSUME UNCHANGED <<hist, footprint>> PROVE HR'
  BY <1>1, <1>2 DEF HR
<1>3. ASSUME NEW t \in Thread, NEW o \in program.ops[t], HOperate(t, o) PROVE HR'
  <2>1. HStep(t, o) \/ UNCHANGED <<hist, footprint>>
    BY <1>1, <1>3, OperateFits
  <2>. QED BY <1>1, <1>2, <2>1, OpRace
<1>4. ASSUME NEW u \in Thread, HJoin(u) PROVE HR'
  <2>1. Join(u) /\ hist' = Append(hist, JoinEvent(u)) /\ HX'
    BY <1>1, <1>4 DEF HJoin, HInv
  <2>. QED BY <1>1, <2>1, JoinRace
<1>5. HR'
  BY <1>2, <1>3, <1>4 DEF HNext, hvars, avars
<1>. QED BY <1>1, <1>5 DEF RInv

LEMMA RInvariant == HSpec => []RInv
<1>1. HInit => RInv
  <2> SUFFICES ASSUME HInit PROVE RInv
    OBVIOUS
  <2>1. HInv
    BY HInitial, AInitial DEF HInit, HInv
  <2>2. DOMAIN hist = {}
    BY DEF HInit
  <2>. QED BY <2>1, <2>2 DEF RInv, HR, EventKinds, RaceFree
<1>. QED BY <1>1, RInductive, PTL DEF HSpec

(* The race check of the atomics is exact: its clocks are happens-before,  *)
(* and two conflicting accesses of a run that goes on, of which one is     *)
(* plain, are ordered by it (Mem/Thread.lean, "Atomics (RC11)").           *)
THEOREM AtomicRacesExact == HSpec => []RacesExact
<1>1. RInv => NoRecordedRace
  BY DEF RInv, HR, RaceFree, Conflict, NoRecordedRace, Events
<1>. QED BY <1>1, RInvariant, ClocksAreHappensBefore, PTL DEF RacesExact

-----------------------------------------------------------------------------
(***************************************************************************)
(* Modification order.                                                     *)
(***************************************************************************)

(* An RMW is right after the message that it read. *)
Adjacent(ms) ==
  \A l \in Loc : \A p \in DOMAIN ms[l] :
    ms[l][p].rmwOf # 0 => p - 1 \in DOMAIN ms[l] /\ ms[l][p - 1].id = ms[l][p].rmwOf

(* Event m keeps thread u from going behind message id. *)
Saw(h, m, u, id) == id = h[m].w \/ (id = h[m].r /\ h[m].tid = u)

Coh(h, ms) ==
  \A n \in DOMAIN h : \A m \in h[n].past : \A l \in Loc : \A p, q \in DOMAIN ms[l] :
    h[m].loc = l /\ h[n].loc = l /\ Saw(h, m, h[n].tid, ms[l][p].id) =>
      (ms[l][q].id = h[n].w => p < q) /\ (ms[l][q].id = h[n].r => p <= q)

(* What an acquire of a message learns of is not after the message. *)
RelOrder(h, ms) ==
  \A l \in Loc : \A p, q \in DOMAIN ms[l] : \A m \in Closed(h, Freed(h, l, ms[l][q].id)) :
    h[m].loc = l /\ ms[l][p].id = h[m].w => p <= q

(* What a thread read is not after its view. *)
ViewOrder(h, ms, sn) ==
  \A t \in Thread, l \in Loc : \A m \in Own(h, t) : \A p \in DOMAIN ms[l] :
    h[m].loc = l /\ ms[l][p].id = h[m].r =>
      \E s \in DOMAIN ms[l] : ms[l][s].id = sn[t][l] /\ p <= s

(* A view comes from an event of the thread. *)
SeenFrom(h, sn) ==
  \A t \in Thread, l \in Loc :
    sn[t][l] # 0 => \E m \in Own(h, t) : h[m].loc = l /\ sn[t][l] \in {h[m].r, h[m].w}

(* Only an event of a location reads or writes messages. *)
Sited(h) == \A n \in DOMAIN h : h[n].loc \in Loc \/ (h[n].r = 0 /\ h[n].w = 0)

Ordered(h, ms, sn) ==
  /\ Adjacent(ms) /\ Coh(h, ms) /\ RelOrder(h, ms) /\ ViewOrder(h, ms, sn)
  /\ SeenFrom(h, sn) /\ Sited(h)

(* The messages ms2 have those of ms with an id below nx, in their order,  *)
(* of a location that is live in both.                                     *)
Embeds(ms, ms2, nx) ==
  \A k \in Loc :
    /\ \A p, q \in DOMAIN ms2[k] : ms2[k][p].id < nx /\ ms2[k][q].id < nx =>
         \E i, j \in DOMAIN ms[k] :
           /\ ms[k][i] = ms2[k][p] /\ ms[k][j] = ms2[k][q]
           /\ (i <= j => p <= q) /\ (i < j => p < q)
    /\ \A p \in DOMAIN ms2[k], i, j \in DOMAIN ms[k] :
         ms[k][i] = ms2[k][p] /\ i <= j => \E q \in DOMAIN ms2[k] : ms2[k][q] = ms[k][j] /\ p <= q

(* Views that name nothing new. *)
ViewsStay(sn, ms2, sn2) ==
  \A t \in Thread, k \in Loc : sn2[t][k] = sn[t][k] \/ (sn2[t][k] = 0 /\ ms2[k] = <<>>)

LEMMA CohEmbeds ==
  ASSUME NEW h, NEW nx \in Nat, HistTyped(h, nx), NEW ms, NEW ms2, Embeds(ms, ms2, nx), Coh(h, ms)
  PROVE  Coh(h, ms2)
<1> SUFFICES ASSUME NEW n \in DOMAIN h, NEW m \in h[n].past, NEW l \in Loc,
                    NEW p \in DOMAIN ms2[l], NEW q \in DOMAIN ms2[l],
                    h[m].loc = l, h[n].loc = l, Saw(h, m, h[n].tid, ms2[l][p].id)
             PROVE  (ms2[l][q].id = h[n].w => p < q) /\ (ms2[l][q].id = h[n].r => p <= q)
  BY DEF Coh
<1>1. m \in DOMAIN h
  BY EventTyped
<1>2. ms2[l][p].id < nx
  BY <1>1 DEF Saw, HistTyped
<1>3. SUFFICES ASSUME ms2[l][q].id = h[n].w \/ ms2[l][q].id = h[n].r
               PROVE  (ms2[l][q].id = h[n].w => p < q) /\ (ms2[l][q].id = h[n].r => p <= q)
  OBVIOUS
<1>4. ms2[l][q].id < nx
  BY <1>3 DEF HistTyped
<1>5. PICK i, j \in DOMAIN ms[l] :
        /\ ms[l][i] = ms2[l][p] /\ ms[l][j] = ms2[l][q]
        /\ (i <= j => p <= q) /\ (i < j => p < q)
  BY <1>2, <1>4 DEF Embeds
<1>6. (ms[l][j].id = h[n].w => i < j) /\ (ms[l][j].id = h[n].r => i <= j)
  BY <1>5 DEF Coh
<1>. QED BY <1>5, <1>6

LEMMA RelEmbeds ==
  ASSUME NEW h, NEW nx \in Nat, HistTyped(h, nx), NEW ms, NEW ms2, Embeds(ms, ms2, nx), RelOrder(h, ms),
         \A l \in Loc : \A q \in DOMAIN ms2[l] : ms2[l][q].id \in Nat
  PROVE  RelOrder(h, ms2)
<1> SUFFICES ASSUME NEW l \in Loc, NEW p \in DOMAIN ms2[l], NEW q \in DOMAIN ms2[l],
                    NEW m \in Closed(h, Freed(h, l, ms2[l][q].id)),
                    h[m].loc = l, ms2[l][p].id = h[m].w
             PROVE  p <= q
  BY DEF RelOrder
<1>1. m \in DOMAIN h
  <2>1. Freed(h, l, ms2[l][q].id) \in SUBSET DOMAIN h
    BY ClosedTyped
  <2>. QED BY <2>1, ClosedTyped
<1>2. ms2[l][p].id < nx
  BY <1>1 DEF HistTyped
<1>3. ms2[l][q].id < nx
  <2>1. Freed(h, l, ms2[l][q].id) # {}
    BY DEF Closed
  <2>2. PICK k \in DOMAIN h : h[k].w = ms2[l][q].id
    BY <2>1 DEF Freed, Chain
  <2>. QED BY <2>2 DEF HistTyped
<1>4. PICK i, j \in DOMAIN ms[l] : ms[l][i] = ms2[l][p] /\ ms[l][j] = ms2[l][q] /\ (i <= j => p <= q)
  BY <1>2, <1>3 DEF Embeds
<1>. QED BY <1>4 DEF RelOrder

LEMMA ViewEmbeds ==
  ASSUME NEW h, NEW nx \in Nat, HistTyped(h, nx), NEW ms, NEW ms2, Embeds(ms, ms2, nx),
         NEW sn, NEW sn2, ViewOrder(h, ms, sn), ViewsStay(sn, ms2, sn2)
  PROVE  ViewOrder(h, ms2, sn2)
<1> SUFFICES ASSUME NEW t \in Thread, NEW l \in Loc, NEW m \in Own(h, t), NEW p \in DOMAIN ms2[l],
                    h[m].loc = l, ms2[l][p].id = h[m].r
             PROVE  \E s \in DOMAIN ms2[l] : ms2[l][s].id = sn2[t][l] /\ p <= s
  BY DEF ViewOrder
<1>1. ms2[l][p].id < nx
  BY DEF Own, HistTyped
<1>2. PICK i \in DOMAIN ms[l] : ms[l][i] = ms2[l][p]
  BY <1>1 DEF Embeds
<1>3. PICK j \in DOMAIN ms[l] : ms[l][j].id = sn[t][l] /\ i <= j
  BY <1>2 DEF ViewOrder
<1>4. PICK s \in DOMAIN ms2[l] : ms2[l][s] = ms[l][j] /\ p <= s
  BY <1>2, <1>3 DEF Embeds
<1>5. sn2[t][l] = sn[t][l]
  <2>1. ms2[l] # <<>>
    OBVIOUS
  <2>. QED BY <2>1 DEF ViewsStay
<1>. QED BY <1>3, <1>4, <1>5

LEMMA SeenStays ==
  ASSUME NEW h, NEW ms2, NEW sn, NEW sn2, SeenFrom(h, sn), ViewsStay(sn, ms2, sn2)
  PROVE  SeenFrom(h, sn2)
BY DEF SeenFrom, ViewsStay

(* Finding a location keeps the order. *)
LEMMA LocatedEmbeds ==
  ASSUME AInv, NEW l \in Loc
  PROVE  Embeds(msgs, Located(l), nextMsg) /\ ViewsStay(seen, Located(l), SeenAfter(l))
<1>0. LocatedAt(l) /\ PlainMsg(l).id = nextMsg /\ nextMsg \in Nat
  BY LocatedPlaces, PlainMsgIs DEF AInv, TypeOK
<1>00. \A k \in Loc : \A q \in DOMAIN msgs[k] : q \in Nat
  BY MsgOf DEF AInv, MsgsOK
<1>000. /\ IdsApart(Located(l))
  BY LocatedKeeps DEF AInv, MsgsOK
<1>1. \A k \in Loc : Located(l)[k] = <<>> \/ \A q \in DOMAIN msgs[k] : q \in DOMAIN Located(l)[k] /\ Located(l)[k][q] = msgs[k][q]
  <2> TAKE k \in Loc
  <2>1. CASE k = l
    BY <2>1, <1>0 DEF LocatedAt
  <2>2. CASE k # l
    BY <2>2, <1>0 DEF LocatedAt
  <2>. QED BY <2>1, <2>2
<1>2. \A k \in Loc : \A q \in DOMAIN Located(l)[k] :
        Located(l)[k][q].id < nextMsg => q \in DOMAIN msgs[k] /\ Located(l)[k][q] = msgs[k][q]
  <2> SUFFICES ASSUME NEW k \in Loc, NEW q \in DOMAIN Located(l)[k], Located(l)[k][q].id < nextMsg
               PROVE  q \in DOMAIN msgs[k] /\ Located(l)[k][q] = msgs[k][q]
    OBVIOUS
  <2>1. CASE k = l
    <3>1. q \in DOMAIN msgs[l] \/ Located(l)[l][q] = PlainMsg(l)
      BY <2>1, <1>0 DEF LocatedAt
    <3>2. q \in DOMAIN msgs[l]
      BY <3>1, <2>1, <1>0
    <3>. QED BY <3>2, <2>1, <1>0 DEF LocatedAt
  <2>2. CASE k # l
    BY <2>2, <1>0 DEF LocatedAt
  <2>. QED BY <2>1, <2>2
<1>3. ASSUME NEW k \in Loc, NEW p \in DOMAIN Located(l)[k], NEW i \in DOMAIN msgs[k], NEW j \in DOMAIN msgs[k],
             msgs[k][i] = Located(l)[k][p], i <= j
      PROVE  \E q \in DOMAIN Located(l)[k] : Located(l)[k][q] = msgs[k][j] /\ p <= q
  <2>1. Located(l)[k] # <<>>
    OBVIOUS
  <2>2. i \in DOMAIN Located(l)[k] /\ Located(l)[k][i] = Located(l)[k][p]
    BY <1>1, <1>3, <2>1
  <2>3. i = p
    BY <1>000, <2>2 DEF IdsApart
  <2>. QED BY <1>1, <1>3, <2>1, <2>3
<1>4. Embeds(msgs, Located(l), nextMsg)
  <2> SUFFICES ASSUME NEW k \in Loc
               PROVE  \A p, q \in DOMAIN Located(l)[k] :
                        Located(l)[k][p].id < nextMsg /\ Located(l)[k][q].id < nextMsg =>
                          \E i, j \in DOMAIN msgs[k] :
                            /\ msgs[k][i] = Located(l)[k][p] /\ msgs[k][j] = Located(l)[k][q]
                            /\ (i <= j => p <= q) /\ (i < j => p < q)
    BY <1>3 DEF Embeds
  <2>. QED BY <1>2
<1>5. ViewsStay(seen, Located(l), SeenAfter(l))
  BY <1>0 DEF LocatedAt, ViewsStay
<1>. QED BY <1>4, <1>5

LEMMA LocatedAdjacent ==
  ASSUME AInv, NEW l \in Loc, Adjacent(msgs)
  PROVE  Adjacent(Located(l))
<1>0. LocatedAt(l) /\ PlainMsg(l).rmwOf = 0
  BY LocatedPlaces DEF AInv, PlainMsg
<1> SUFFICES ASSUME NEW k \in Loc, NEW p \in DOMAIN Located(l)[k], Located(l)[k][p].rmwOf # 0
             PROVE  /\ p - 1 \in DOMAIN Located(l)[k]
                    /\ Located(l)[k][p - 1].id = Located(l)[k][p].rmwOf
  BY DEF Adjacent
<1>1. CASE k = l
  <2>1. p \in DOMAIN msgs[l] /\ Located(l)[l][p] = msgs[l][p]
    BY <1>0, <1>1 DEF LocatedAt
  <2>2. p - 1 \in DOMAIN msgs[l] /\ msgs[l][p - 1].id = msgs[l][p].rmwOf
    BY <1>1, <2>1 DEF Adjacent
  <2>. QED BY <1>0, <1>1, <2>1, <2>2 DEF LocatedAt
<1>2. CASE k # l
  <2>1. Located(l)[k] = msgs[k]
    BY <1>0, <1>2 DEF LocatedAt
  <2>. QED BY <2>1 DEF Adjacent
<1>. QED BY <1>1, <1>2

LEMMA LocatedOrdered ==
  ASSUME AInv, HX, NEW l \in Loc, Ordered(hist, msgs, seen)
  PROVE  Ordered(hist, Located(l), SeenAfter(l))
<1>1. HistTyped(hist, nextMsg) /\ nextMsg \in Nat
  BY DEF HX, XInv, AInv, TypeOK
<1>2. Embeds(msgs, Located(l), nextMsg) /\ ViewsStay(seen, Located(l), SeenAfter(l)) /\ Adjacent(Located(l))
  BY LocatedEmbeds, LocatedAdjacent DEF Ordered
<1>3. \A k \in Loc : \A q \in DOMAIN Located(l)[k] : Located(l)[k][q].id \in Nat
  BY LocatedBase DEF Base, MsgTyped
<1>4. Coh(hist, Located(l))
  BY <1>1, <1>2, CohEmbeds DEF Ordered
<1>5. RelOrder(hist, Located(l))
  BY <1>1, <1>2, <1>3, RelEmbeds DEF Ordered
<1>6. ViewOrder(hist, Located(l), SeenAfter(l))
  BY <1>1, <1>2, ViewEmbeds DEF Ordered
<1>7. SeenFrom(hist, SeenAfter(l))
  BY <1>2, SeenStays DEF Ordered
<1>. QED BY <1>2, <1>4, <1>5, <1>6, <1>7 DEF Ordered

(* So does a message with a new id, unless it comes between an RMW and the *)
(* message that the RMW read.                                              *)
LEMMA InsertEmbeds ==
  ASSUME NEW ms, MsgsTyped(ms), NEW is, IdsApart(is), NEW l \in Loc, NEW m, NEW s,
         Inserted(ms, is, l, m, s), NEW nx \in Nat, m.id = nx
  PROVE  Embeds(ms, is, nx)
<1>0. s \in Nat /\ \A k \in Loc : \A q \in DOMAIN ms[k] : q \in Nat
  <2>1. MsgsTyped(is) /\ s \in DOMAIN is[l]
    BY DEF Inserted
  <2>2. DOMAIN is[l] = 1 .. Len(is[l])
    BY <2>1, MsgOf
  <2>. QED BY <2>1, <2>2, MsgOf
<1>1. ASSUME NEW k \in Loc, NEW p \in DOMAIN is[k], NEW q \in DOMAIN is[k],
             is[k][p].id < nx, is[k][q].id < nx
      PROVE  \E i, j \in DOMAIN ms[k] :
               /\ ms[k][i] = is[k][p] /\ ms[k][j] = is[k][q]
               /\ (i <= j => p <= q) /\ (i < j => p < q)
  <2>1. CASE k # l
    BY <2>1 DEF Inserted
  <2>2. CASE k = l
    <3>1. p \in Nat /\ q \in Nat
      <4>1. DOMAIN is[l] = 1 .. Len(is[l])
        BY MsgOf DEF Inserted
      <4>. QED BY <4>1, <2>2
    <3>2. p # s /\ q # s
      BY <1>1, <2>2 DEF Inserted
    <3>3. \A x \in DOMAIN is[l] :
            \/ x < s /\ x \in DOMAIN ms[l] /\ is[l][x] = ms[l][x]
            \/ x = s
            \/ x > s /\ x - 1 \in DOMAIN ms[l] /\ is[l][x] = ms[l][x - 1]
      BY DEF Inserted
    <3>4. (p < s /\ p \in DOMAIN ms[l] /\ is[l][p] = ms[l][p]) \/ (p > s /\ p - 1 \in DOMAIN ms[l] /\ is[l][p] = ms[l][p - 1])
      BY <2>2, <3>2, <3>3
    <3>5. (q < s /\ q \in DOMAIN ms[l] /\ is[l][q] = ms[l][q]) \/ (q > s /\ q - 1 \in DOMAIN ms[l] /\ is[l][q] = ms[l][q - 1])
      BY <2>2, <3>2, <3>3
    <3> DEFINE i == IF p < s THEN p ELSE p - 1
    <3> DEFINE j == IF q < s THEN q ELSE q - 1
    <3>6. i \in DOMAIN ms[l] /\ j \in DOMAIN ms[l] /\ ms[l][i] = is[l][p] /\ ms[l][j] = is[l][q]
      BY <3>1, <3>4, <3>5, <1>0
    <3>7. (i <= j => p <= q) /\ (i < j => p < q)
      BY <3>1, <3>2, <1>0
    <3> HIDE DEF i, j
    <3>. QED BY <2>2, <3>6, <3>7
  <2>. QED BY <2>1, <2>2
<1>2. ASSUME NEW k \in Loc, NEW p \in DOMAIN is[k], NEW i \in DOMAIN ms[k], NEW j \in DOMAIN ms[k],
             ms[k][i] = is[k][p], i <= j
      PROVE  \E q \in DOMAIN is[k] : is[k][q] = ms[k][j] /\ p <= q
  <2>1. CASE k # l
    <3>1. is[k] = ms[k]
      BY <2>1 DEF Inserted
    <3>2. i = p
      BY <1>2, <3>1 DEF IdsApart
    <3>. QED BY <1>2, <3>1, <3>2
  <2>2. CASE k = l
    <3> DEFINE a == IF i < s THEN i ELSE i + 1
    <3> DEFINE b == IF j < s THEN j ELSE j + 1
    <3>1. /\ \A x \in DOMAIN ms[l] : x < s => x \in DOMAIN is[l] /\ is[l][x] = ms[l][x]
          /\ \A x \in DOMAIN ms[l] : x >= s => x + 1 \in DOMAIN is[l] /\ is[l][x + 1] = ms[l][x]
      BY DEF Inserted
    <3>2. i \in Nat /\ j \in Nat /\ i \in DOMAIN ms[l] /\ j \in DOMAIN ms[l]
      BY <1>0, <2>2
    <3>3. a \in DOMAIN is[l] /\ is[l][a] = ms[l][i] /\ b \in DOMAIN is[l] /\ is[l][b] = ms[l][j]
      BY <1>0, <3>1, <3>2
    <3>4. a <= b
      BY <1>0, <1>2, <3>2
    <3> HIDE DEF a, b
    <3>5. a = p
      BY <1>2, <2>2, <3>3 DEF IdsApart
    <3>. QED BY <2>2, <3>3, <3>4, <3>5
  <2>. QED BY <2>1, <2>2
<1>. QED BY <1>1, <1>2 DEF Embeds

LEMMA InsertAdjacent ==
  ASSUME NEW ms, MsgsTyped(ms), NEW is, NEW l \in Loc, NEW m, NEW s, 1 < s,
         Inserted(ms, is, l, m, s), Adjacent(ms),
         s = Len(ms[l]) + 1 \/ ~RmwAfter(ms[l], s - 1),
         m.rmwOf # 0 => s - 1 \in DOMAIN ms[l] /\ ms[l][s - 1].id = m.rmwOf
  PROVE  Adjacent(is)
<1>0. /\ Len(ms[l]) \in Nat /\ DOMAIN ms[l] = 1 .. Len(ms[l])
      /\ DOMAIN is[l] = 1 .. Len(ms[l]) + 1 /\ s \in DOMAIN is[l] /\ is[l][s] = m
      /\ \A q \in DOMAIN ms[l] : q < s => q \in DOMAIN is[l] /\ is[l][q] = ms[l][q]
      /\ \A q \in DOMAIN is[l] :
           \/ q < s /\ q \in DOMAIN ms[l] /\ is[l][q] = ms[l][q]
           \/ q = s
           \/ q > s /\ q - 1 \in DOMAIN ms[l] /\ is[l][q] = ms[l][q - 1]
  BY MsgOf DEF Inserted
<1> SUFFICES ASSUME NEW k \in Loc, NEW p \in DOMAIN is[k], is[k][p].rmwOf # 0
             PROVE  p - 1 \in DOMAIN is[k] /\ is[k][p - 1].id = is[k][p].rmwOf
  BY DEF Adjacent
<1>1. CASE k # l
  BY <1>1 DEF Inserted, Adjacent
<1>2. CASE k = l
  <2>0. p \in Nat /\ s \in Nat /\ p \in DOMAIN is[l]
    BY <1>0, <1>2
  <2>1. CASE p < s
    <3>1. p \in DOMAIN ms[l] /\ is[l][p] = ms[l][p]
      BY <1>0, <2>0, <2>1
    <3>2. p - 1 \in DOMAIN ms[l] /\ ms[l][p - 1].id = ms[l][p].rmwOf
      BY <1>2, <3>1 DEF Adjacent
    <3>3. p - 1 < s
      BY <2>0, <2>1
    <3>. QED BY <1>0, <1>2, <3>1, <3>2, <3>3
  <2>2. CASE p = s
    <3>1. s - 1 \in DOMAIN ms[l] /\ ms[l][s - 1].id = m.rmwOf /\ s - 1 < s
      BY <1>0, <1>2, <2>0, <2>2
    <3>. QED BY <1>0, <1>2, <2>2, <3>1
  <2>3. CASE p > s
    <3>1. p - 1 \in DOMAIN ms[l] /\ is[l][p] = ms[l][p - 1]
      BY <1>0, <2>0, <2>3
    <3>2. (p - 1) - 1 \in DOMAIN ms[l] /\ ms[l][(p - 1) - 1].id = ms[l][p - 1].rmwOf
      BY <1>2, <3>1 DEF Adjacent
    <3>3. p - 1 # s
      <4> SUFFICES ASSUME p - 1 = s PROVE FALSE
        OBVIOUS
      <4>1. s \in DOMAIN ms[l] /\ ms[l][s].rmwOf = ms[l][s - 1].id
        BY <3>1, <3>2
      <4>2. s # Len(ms[l]) + 1 /\ s - 1 < Len(ms[l]) /\ (s - 1) + 1 = s
        BY <4>1, <1>0, <2>0
      <4>. QED BY <4>1, <4>2 DEF RmwAfter
    <3>4. p - 1 > s /\ p - 1 \in DOMAIN is[l]
      BY <1>0, <2>0, <2>3, <3>3
    <3>5. is[l][p - 1] = ms[l][(p - 1) - 1]
      BY SMTT(30), <1>0, <3>4, <2>0
    <3>. QED BY <1>2, <3>1, <3>2, <3>4, <3>5
  <2>. QED BY <2>0, <2>1, <2>2, <2>3
<1>. QED BY <1>1, <1>2

(* The new event ev is not behind what it knows of. *)
Behind(h, ms, ev) ==
  \A p, q \in DOMAIN ms[ev.loc] :
    /\ \A m \in ev.past :
         h[m].loc = ev.loc /\ Saw(h, m, ev.tid, ms[ev.loc][p].id) =>
           (ms[ev.loc][q].id = ev.w => p < q) /\ (ms[ev.loc][q].id = ev.r => p <= q)
    /\ \A m \in ev.past \cup Closed(h, {n \in ev.heads \cap DOMAIN h : h[n].rel}) :
         h[m].loc = ev.loc /\ ms[ev.loc][p].id = h[m].w /\ ms[ev.loc][q].id = ev.w => p <= q

(* The view of its thread is its message. *)
ViewIs(h, ms, sn, ev, sn2) ==
  /\ \A u \in Thread, k \in Loc : u # ev.tid \/ k # ev.loc => sn2[u][k] = sn[u][k]
  /\ sn2[ev.tid][ev.loc] \in {ev.r, ev.w}
  /\ \E s \in DOMAIN ms[ev.loc] :
       /\ ms[ev.loc][s].id = sn2[ev.tid][ev.loc]
       /\ \A p \in DOMAIN ms[ev.loc] :
            /\ ms[ev.loc][p].id = ev.r => p <= s
            /\ \A m \in Own(h, ev.tid) : h[m].loc = ev.loc /\ ms[ev.loc][p].id = h[m].r => p <= s

(* The event is plain, or of location ev.loc. *)
Follows(h, ms, sn, ev, sn2) ==
  \/ ev.r = 0 /\ ev.w = 0 /\ sn2 = sn
  \/ ev.loc \in Loc /\ Behind(h, ms, ev) /\ ViewIs(h, ms, sn, ev, sn2)

IdsTyped(ms) == IdsApart(ms) /\ \A l \in Loc : \A p \in DOMAIN ms[l] : p \in Nat /\ ms[l][p].id # 0

LEMMA CohGrows ==
  ASSUME NEW h, NEW nx, HistTyped(h, nx), NEW ev \in Event, ev.past \subseteq DOMAIN h, NEW ms,
         NEW sn, NEW sn2, IdsTyped(ms), Follows(h, ms, sn, ev, sn2), Coh(h, ms)
  PROVE  Coh(Append(h, ev), ms)
<1>0. h \in Seq(Event) /\ \A n \in DOMAIN h : h[n].past \subseteq DOMAIN h
  BY EventTyped DEF HistTyped
<1> DEFINE g == Append(h, ev)
<1>1. /\ DOMAIN g = DOMAIN h \cup {Len(h) + 1} /\ g[Len(h) + 1] = ev
      /\ \A n \in DOMAIN h : g[n] = h[n]
  BY <1>0, AppendIs
<1> HIDE DEF g
<1> SUFFICES ASSUME NEW n \in DOMAIN g, NEW m \in g[n].past, NEW l \in Loc,
                    NEW p \in DOMAIN ms[l], NEW q \in DOMAIN ms[l],
                    g[m].loc = l, g[n].loc = l, Saw(g, m, g[n].tid, ms[l][p].id)
             PROVE  (ms[l][q].id = g[n].w => p < q) /\ (ms[l][q].id = g[n].r => p <= q)
  BY ZenonT(60) DEF Coh, g
<1>2. m \in DOMAIN h /\ g[m] = h[m]
  BY <1>0, <1>1
<1>3. Saw(h, m, g[n].tid, ms[l][p].id)
  BY <1>2 DEF Saw
<1>4. CASE n \in DOMAIN h
  <2>1. g[n] = h[n]
    BY <1>1, <1>4
  <2>. QED BY <2>1, <1>2, <1>3, <1>4 DEF Coh
<1>5. CASE n = Len(h) + 1
  <2>1. g[n] = ev
    BY <1>1, <1>5
  <2>2. CASE ev.r = 0 /\ ev.w = 0
    BY <2>1, <2>2 DEF IdsTyped
  <2>3. CASE Behind(h, ms, ev)
    BY <2>1, <2>3, <1>2, <1>3 DEF Behind
  <2>. QED BY <2>2, <2>3 DEF Follows
<1>. QED BY <1>1, <1>4, <1>5

LEMMA RelGrows ==
  ASSUME NEW h, NEW nx, HistTyped(h, nx), NEW ev \in Event, ev.past \subseteq DOMAIN h, NEW ms,
         NEW sn, NEW sn2, IdsTyped(ms), Follows(h, ms, sn, ev, sn2), RelOrder(h, ms),
         ev.heads \subseteq DOMAIN h \cup {Len(h) + 1},
         ev.w # 0 => \A n \in DOMAIN h : h[n].w # ev.w,
         ev.w # 0 => \A l \in Loc : \A q \in DOMAIN ms[l] : ms[l][q].id = ev.w => l = ev.loc
  PROVE  RelOrder(Append(h, ev), ms)
<1>0. h \in Seq(Event) /\ \A n \in DOMAIN h : h[n].heads \subseteq DOMAIN h
  BY EventTyped DEF HistTyped
<1> DEFINE g == Append(h, ev)
<1> DEFINE N == Len(h) + 1
<1>1. /\ DOMAIN g = DOMAIN h \cup {N} /\ g[N] = ev
      /\ \A n \in DOMAIN h : g[n] = h[n]
  BY <1>0, AppendIs
<1>2. \A l, id : id # ev.w => Freed(g, l, id) = Freed(h, l, id)
  BY <1>0, ChainStays
<1>3. ev.w # 0 => Chain(g, ev.loc, ev.w) = ev.heads
  BY <1>0, ChainStays
<1> SUFFICES ASSUME NEW l \in Loc, NEW p \in DOMAIN ms[l], NEW q \in DOMAIN ms[l],
                    NEW m \in Closed(g, Freed(g, l, ms[l][q].id)), g[m].loc = l, ms[l][p].id = g[m].w
             PROVE  p <= q
  BY DEF RelOrder
<1>4. CASE ms[l][q].id # ev.w
  <2> DEFINE A == Freed(h, l, ms[l][q].id)
  <2>1. Freed(g, l, ms[l][q].id) = A /\ A \subseteq DOMAIN h
    BY <1>2, <1>4, ClosedTyped
  <2> HIDE DEF A
  <2>2. Closed(g, A) = Closed(h, A) /\ Closed(h, A) \subseteq DOMAIN h
    BY <1>0, <2>1, ClosedSame, ClosedTyped
  <2>3. m \in Closed(h, A) /\ g[m] = h[m]
    BY <1>1, <2>1, <2>2
  <2> HIDE DEF g
  <2>. QED BY <2>3 DEF RelOrder, A
<1>5. CASE ms[l][q].id = ev.w
  <2>1. ev.w # 0 /\ l = ev.loc
    BY <1>5 DEF IdsTyped
  <2>2. Behind(h, ms, ev)
    BY <2>1 DEF Follows
  <2> DEFINE A == {n \in ev.heads \cap DOMAIN h : h[n].rel}
  <2>3. Freed(g, l, ev.w) \subseteq A \cup {N}
    <3>1. Freed(g, l, ev.w) = {n \in ev.heads : g[n].rel}
      BY <1>3, <2>1 DEF Freed
    <3>. QED BY <3>1, <1>1
  <2>4. Closed(g, A \cup {N}) = Closed(h, A) \cup ev.past \cup {N}
    <3>1. A \in SUBSET DOMAIN h
      OBVIOUS
    <3> HIDE DEF A
    <3>. QED BY <3>1, <1>0, ClosedStays
  <2>5. Closed(g, Freed(g, l, ev.w)) \subseteq Closed(g, A \cup {N})
    BY <2>3 DEF Closed
  <2>6. Closed(h, A) \subseteq DOMAIN h
    <3>1. A \in SUBSET DOMAIN h
      OBVIOUS
    <3> HIDE DEF A
    <3>. QED BY <3>1, ClosedTyped
  <2>7. m \in Closed(h, A) \cup ev.past \/ m = N
    BY <2>4, <2>5, <1>5
  <2>8. CASE m = N
    <3>1. g[m] = ev
      BY <2>8, <1>1
    <3>2. ms[l][p].id = ms[l][q].id
      BY <3>1, <1>5
    <3>. QED BY <3>2 DEF IdsTyped, IdsApart
  <2>9. CASE m \in Closed(h, A) \cup ev.past
    <3>1. g[m] = h[m]
      BY <2>6, <2>9, <1>1
    <3> HIDE DEF g
    <3>. QED BY <3>1, <2>1, <2>2, <2>9, <1>5 DEF Behind
  <2>. QED BY <2>7, <2>8, <2>9
<1>. QED BY <1>4, <1>5

LEMMA ViewGrows ==
  ASSUME NEW h, NEW nx, HistTyped(h, nx), NEW ev \in Event, NEW ms,
         NEW sn, NEW sn2, IdsTyped(ms), Follows(h, ms, sn, ev, sn2),
         ViewOrder(h, ms, sn), SeenFrom(h, sn)
  PROVE  ViewOrder(Append(h, ev), ms, sn2) /\ SeenFrom(Append(h, ev), sn2)
<1>0. h \in Seq(Event)
  BY DEF HistTyped
<1> DEFINE g == Append(h, ev)
<1> DEFINE N == Len(h) + 1
<1>1. g[N] = ev /\ N \in DOMAIN g /\ \A n \in DOMAIN h : g[n] = h[n]
  BY <1>0, AppendIs
<1>2. /\ \A u : u # ev.tid => Own(g, u) = Own(h, u)
      /\ Own(g, ev.tid) = Own(h, ev.tid) \cup {N}
  BY <1>0, OwnStays
<1>3. \A u : Own(h, u) \subseteq DOMAIN h
  BY DEF Own
<1> HIDE DEF g, N
<1>4. \A u : \A m \in Own(g, u) : (m \in Own(h, u) /\ g[m] = h[m]) \/ (u = ev.tid /\ m = N /\ g[m] = ev)
  BY <1>1, <1>2, <1>3
<1>5. \A u : \A m \in Own(h, u) : m \in Own(g, u) /\ g[m] = h[m]
  BY <1>1, <1>2, <1>3
<1>6. ViewOrder(g, ms, sn2)
  <2> SUFFICES ASSUME NEW u \in Thread, NEW l \in Loc, NEW m \in Own(g, u), NEW p \in DOMAIN ms[l],
                      g[m].loc = l, ms[l][p].id = g[m].r
               PROVE  \E s \in DOMAIN ms[l] : ms[l][s].id = sn2[u][l] /\ p <= s
    BY DEF ViewOrder
  <2>1. CASE ev.r = 0 /\ ev.w = 0 /\ sn2 = sn
    <3>1. m \in Own(h, u) /\ g[m] = h[m]
      BY <1>4, <2>1 DEF IdsTyped
    <3>. QED BY <2>1, <3>1 DEF ViewOrder
  <2>2. CASE ViewIs(h, ms, sn, ev, sn2)
    <3>1. CASE u # ev.tid \/ l # ev.loc
      <4>1. sn2[u][l] = sn[u][l]
        BY <2>2, <3>1 DEF ViewIs
      <4>2. m \in Own(h, u) /\ g[m] = h[m]
        BY <1>4, <3>1
      <4>. QED BY <4>1, <4>2 DEF ViewOrder
    <3>2. CASE u = ev.tid /\ l = ev.loc
      <4>1. (m \in Own(h, u) /\ g[m] = h[m]) \/ g[m] = ev
        BY <1>4
      <4>. QED BY <2>2, <3>2, <4>1 DEF ViewIs
    <3>. QED BY <3>1, <3>2
  <2>. QED BY <2>1, <2>2 DEF Follows
<1>7. SeenFrom(g, sn2)
  <2> SUFFICES ASSUME NEW u \in Thread, NEW l \in Loc, sn2[u][l] # 0
               PROVE  \E m \in Own(g, u) : g[m].loc = l /\ sn2[u][l] \in {g[m].r, g[m].w}
    BY DEF SeenFrom
  <2>1. CASE sn2[u][l] = sn[u][l]
    <3>1. PICK m \in Own(h, u) : h[m].loc = l /\ sn[u][l] \in {h[m].r, h[m].w}
      BY <2>1 DEF SeenFrom
    <3>. QED BY <1>5, <2>1, <3>1
  <2>2. CASE ViewIs(h, ms, sn, ev, sn2) /\ u = ev.tid /\ l = ev.loc
    <3>1. sn2[u][l] \in {ev.r, ev.w}
      BY <2>2 DEF ViewIs
    <3>2. N \in Own(g, u) /\ g[N] = ev
      BY <1>1, <1>2, <2>2
    <3>. QED BY <2>2, <3>1, <3>2
  <2>. QED BY <2>1, <2>2 DEF Follows, ViewIs
<1>. QED BY <1>6, <1>7 DEF g

(***************************************************************************)
(* The steps of Atomics keep the order.                                    *)
(***************************************************************************)

FloorOf(t, l) == Floor(Located(l)[l], t, Bump(clocks[t], t), l)

(* The oldest message that a thread may read is not before the messages    *)
(* that it knows of.                                                       *)
LEMMA FloorBehind ==
  ASSUME AInv, HX, NEW l \in Loc, NEW t \in Thread, Ordered(hist, Located(l), SeenAfter(l)),
         NEW x \in DOMAIN Located(l)[l], FloorOf(t, l) <= x,
         NEW p \in DOMAIN Located(l)[l], NEW m \in DOMAIN hist, hist[m].loc = l
  PROVE  /\ m \in Past(hist, t) /\ Located(l)[l][p].id = hist[m].w => p <= x
         /\ m \in Own(hist, t) /\ Located(l)[l][p].id = hist[m].r => p <= x
         /\ m \in Closed(hist, Freed(hist, l, Located(l)[l][x].id)) /\ Located(l)[l][p].id = hist[m].w
              => p <= x
<1> DEFINE ms == Located(l)[l]
<1> DEFINE c == Bump(clocks[t], t)
<1>1. MsgsOK(Located(l), SeenAfter(l), NextId(l)) /\ ms # <<>> /\ LocatedAt(l)
  BY LocatedKeeps, LocatedPlaces DEF AInv
<1>2. ms \in Seq(Message(l)) /\ DOMAIN ms = 1 .. Len(ms) /\ Len(ms) \in Nat
  BY <1>1, MsgOf DEF MsgsOK, MsgsTyped
<1>3. /\ FloorOf(t, l) \in 1 .. Len(ms)
      /\ \A q \in 1 .. Len(ms) :
           ClockLe(ms[q].clock, c) \/ ms[q].id = seen[t][l] => q <= FloorOf(t, l)
  <2> HIDE DEF ms, c
  <2>1. /\ Floor(ms, t, c, l) \in 1 .. Len(ms)
        /\ \A q \in 1 .. Len(ms) :
             ClockLe(ms[q].clock, c) \/ ms[q].id = seen[t][l] => q <= Floor(ms, t, c, l)
    BY <1>1, <1>2, FloorIs
  <2>. QED BY <2>1 DEF FloorOf, ms, c
<1>4. XInv(hist, footprint, clocks, Located(l), NextId(l)) /\ Base(footprint, clocks, Located(l), NextId(l))
  BY LocatedExact, LocatedBase
<1>5. clocks[t] \in Clock /\ c \in Clock /\ ClockLe(clocks[t], c)
  BY BumpIs DEF AInv, TypeOK
<1> HIDE DEF c
<1>6. ASSUME m \in Past(hist, t), ms[p].id = hist[m].w PROVE p <= x
  <2>1. Exact(hist, footprint, Located(l), clocks[t], Past(hist, t))
    BY <1>4 DEF XInv, ClocksExact
  <2>2. ClockLe(ms[p].clock, clocks[t])
    BY <1>6, <2>1 DEF Exact, Above
  <2>3. ms[p].clock \in Clock
    BY <1>4 DEF Base, MsgTyped
  <2>4. ClockLe(ms[p].clock, c)
    BY <1>5, <2>2, <2>3, LeTrans
  <2>5. p <= FloorOf(t, l)
    BY <1>2, <1>3, <2>4
  <2>. QED BY <2>5, <1>2, <1>3
<1>7. ASSUME m \in Own(hist, t), ms[p].id = hist[m].r PROVE p <= x
  <2>1. PICK s \in DOMAIN ms : ms[s].id = SeenAfter(l)[t][l] /\ p <= s
    BY <1>7 DEF Ordered, ViewOrder
  <2>2. SeenAfter(l)[t][l] = seen[t][l]
    BY <1>1, <2>1 DEF LocatedAt
  <2>3. s <= FloorOf(t, l)
    BY <1>2, <1>3, <2>1, <2>2
  <2>. QED BY <2>1, <2>3, <1>2, <1>3
<1>8. ASSUME m \in Closed(hist, Freed(hist, l, ms[x].id)), ms[p].id = hist[m].w PROVE p <= x
  BY <1>8 DEF Ordered, RelOrder
<1>. QED BY <1>6, <1>7, <1>8

(* What the new event of t knows of, when it reads or goes after x.        *)
LEMMA KnownBehind ==
  ASSUME AInv, HX, NEW l \in Loc, NEW t \in Thread, Ordered(hist, Located(l), SeenAfter(l)),
         NEW x \in DOMAIN Located(l)[l], FloorOf(t, l) <= x,
         NEW r \in Nat, r # 0 => r = Located(l)[l][x].id,
         NEW p \in DOMAIN Located(l)[l], NEW m,
         m \in Past(hist, t) \cup Closed(hist, IF r # 0 THEN Freed(hist, l, r) ELSE {}),
         hist[m].loc = l, Saw(hist, m, t, Located(l)[l][p].id)
  PROVE  p <= x
<1> DEFINE F == IF r # 0 THEN Freed(hist, l, r) ELSE {}
<1>0. HistTyped(hist, nextMsg)
  BY DEF HX, XInv
<1>1. Past(hist, t) \subseteq DOMAIN hist /\ Closed(hist, F) \subseteq DOMAIN hist
  <2>1. F \in SUBSET DOMAIN hist
    BY <1>0, ClosedTyped
  <2> HIDE DEF F
  <2>. QED BY <2>1, <1>0, ClosedTyped
<1>2. m \in DOMAIN hist
  BY <1>1
<1>3. CASE Located(l)[l][p].id = hist[m].r /\ hist[m].tid = t
  BY <1>2, <1>3, FloorBehind DEF Own
<1>4. CASE Located(l)[l][p].id = hist[m].w
  <2>1. CASE m \in Past(hist, t)
    BY <1>2, <1>4, <2>1, FloorBehind
  <2>2. CASE m \in Closed(hist, F)
    <3>1. r # 0
      BY <2>2 DEF Closed
    <3>2. m \in Closed(hist, Freed(hist, l, Located(l)[l][x].id))
      BY <2>2, <3>1
    <3> HIDE DEF F
    <3>. QED BY <1>2, <1>4, <3>2, FloorBehind
  <2>. QED BY <2>1, <2>2
<1>. QED BY <1>3, <1>4 DEF Saw

LEMMA LocatedIdsTyped == ASSUME AInv, NEW l \in Loc PROVE IdsTyped(Located(l))
<1>1. MsgsOK(Located(l), SeenAfter(l), NextId(l)) /\ MsgsTyped(Located(l))
  BY LocatedKeeps DEF AInv, MsgsOK
<1>2. ASSUME NEW k \in Loc, NEW p \in DOMAIN Located(l)[k] PROVE p \in Nat /\ Located(l)[k][p].id # 0
  <2>1. p \in Nat
    BY <1>1, MsgOf
  <2>2. Located(l)[k][p].id # 0
    BY LocatedBase DEF Base, MsgTyped
  <2>. QED BY <2>1, <2>2
<1>. QED BY <1>1, <1>2 DEF IdsTyped, MsgsOK

(* A read takes its place. *)
LEMMA ReadFollows ==
  ASSUME AInv, HX, NEW l \in Loc, NEW t \in Thread, Ordered(hist, Located(l), SeenAfter(l)),
         NEW p, NEW cl, NEW new, Reads(t, l, p, cl, new),
         NEW ev \in Event, ev.tid = t, ev.loc = l, ev.r = Located(l)[l][p].id, ev.w = 0,
         NEW acq \in BOOLEAN,
         ev.past = Past(hist, t) \cup Closed(hist, IF acq THEN Freed(hist, l, ev.r) ELSE {})
  PROVE  /\ Follows(hist, Located(l), SeenAfter(l), ev, seen')
         /\ msgs' = Located(l)
<1> DEFINE ms == Located(l)[l]
<1>0. IdsTyped(Located(l)) /\ msgs' = Located(l) /\ SeenAfter(l) \in [Thread -> [Loc -> Nat]]
  BY LocatedIdsTyped, LocatedKeeps DEF Reads, AInv, MsgsOK
<1>1. p \in DOMAIN ms /\ FloorOf(t, l) <= p
  BY ReadIs DEF Reads, FloorOf
<1>2. ev.r # 0 /\ ev.r \in Nat /\ ev.r = ms[p].id
  BY <1>0, <1>1 DEF IdsTyped, Event
<1>3. ASSUME NEW m \in ev.past, hist[m].loc = l, NEW i \in DOMAIN ms, Saw(hist, m, t, ms[i].id)
      PROVE  i <= p
  <2>1. m \in Past(hist, t) \cup Closed(hist, IF ev.r # 0 THEN Freed(hist, l, ev.r) ELSE {})
    BY <1>2, <1>3 DEF Closed
  <2> HIDE DEF ms
  <2>. QED BY <1>1, <1>2, <1>3, <2>1, KnownBehind DEF ms
<1>4. Behind(hist, Located(l), ev)
  <2> SUFFICES ASSUME NEW i \in DOMAIN ms, NEW q \in DOMAIN ms
               PROVE  \A m \in ev.past :
                        hist[m].loc = l /\ Saw(hist, m, t, ms[i].id) => (ms[q].id = ev.r => i <= q)
    BY <1>0 DEF Behind, IdsTyped
  <2>1. ms[q].id = ev.r => q = p
    BY <1>0, <1>1, <1>2 DEF IdsTyped, IdsApart
  <2>. QED BY <1>3, <2>1
<1>5. ViewIs(hist, Located(l), SeenAfter(l), ev, seen')
  <2>1. seen' = [SeenAfter(l) EXCEPT ![t][l] = ev.r]
    BY DEF Reads, Observe
  <2>2. seen'[t][l] = ev.r /\ \A u \in Thread, k \in Loc : u # t \/ k # l => seen'[u][k] = SeenAfter(l)[u][k]
    BY <1>0, <2>1
  <2>3. \A i \in DOMAIN ms : ms[i].id = ev.r => i <= p
    BY <1>0, <1>1, <1>2 DEF IdsTyped, IdsApart
  <2>4. ASSUME NEW i \in DOMAIN ms, NEW m \in Own(hist, t), hist[m].loc = l, ms[i].id = hist[m].r
        PROVE  i <= p
    BY <1>1, <2>4, FloorBehind DEF Own
  <2>. QED BY <1>1, <1>2, <2>2, <2>3, <2>4 DEF ViewIs
<1>. QED BY <1>0, <1>4, <1>5 DEF Follows

(* A write that goes after x. *)
LEMMA WriteFollows ==
  ASSUME AInv, HX, NEW l \in Loc, NEW t \in Thread, Ordered(hist, Located(l), SeenAfter(l)),
         NEW s, NEW m, NEW cl, NEW new, Writes(t, l, s, m, cl, new), Fits(t, l, s, m, cl),
         NEW r \in Nat, r # 0 => s - 1 \in DOMAIN Located(l)[l] /\ r = Located(l)[l][s - 1].id,
         NEW ev \in Event, ev.tid = t, ev.loc = l, ev.r = r, ev.w = m.id,
         NEW acq \in BOOLEAN, acq => r # 0,
         ev.past = Past(hist, t) \cup Closed(hist, IF acq THEN Freed(hist, l, r) ELSE {}),
         ev.heads = {Len(hist) + 1} \cup IF r = 0 THEN {} ELSE Chain(hist, l, r)
  PROVE  /\ Follows(hist, msgs', SeenAfter(l), ev, seen')
         /\ IdsTyped(msgs')
         /\ \A k \in Loc : \A q \in DOMAIN msgs'[k] : msgs'[k][q].id = ev.w => k = l
<1> DEFINE ms == Located(l)[l]
<1> DEFINE x == s - 1
<1>0. /\ Inserted(Located(l), msgs', l, m, s) /\ s \in 1 .. Len(ms) + 1 /\ s \in Nat
      /\ FloorOf(t, l) \in DOMAIN ms /\ FloorOf(t, l) \in Nat /\ FloorOf(t, l) < s
      /\ MsgsOK(msgs', seen', nextMsg') /\ MsgsTyped(Located(l))
  BY WritePlaces DEF FloorOf
<1>1. Len(ms) \in Nat /\ DOMAIN ms = 1 .. Len(ms)
  BY <1>0, MsgOf
<1>2. x \in DOMAIN ms /\ FloorOf(t, l) <= x /\ x \in Nat
  BY <1>0, <1>1
<1>3. r # 0 => r = ms[x].id
  OBVIOUS
<1> HIDE DEF x
<1>4. /\ s \in DOMAIN msgs'[l] /\ msgs'[l][s] = m
      /\ \A q \in DOMAIN ms : q < s => q \in DOMAIN msgs'[l] /\ msgs'[l][q] = ms[q]
      /\ \A q \in DOMAIN msgs'[l] :
           \/ q < s /\ q \in DOMAIN ms /\ msgs'[l][q] = ms[q]
           \/ q = s
           \/ q > s /\ q - 1 \in DOMAIN ms /\ msgs'[l][q] = ms[q - 1]
      /\ DOMAIN msgs'[l] = 1 .. Len(ms) + 1
  BY <1>0 DEF Inserted
<1>5. IdsApart(msgs') /\ MsgsTyped(msgs')
  BY <1>0 DEF MsgsOK
<1>6. IdsTyped(msgs')
  <2>1. ASSUME NEW k \in Loc, NEW p \in DOMAIN msgs'[k] PROVE p \in Nat /\ msgs'[k][p].id # 0
    <3>1. p \in Nat /\ msgs'[k][p] \in Message(k)
      BY <1>5, MsgOf
    <3>. QED BY <3>1 DEF Message
  <2>. QED BY <1>5, <2>1 DEF IdsTyped
<1>7. m.id = NextId(l) /\ \A n \in DOMAIN hist : hist[n].w # m.id /\ hist[n].r # m.id
  <2>1. HistTyped(hist, NextId(l)) /\ NextId(l) \in Nat /\ m.id = NextId(l)
    BY LocatedExact, LocatedBase DEF XInv, Base, Fits
  <2>2. \A n \in DOMAIN hist : hist[n].w \in Nat /\ hist[n].r \in Nat /\ hist[n].w < m.id /\ hist[n].r < m.id
    BY <2>1, EventTyped DEF HistTyped
  <2>. QED BY <2>1, <2>2
<1>8. ASSUME NEW e, e \in DOMAIN hist, hist[e].loc = l, NEW i \in DOMAIN msgs'[l],
             e \in Past(hist, t) \cup Closed(hist, IF r # 0 THEN Freed(hist, l, r) ELSE {}),
             Saw(hist, e, t, msgs'[l][i].id)
      PROVE  i <= x /\ i < s
  <2>0. i \in Nat
    BY <1>4
  <2>1. i # s
    BY <1>4, <1>7, <1>8 DEF Saw
  <2>2. CASE i < s
    <3>1. i \in DOMAIN ms /\ msgs'[l][i] = ms[i]
      BY <1>4, <2>1, <2>2, <2>0, <1>0
    <3>2. i <= x
      BY <1>2, <1>3, <1>8, <3>1, KnownBehind
    <3>. QED BY <2>2, <3>2
  <2>3. CASE i > s
    <3>1. i - 1 \in DOMAIN ms /\ msgs'[l][i] = ms[i - 1]
      BY <1>4, <2>1, <2>3, <2>0, <1>0
    <3>2. i - 1 <= x
      BY <1>2, <1>3, <1>8, <3>1, KnownBehind
    <3>3. FALSE
      BY <2>0, <2>3, <3>2, <1>0 DEF x
    <3>. QED BY <3>3
  <2>. QED BY <2>0, <2>1, <2>2, <2>3, <1>0
<1>9. HistTyped(hist, nextMsg) /\ Len(hist) \in Nat /\ Len(hist) + 1 \notin DOMAIN hist
  <2>1. HistTyped(hist, nextMsg)
    BY DEF HX, XInv
  <2>2. Len(hist) \in Nat /\ DOMAIN hist = 1 .. Len(hist)
    BY <2>1, EventTyped
  <2>. QED BY <2>1, <2>2
<1>10. ev.past \subseteq Past(hist, t) \cup Closed(hist, IF r # 0 THEN Freed(hist, l, r) ELSE {})
  BY DEF Closed
<1>11. Closed(hist, {n \in ev.heads \cap DOMAIN hist : hist[n].rel})
         \subseteq Closed(hist, IF r # 0 THEN Freed(hist, l, r) ELSE {})
  <2>1. {n \in ev.heads \cap DOMAIN hist : hist[n].rel} \subseteq IF r # 0 THEN Freed(hist, l, r) ELSE {}
    BY <1>9 DEF Freed
  <2>. QED BY <2>1 DEF Closed
<1>12. Past(hist, t) \cup Closed(hist, IF r # 0 THEN Freed(hist, l, r) ELSE {}) \subseteq DOMAIN hist
  <2> DEFINE F == IF r # 0 THEN Freed(hist, l, r) ELSE {}
  <2>1. F \in SUBSET DOMAIN hist
    BY <1>9, ClosedTyped
  <2> HIDE DEF F
  <2>2. Closed(hist, F) \subseteq DOMAIN hist /\ Past(hist, t) \subseteq DOMAIN hist
    BY <2>1, <1>9, ClosedTyped
  <2>. QED BY <2>2 DEF F
<1>13. /\ \A q \in DOMAIN msgs'[l] : msgs'[l][q].id = m.id => q = s
       /\ \A q \in DOMAIN msgs'[l] : r # 0 /\ msgs'[l][q].id = r => q = x
  <2>1. r # 0 => x \in DOMAIN msgs'[l] /\ msgs'[l][x].id = r
    <3>1. x < s
      BY <1>0 DEF x
    <3>. QED BY <1>2, <1>3, <1>4, <3>1
  <2>. QED BY <1>4, <1>5, <2>1 DEF IdsApart
<1>14. x < s
  BY <1>0 DEF x
<1>15. ASSUME NEW i \in DOMAIN msgs'[l], NEW q \in DOMAIN msgs'[l]
       PROVE  /\ \A e \in ev.past : hist[e].loc = l /\ Saw(hist, e, t, msgs'[l][i].id) =>
                   (msgs'[l][q].id = m.id => i < q) /\ (msgs'[l][q].id = r => i <= q)
              /\ \A e \in ev.past \cup Closed(hist, {n \in ev.heads \cap DOMAIN hist : hist[n].rel}) :
                   hist[e].loc = l /\ msgs'[l][i].id = hist[e].w /\ msgs'[l][q].id = m.id => i <= q
  <2>1. ASSUME NEW e \in ev.past, hist[e].loc = l, Saw(hist, e, t, msgs'[l][i].id)
        PROVE  (msgs'[l][q].id = m.id => i < q) /\ (msgs'[l][q].id = r => i <= q)
    <3>1. i <= x /\ i < s
      BY <1>8, <1>10, <1>12, <2>1
    <3>. QED BY <3>1, <1>6, <1>13 DEF IdsTyped
  <2>2. ASSUME NEW e \in ev.past \cup Closed(hist, {n \in ev.heads \cap DOMAIN hist : hist[n].rel}),
               hist[e].loc = l, msgs'[l][i].id = hist[e].w, msgs'[l][q].id = m.id
        PROVE  i <= q
    <3>1. Saw(hist, e, t, msgs'[l][i].id)
      BY <2>2 DEF Saw
    <3>2. e \in Past(hist, t) \cup Closed(hist, IF r # 0 THEN Freed(hist, l, r) ELSE {})
      BY <1>10, <1>11
    <3>3. i < s
      BY <1>8, <1>12, <2>2, <3>1, <3>2
    <3>4. i \in Nat /\ q = s
      BY <1>4, <1>13, <2>2
    <3>. QED BY <3>3, <3>4, <1>0
  <2>. QED BY <2>1, <2>2
<1>16. Behind(hist, msgs', ev)
  BY <1>15 DEF Behind
<1>17. ViewIs(hist, msgs', SeenAfter(l), ev, seen')
  <2>1. seen' = [SeenAfter(l) EXCEPT ![t][l] = m.id] /\ SeenAfter(l) \in [Thread -> [Loc -> Nat]]
    BY LocatedKeeps DEF Writes, Observe, AInv, MsgsOK
  <2>2. seen'[t][l] = m.id /\ \A u \in Thread, k \in Loc : u # t \/ k # l => seen'[u][k] = SeenAfter(l)[u][k]
    BY <2>1
  <2>3. \A i \in DOMAIN msgs'[l] : msgs'[l][i].id = r => i <= s
    BY <1>2, <1>6, <1>13, <1>14, <1>0 DEF IdsTyped
  <2>4. ASSUME NEW i \in DOMAIN msgs'[l], NEW e \in Own(hist, t), hist[e].loc = l, msgs'[l][i].id = hist[e].r
        PROVE  i <= s
    <3>1. Saw(hist, e, t, msgs'[l][i].id) /\ e \in DOMAIN hist /\ e \in Past(hist, t)
      BY <2>4 DEF Saw, Own, Past, Closed
    <3>2. i < s
      BY <1>8, <2>4, <3>1
    <3>. QED BY <3>2, <1>0, <1>4
  <2>. QED BY <1>4, <2>2, <2>3, <2>4 DEF ViewIs
<1>18. \A k \in Loc : \A q \in DOMAIN msgs'[k] : msgs'[k][q].id = ev.w => k = l
  BY <1>4, <1>5 DEF IdsApart
<1>. QED BY <1>6, <1>16, <1>17, <1>18 DEF Follows

LEMMA WriteOrdered ==
  ASSUME AInv, HX, NEW l \in Loc, NEW t \in Thread, Ordered(hist, Located(l), SeenAfter(l)),
         NEW s, NEW m, NEW cl, NEW new, Writes(t, l, s, m, cl, new), Fits(t, l, s, m, cl),
         s = Len(Located(l)[l]) + 1 \/ ~RmwAfter(Located(l)[l], s - 1),
         m.rmwOf # 0 => s - 1 \in DOMAIN Located(l)[l] /\ m.rmwOf = Located(l)[l][s - 1].id
  PROVE  Ordered(hist, msgs', SeenAfter(l))
<1> DEFINE ms == Located(l)
<1>0. /\ Inserted(ms, msgs', l, m, s) /\ s \in Nat /\ MsgsTyped(ms)
      /\ FloorOf(t, l) \in DOMAIN ms[l] /\ FloorOf(t, l) < s
      /\ IdsApart(msgs') /\ MsgsTyped(msgs')
  BY WritePlaces DEF FloorOf, MsgsOK
<1>1. 1 < s
  <2>1. FloorOf(t, l) \in Nat /\ FloorOf(t, l) >= 1
    <3> HIDE DEF ms
    <3>1. Len(ms[l]) \in Nat /\ DOMAIN ms[l] = 1 .. Len(ms[l])
      BY <1>0, MsgOf
    <3>. QED BY <1>0, <3>1
  <2>. QED BY <2>1, <1>0
<1>2. m.id = NextId(l) /\ NextId(l) \in Nat /\ HistTyped(hist, NextId(l))
  BY LocatedExact, LocatedBase DEF XInv, Base, Fits
<1>3. Embeds(ms, msgs', NextId(l))
  BY <1>0, <1>2, InsertEmbeds
<1>4. Adjacent(msgs')
  <2>1. Adjacent(ms)
    BY DEF Ordered
  <2> HIDE DEF ms
  <2>. QED BY <1>0, <1>1, <2>1, InsertAdjacent DEF ms
<1>5. \A k \in Loc : \A q \in DOMAIN msgs'[k] : msgs'[k][q].id \in Nat
  <2> SUFFICES ASSUME NEW k \in Loc, NEW q \in DOMAIN msgs'[k] PROVE msgs'[k][q].id \in Nat
    OBVIOUS
  <2>1. msgs'[k][q] \in Message(k)
    BY <1>0, MsgOf
  <2>. QED BY <2>1 DEF Message
<1>6. Coh(hist, msgs')
  BY <1>2, <1>3, CohEmbeds DEF Ordered
<1>7. RelOrder(hist, msgs')
  BY <1>2, <1>3, <1>5, RelEmbeds DEF Ordered
<1>8. ViewOrder(hist, msgs', SeenAfter(l))
  <2>1. ViewsStay(SeenAfter(l), msgs', SeenAfter(l))
    BY DEF ViewsStay
  <2>. QED BY <1>2, <1>3, <2>1, ViewEmbeds DEF Ordered
<1>. QED BY <1>4, <1>6, <1>7, <1>8 DEF Ordered

LEMMA OrderedGrows ==
  ASSUME NEW h, NEW nx, HistTyped(h, nx), NEW ev \in Event, ev.past \subseteq DOMAIN h, NEW ms,
         NEW sn, NEW sn2, IdsTyped(ms), Follows(h, ms, sn, ev, sn2), Ordered(h, ms, sn),
         ev.heads \subseteq DOMAIN h \cup {Len(h) + 1},
         ev.w # 0 => \A n \in DOMAIN h : h[n].w # ev.w,
         ev.w # 0 => \A l \in Loc : \A q \in DOMAIN ms[l] : ms[l][q].id = ev.w => l = ev.loc
  PROVE  Ordered(Append(h, ev), ms, sn2)
<1>1. Adjacent(ms) /\ Coh(h, ms) /\ RelOrder(h, ms) /\ ViewOrder(h, ms, sn) /\ SeenFrom(h, sn)
  BY DEF Ordered
<1>2. Coh(Append(h, ev), ms)
  BY <1>1, CohGrows
<1>3. RelOrder(Append(h, ev), ms)
  BY <1>1, RelGrows
<1>4. ViewOrder(Append(h, ev), ms, sn2) /\ SeenFrom(Append(h, ev), sn2)
  BY <1>1, ViewGrows
<1>5. Sited(Append(h, ev))
  <2>1. Sited(h) /\ h \in Seq(Event)
    BY DEF Ordered, HistTyped
  <2>2. ev.loc \in Loc \/ (ev.r = 0 /\ ev.w = 0)
    BY DEF Follows
  <2>. QED BY <2>1, <2>2, AppendIs DEF Sited
<1>. QED BY <1>1, <1>2, <1>3, <1>4, <1>5 DEF Ordered

HO == Ordered(hist, msgs, seen)

LEMMA MsgsIdsTyped == ASSUME AInv PROVE IdsTyped(msgs)
<1>1. MsgsTyped(msgs) /\ IdsApart(msgs)
  BY DEF AInv, MsgsOK
<1>2. ASSUME NEW k \in Loc, NEW p \in DOMAIN msgs[k] PROVE p \in Nat /\ msgs[k][p].id # 0
  <2>1. p \in Nat /\ msgs[k][p] \in Message(k)
    BY <1>1, MsgOf
  <2>. QED BY <2>1 DEF Message
<1>. QED BY <1>1, <1>2 DEF IdsTyped

LEMMA OpOrder ==
  ASSUME AInv, HX, HO, NEW t \in Thread, NEW o \in program.ops[t], HStep(t, o)
  PROVE  HO'
<1>1. PICK cl, new, rel, r, w, acq, ms, nx : StepFits(t, o, cl, new, rel, r, w, acq, ms, nx)
  BY DEF HStep
<1> DEFINE ev == Ev(t, o, new, rel, r, w, acq)
<1> DEFINE l == o.loc
<1>2. /\ Touches(t, cl, new) /\ Grown(t, cl) /\ Fresh(t, o.loc, cl, new) /\ Shape(t, o.loc, cl, new, r, w)
      /\ rel \in BOOLEAN /\ r \in Nat /\ w \in Nat /\ acq \in BOOLEAN /\ (acq => r # 0)
      /\ hist' = Append(hist, ev)
  BY <1>1 DEF StepFits
<1>3. EvIs(ev, t, o, new, cl, rel, r, w, acq)
  <2>1. ev = Ev(t, o, new, rel, r, w, acq) /\ cl \in Clock
    BY <1>2 DEF Grown
  <2> HIDE DEF ev
  <2>. QED BY <1>2, <2>1, EvTyped
<1> HIDE DEF ev
<1>4. /\ ev \in Event /\ ev.tid = t /\ ev.loc = l /\ ev.r = r /\ ev.w = w
      /\ ev.past = Past(hist, t) \cup Closed(hist, IF acq THEN Freed(hist, l, r) ELSE {})
      /\ ev.heads = {Len(hist) + 1} \cup IF r = 0 THEN {} ELSE Chain(hist, l, r)
      /\ ev.past \subseteq DOMAIN hist
      /\ ev.heads \subseteq DOMAIN hist \cup {Len(hist) + 1}
  BY <1>3 DEF EvIs
<1>5. HistTyped(hist, nextMsg) /\ l \in Loc
  BY OpTyped DEF HX, XInv, AInv
<1> HIDE DEF l
<1>6. Ordered(hist, Located(l), SeenAfter(l))
  BY <1>5, LocatedOrdered DEF HO
<1>7. CASE r = 0 /\ w = 0 /\ UNCHANGED <<msgs, seen, nextMsg>>
  <2>1. Follows(hist, msgs, seen, ev, seen)
    BY <1>4, <1>7 DEF Follows
  <2>2. Ordered(Append(hist, ev), msgs, seen)
    BY <1>4, <1>5, <1>7, <2>1, MsgsIdsTyped, OrderedGrows DEF HO
  <2>. QED BY <1>2, <1>7, <2>2 DEF HO
<1>8. ASSUME w = 0, NEW p, Reads(t, l, p, cl, new), r = Located(l)[l][p].id
      PROVE  HO'
  <2>1. Follows(hist, Located(l), SeenAfter(l), ev, seen') /\ msgs' = Located(l)
    BY <1>2, <1>4, <1>5, <1>6, <1>8, ReadFollows
  <2>2. Ordered(Append(hist, ev), Located(l), seen')
    BY <1>4, <1>5, <1>6, <1>8, <2>1, LocatedIdsTyped, OrderedGrows
  <2>. QED BY <1>2, <2>1, <2>2 DEF HO
<1>9. ASSUME NEW p, NEW m,
             Writes(t, l, p, m, cl, new), Fits(t, l, p, m, cl), w = m.id, r = m.rmwOf,
             p = Len(Located(l)[l]) + 1 \/ ~RmwAfter(Located(l)[l], p - 1),
             r # 0 => p - 1 \in DOMAIN Located(l)[l] /\ r = Located(l)[l][p - 1].id
      PROVE  HO'
  <2>1. /\ Follows(hist, msgs', SeenAfter(l), ev, seen') /\ IdsTyped(msgs')
        /\ \A k \in Loc : \A q \in DOMAIN msgs'[k] : msgs'[k][q].id = ev.w => k = l
    BY <1>2, <1>4, <1>5, <1>6, <1>9, WriteFollows
  <2>2. Ordered(hist, msgs', SeenAfter(l))
    BY <1>5, <1>6, <1>9, WriteOrdered
  <2>3. \A n \in DOMAIN hist : hist[n].w # ev.w
    <3>1. HistTyped(hist, NextId(l)) /\ NextId(l) \in Nat /\ m.id = NextId(l)
      BY <1>5, <1>9, LocatedExact, LocatedBase DEF XInv, Base, Fits
    <3>2. \A n \in DOMAIN hist : hist[n].w \in Nat /\ hist[n].w < m.id
      BY <3>1, EventTyped DEF HistTyped
    <3>. QED BY <1>4, <1>9, <3>1, <3>2
  <2>4. Ordered(Append(hist, ev), msgs', seen')
    <3> DEFINE ms2 == msgs'
    <3> DEFINE sn2 == seen'
    <3>1. /\ Follows(hist, ms2, SeenAfter(l), ev, sn2) /\ IdsTyped(ms2) /\ Ordered(hist, ms2, SeenAfter(l))
          /\ \A k \in Loc : \A q \in DOMAIN ms2[k] : ms2[k][q].id = ev.w => k = ev.loc
      BY <1>4, <2>1, <2>2
    <3> HIDE DEF ms2, sn2
    <3>2. Ordered(Append(hist, ev), ms2, sn2)
      BY <1>4, <1>5, <2>3, <3>1, OrderedGrows
    <3>. QED BY <3>2 DEF ms2, sn2
  <2>. QED BY <1>2, <2>4 DEF HO
<1>10. Shape(t, l, cl, new, r, w)
  BY <1>2 DEF l
<1>. QED BY <1>7, <1>8, <1>9, <1>10 DEF Shape

LEMMA JoinOrder ==
  ASSUME AInv, HX, HO, NEW u \in Thread, Join(u), hist' = Append(hist, JoinEvent(u))
  PROVE  HO'
<1> DEFINE ev == JoinEvent(u)
<1>0. HistTyped(hist, nextMsg) /\ 0 \in Thread
  BY AtomicsAssumption DEF HX, XInv
<1>1. ev.past = Past(hist, 0) \cup Past(hist, u)
  BY PastFromIs DEF Past, Own, JoinEvent
<1>2. ev.past \subseteq DOMAIN hist /\ DOMAIN hist \subseteq Nat
  <2>1. Past(hist, 0) \subseteq DOMAIN hist /\ Past(hist, u) \subseteq DOMAIN hist
    BY <1>0, ClosedTyped
  <2>2. DOMAIN hist \subseteq Nat
    BY <1>0, EventTyped
  <2> HIDE DEF ev
  <2>. QED BY <1>1, <2>1, <2>2
<1>3. ev.r = 0 /\ ev.w = 0 /\ ev.heads = {} /\ ev \in Event
  <2>1. ev.past \in SUBSET Nat
    BY <1>2
  <2>. QED BY <2>1, <1>0 DEF JoinEvent, Event
<1> HIDE DEF ev
<1>4. Follows(hist, msgs, seen, ev, seen)
  BY <1>3 DEF Follows
<1>5. Ordered(Append(hist, ev), msgs, seen)
  BY <1>0, <1>2, <1>3, <1>4, MsgsIdsTyped, OrderedGrows DEF HO
<1>6. UNCHANGED <<msgs, seen>> /\ hist' = Append(hist, ev)
  BY DEF Join, ev
<1>. QED BY <1>5, <1>6 DEF HO

OInv == RInv /\ HO

LEMMA OInductive == OInv /\ [HNext]_hvars => OInv'
<1> SUFFICES ASSUME OInv, [HNext]_hvars PROVE OInv'
  OBVIOUS
<1>1. AInv /\ HX /\ HO /\ RInv'
  BY RInductive DEF OInv, RInv, HInv
<1>2. ASSUME UNCHANGED <<hist, msgs, seen>> PROVE HO'
  BY <1>1, <1>2 DEF HO
<1>3. ASSUME NEW t \in Thread, NEW o \in program.ops[t], HOperate(t, o) PROVE HO'
  <2>1. HStep(t, o) \/ UNCHANGED <<hist, msgs, seen>>
    BY <1>1, <1>3, OperateFits
  <2>. QED BY <1>1, <1>2, <2>1, OpOrder
<1>4. ASSUME NEW u \in Thread, HJoin(u) PROVE HO'
  <2>1. Join(u) /\ hist' = Append(hist, JoinEvent(u))
    BY <1>4 DEF HJoin
  <2>. QED BY <1>1, <2>1, JoinOrder
<1>5. HO'
  BY <1>2, <1>3, <1>4 DEF HNext, hvars, avars
<1>. QED BY <1>1, <1>5 DEF OInv

LEMMA OInvariant == HSpec => []OInv
<1>1. HInit => HO
  <2> SUFFICES ASSUME HInit PROVE HO
    OBVIOUS
  <2>1. DOMAIN hist = {} /\ \A l \in Loc : DOMAIN msgs[l] = {}
    BY DEF HInit, Init
  <2>2. \A t \in Thread, l \in Loc : seen[t][l] = 0
    BY DEF HInit, Init
  <2>. QED BY <2>1, <2>2 DEF HO, Ordered, Adjacent, Coh, RelOrder, ViewOrder, SeenFrom, Sited
<1>2. HInit /\ [][HNext]_hvars /\ []RInv => []OInv
  BY <1>1, OInductive, RInvariant, PTL DEF OInv
<1>. QED BY <1>2, RInvariant, PTL DEF HSpec

LEMMA PosIs ==
  ASSUME AInv, NEW l \in Loc, NEW id, Kept(l, id)
  PROVE  /\ Pos(l, id) \in DOMAIN msgs[l] /\ msgs[l][Pos(l, id)].id = id
         /\ Pos(l, id) \in Nat /\ Pos(l, id) > 0
         /\ \A p \in DOMAIN msgs[l] : msgs[l][p].id = id => p = Pos(l, id)
<1>1. Pos(l, id) \in DOMAIN msgs[l] /\ msgs[l][Pos(l, id)].id = id
  BY DEF Kept, Pos
<1>2. MsgsTyped(msgs) /\ IdsApart(msgs)
  BY DEF AInv, MsgsOK
<1>3. DOMAIN msgs[l] = 1 .. Len(msgs[l]) /\ Len(msgs[l]) \in Nat
  BY <1>2, MsgOf
<1>. QED BY <1>1, <1>2, <1>3 DEF IdsApart

(* Modification order obeys happens-before, however the messages of a      *)
(* location are placed and retired, and an RMW is for good right after the *)
(* message that it read (Mem/Thread.lean, "Atomics (RC11)").               *)
THEOREM OrderIsKept == HSpec => []OrderKept
<1>1. ASSUME OInv PROVE Coherent
  <2>0. AInv /\ HO
    BY <1>1 DEF OInv, RInv, HInv
  <2>00. \A n \in DOMAIN hist : hist[n].past \subseteq DOMAIN hist
    <3>1. HistTyped(hist, nextMsg)
      BY <1>1 DEF OInv, RInv, HInv, HX, XInv
    <3>. QED BY <3>1, EventTyped
  <2> SUFFICES ASSUME NEW n \in DOMAIN hist, NEW m \in hist[n].past, hist[m].loc = hist[n].loc
               PROVE  LET e == hist[m]
                          f == hist[n]
                          l == e.loc
                          Old(id) == IF Kept(l, id) THEN Pos(l, id) ELSE 0
                      IN  /\ e.w # 0 /\ f.w # 0 /\ Kept(l, f.w) => Old(e.w) < Pos(l, f.w)
                          /\ e.w # 0 /\ f.r # 0 /\ Kept(l, f.r) => Old(e.w) <= Pos(l, f.r)
                          /\ e.tid = f.tid =>
                               /\ e.r # 0 /\ f.w # 0 /\ Kept(l, f.w) => Old(e.r) < Pos(l, f.w)
                               /\ e.r # 0 /\ f.r # 0 /\ Kept(l, f.r) => Old(e.r) <= Pos(l, f.r)
    BY DEF Coherent, Events
  <2> DEFINE e == hist[m]
  <2> DEFINE f == hist[n]
  <2> DEFINE l == e.loc
  <2> DEFINE Old(id) == IF Kept(l, id) THEN Pos(l, id) ELSE 0
  <2>1. SUFFICES ASSUME l \in Loc
                 PROVE  \A i \in {e.w, e.r}, j \in {f.w, f.r} :
                          Saw(hist, m, f.tid, i) /\ Kept(l, j) =>
                            (j = f.w => Old(i) < Pos(l, j)) /\ (j = f.r => Old(i) <= Pos(l, j))
    <3>1. l \in Loc \/ (f.r = 0 /\ f.w = 0)
      BY <2>0 DEF HO, Ordered, Sited
    <3>2. Saw(hist, m, f.tid, e.w) /\ (e.tid = f.tid => Saw(hist, m, f.tid, e.r))
      BY DEF Saw
    <3>3. /\ e.w # 0 /\ f.w # 0 /\ Kept(l, f.w) => Old(e.w) < Pos(l, f.w)
          /\ e.w # 0 /\ f.r # 0 /\ Kept(l, f.r) => Old(e.w) <= Pos(l, f.r)
          /\ e.tid = f.tid =>
               /\ e.r # 0 /\ f.w # 0 /\ Kept(l, f.w) => Old(e.r) < Pos(l, f.w)
               /\ e.r # 0 /\ f.r # 0 /\ Kept(l, f.r) => Old(e.r) <= Pos(l, f.r)
      <4> HIDE DEF Old
      <4>. QED BY <2>1, <3>1, <3>2
    <3>. QED BY <3>3
  <2> SUFFICES ASSUME NEW i \in {e.w, e.r}, NEW j \in {f.w, f.r}, Saw(hist, m, f.tid, i), Kept(l, j)
               PROVE  (j = f.w => Old(i) < Pos(l, j)) /\ (j = f.r => Old(i) <= Pos(l, j))
    OBVIOUS
  <2>2. Pos(l, j) \in DOMAIN msgs[l] /\ msgs[l][Pos(l, j)].id = j /\ Pos(l, j) \in Nat /\ Pos(l, j) > 0
    BY <2>0, <2>1, PosIs
  <2>3. CASE ~Kept(l, i)
    BY <2>2, <2>3
  <2>4. CASE Kept(l, i)
    <3>1. Pos(l, i) \in DOMAIN msgs[l] /\ msgs[l][Pos(l, i)].id = i
      BY <2>0, <2>1, <2>4, PosIs
    <3>2. Coh(hist, msgs)
      BY <2>0 DEF HO, Ordered
    <3>3. (j = f.w => Pos(l, i) < Pos(l, j)) /\ (j = f.r => Pos(l, i) <= Pos(l, j))
      BY <2>1, <2>2, <3>1, <3>2 DEF Coh
    <3>. QED BY <2>4, <3>3
  <2>. QED BY <2>3, <2>4
<1>2. ASSUME OInv PROVE RmwAdjacent
  <2>0. AInv /\ HO /\ MsgEvents(hist, msgs)
    BY <1>2 DEF OInv, RInv, HInv, HX, XInv
  <2> SUFFICES ASSUME NEW n \in DOMAIN hist, hist[n].r # 0, hist[n].w # 0,
                      Kept(hist[n].loc, hist[n].w), Kept(hist[n].loc, hist[n].r)
               PROVE  Pos(hist[n].loc, hist[n].w) = Pos(hist[n].loc, hist[n].r) + 1
    BY DEF RmwAdjacent, Events
  <2> DEFINE l == hist[n].loc
  <2> DEFINE p == Pos(l, hist[n].w)
  <2>1. l \in Loc
    BY <2>0 DEF HO, Ordered, Sited
  <2>2. p \in DOMAIN msgs[l] /\ msgs[l][p].id = hist[n].w /\ p \in Nat
    BY <2>0, <2>1, PosIs
  <2>3. msgs[l][p].rmwOf = hist[n].r
    BY <2>0, <2>1, <2>2 DEF MsgEvents
  <2>4. p - 1 \in DOMAIN msgs[l] /\ msgs[l][p - 1].id = hist[n].r
    BY <2>0, <2>1, <2>2, <2>3 DEF HO, Ordered, Adjacent
  <2>5. p - 1 = Pos(l, hist[n].r)
    BY <2>0, <2>1, <2>4, PosIs
  <2> HIDE DEF p
  <2>6. p = Pos(l, hist[n].r) + 1
    BY <2>2, <2>5
  <2>. QED BY <2>6 DEF p
<1>. QED BY <1>1, <1>2, OInvariant, PTL DEF OrderKept

(* What keeps thread t from reading position p of l. *)
HiddenBy(t, l, p) ==
  \/ \E n \in PastOf(t) :
       LET f == hist[n]
       IN  /\ f.loc = l
           /\ \/ f.w # 0 /\ Kept(l, f.w) /\ p < Pos(l, f.w)
              \/ f.r # 0 /\ f.tid = t /\ Kept(l, f.r) /\ p < Pos(l, f.r)
  \/ \E q \in DOMAIN msgs[l] :
       /\ p < q
       /\ ~ \E n \in Events : hist[n].w = msgs[l][q].id
       /\ ClockLe(msgs[l][q].clock, clocks[t])

LEMMA HiddenIsOld ==
  ASSUME OInv, NEW t \in Thread, NEW l \in Loc, msgs[l] # <<>>, ~Stale(l),
         NEW p \in DOMAIN msgs[l], HiddenBy(t, l, p)
  PROVE  p < Floor(msgs[l], t, Bump(clocks[t], t), l)
<1> DEFINE ms == msgs[l]
<1> DEFINE c == Bump(clocks[t], t)
<1>0. AInv /\ HX /\ HO
  BY DEF OInv, RInv, HInv
<1>1. Located(l) = msgs /\ SeenAfter(l) = seen
  BY DEF Located, SeenAfter
<1>2. ms \in Seq(Message(l)) /\ DOMAIN ms = 1 .. Len(ms) /\ Len(ms) \in Nat
  BY <1>0, MsgOf DEF AInv, MsgsOK, MsgsTyped
<1> DEFINE F == Floor(ms, t, c, l)
<1>3. /\ F \in 1 .. Len(ms)
      /\ \A q \in 1 .. Len(ms) : ClockLe(ms[q].clock, c) \/ ms[q].id = seen[t][l] => q <= F
  <2> HIDE DEF ms, c
  <2>. QED BY <1>2, FloorIs DEF ms
<1>4. F = FloorOf(t, l)
  BY <1>1 DEF FloorOf
<1>5. PastOf(t) = Past(hist, t) /\ Past(hist, t) \subseteq DOMAIN hist
  <2>1. HistTyped(hist, nextMsg)
    BY <1>0 DEF HX, XInv
  <2>. QED BY <2>1, ClosedTyped, PastsAre DEF PastOfIs
<1> HIDE DEF F
<1>6. ASSUME NEW n \in Past(hist, t), hist[n].loc = l, hist[n].w # 0, Kept(l, hist[n].w), p < Pos(l, hist[n].w)
      PROVE  p < F
  <2>1. Pos(l, hist[n].w) \in DOMAIN ms /\ ms[Pos(l, hist[n].w)].id = hist[n].w /\ Pos(l, hist[n].w) \in Nat
    BY <1>0, <1>6, PosIs
  <2>2. Pos(l, hist[n].w) <= F
    BY <1>0, <1>1, <1>2, <1>3, <1>4, <1>5, <1>6, <2>1, FloorBehind DEF HO
  <2>. QED BY <1>2, <1>3, <1>6, <2>1, <2>2
<1>7. ASSUME NEW n \in Past(hist, t), hist[n].loc = l, hist[n].tid = t, Kept(l, hist[n].r), p < Pos(l, hist[n].r)
      PROVE  p < F
  <2>1. Pos(l, hist[n].r) \in DOMAIN ms /\ ms[Pos(l, hist[n].r)].id = hist[n].r /\ Pos(l, hist[n].r) \in Nat
    BY <1>0, <1>7, PosIs
  <2>2. n \in Own(hist, t) /\ n \in DOMAIN hist
    BY <1>5, <1>7 DEF Own
  <2>3. Pos(l, hist[n].r) <= F
    BY <1>0, <1>1, <1>2, <1>3, <1>4, <1>7, <2>1, <2>2, FloorBehind DEF HO
  <2>. QED BY <1>2, <1>3, <1>7, <2>1, <2>3
<1>8. ASSUME NEW q \in DOMAIN ms, p < q, ClockLe(ms[q].clock, clocks[t])
      PROVE  p < F
  <2>1. ms[q].clock \in Clock
    BY <1>0, BaseIs DEF Base, MsgTyped
  <2>2. ClockLe(clocks[t], c) /\ c \in Clock /\ clocks[t] \in Clock
    BY <1>0, BumpIs DEF AInv, TypeOK
  <2> HIDE DEF c
  <2>3. ClockLe(ms[q].clock, c)
    BY <1>8, <2>1, <2>2, LeTrans
  <2>4. q <= F
    BY <1>2, <1>3, <2>3
  <2>. QED BY <1>2, <1>3, <1>8, <2>4
<1>9. p < F
  BY <1>5, <1>6, <1>7, <1>8 DEF HiddenBy
<1>. QED BY <1>9 DEF F

LEMMA OldIsHidden ==
  ASSUME OInv, NEW t \in Thread, NEW l \in Loc, msgs[l] # <<>>, ~Stale(l),
         NEW p \in DOMAIN msgs[l], p < Floor(msgs[l], t, Bump(clocks[t], t), l)
  PROVE  HiddenBy(t, l, p)
<1> DEFINE ms == msgs[l]
<1> DEFINE c == Bump(clocks[t], t)
<1> DEFINE F == Floor(ms, t, c, l)
<1>0. AInv /\ HX /\ HO /\ Base(footprint, clocks, msgs, nextMsg) /\ HistTyped(hist, nextMsg)
  BY BaseIs DEF OInv, RInv, HInv, HX, XInv
<1>2. ms \in Seq(Message(l)) /\ DOMAIN ms = 1 .. Len(ms) /\ Len(ms) \in Nat
  BY <1>0, MsgOf DEF AInv, MsgsOK, MsgsTyped
<1>3. F \in 1 .. Len(ms) /\ (F = 1 \/ ClockLe(ms[F].clock, c) \/ ms[F].id = seen[t][l])
  <2> HIDE DEF ms, c
  <2>. QED BY <1>2, FloorIs DEF ms
<1>4. F # 1
  BY <1>2, <1>3
<1>5. PastOf(t) = Past(hist, t) /\ Past(hist, t) \subseteq DOMAIN hist
  BY <1>0, ClosedTyped, PastsAre DEF PastOfIs
<1>6. p < F /\ F \in DOMAIN ms
  BY <1>2, <1>3
<1> HIDE DEF F
<1>7. /\ ms[F].id # 0 /\ ms[F].clock \in Clock /\ \A u \in Thread : ms[F].clock[u] <= clocks[u][u]
      /\ ms[F].id \in Nat
  BY <1>0, <1>6 DEF Base, MsgTyped
<1>8. Kept(l, ms[F].id) /\ Pos(l, ms[F].id) = F
  <2>1. Kept(l, ms[F].id)
    BY <1>6 DEF Kept
  <2>. QED BY <1>0, <1>6, <2>1, PosIs
<1>9. CASE ms[F].id = seen[t][l]
  <2>1. PICK n \in Own(hist, t) : hist[n].loc = l /\ ms[F].id \in {hist[n].r, hist[n].w}
    BY <1>0, <1>7, <1>9 DEF HO, Ordered, SeenFrom
  <2>2. n \in Past(hist, t) /\ hist[n].tid = t
    BY <2>1 DEF Past, Closed, Own
  <2>. QED BY <1>5, <1>6, <1>7, <1>8, <2>1, <2>2 DEF HiddenBy
<1>10. CASE ClockLe(ms[F].clock, c)
  <2>0. /\ clocks[t] \in Clock /\ c[t] \in Nat
        /\ \A u \in Thread : u # t => c[u] = clocks[t][u]
    <3>1. clocks[t] \in Clock /\ c \in Clock
      BY <1>0, BumpIs DEF AInv, TypeOK
    <3>. QED BY <3>1 DEF Clock, Bump
  <2> HIDE DEF c
  <2>1. CASE \E n \in DOMAIN hist : hist[n].w = ms[F].id
    <3>1. PICK n \in DOMAIN hist : hist[n].w = ms[F].id
      BY <2>1
    <3>2. hist[n].loc = l /\ Reached(hist, n, ms[F].clock)
      BY <1>0, <1>6, <3>1 DEF HX, XInv, MsgEvents
    <3>3. n \in Past(hist, t)
      <4>1. CASE hist[n].tid = t
        BY <4>1 DEF Past, Closed, Own
      <4>2. CASE hist[n].tid # t
        <5>1. hist[n].tid \in Thread /\ hist[n].clk \subseteq Nat
          BY <1>0, EventTyped
        <5>2. PICK k \in hist[n].clk : k <= ms[F].clock[hist[n].tid]
          BY <3>2 DEF Reached
        <5>3. /\ ms[F].clock[hist[n].tid] <= clocks[t][hist[n].tid]
              /\ ms[F].clock[hist[n].tid] \in Nat /\ clocks[t][hist[n].tid] \in Nat
          BY <1>7, <1>10, <2>0, <4>2, <5>1 DEF ClockLe, Clock
        <5>4. Reached(hist, n, clocks[t])
          BY <5>1, <5>2, <5>3 DEF Reached
        <5>. QED BY <1>0, <5>4 DEF HX, XInv, ClocksExact, Exact
      <4>. QED BY <4>1, <4>2
    <3>. QED BY <1>5, <1>6, <1>7, <1>8, <3>1, <3>2, <3>3 DEF HiddenBy
  <2>2. CASE ~ \E n \in DOMAIN hist : hist[n].w = ms[F].id
    <3>1. ClockLe(ms[F].clock, clocks[t])
      <4> SUFFICES ASSUME NEW u \in Thread PROVE ms[F].clock[u] <= clocks[t][u]
        BY DEF ClockLe
      <4>1. CASE u = t
        BY <4>1, <1>7
      <4>2. CASE u # t
        BY <4>2, <1>10, <2>0 DEF ClockLe
      <4>. QED BY <4>1, <4>2
    <3>. QED BY <1>6, <2>2, <3>1 DEF HiddenBy, Events
  <2>. QED BY <2>1, <2>2
<1>. QED BY <1>3, <1>4, <1>9, <1>10

(* A read may pick exactly the messages that coherence leaves: the newest  *)
(* one that it knows of, by happens-before or by its own reads and writes, *)
(* and those after it (atomicLoadAt, Mem/Thread.lean).                     *)
THEOREM ReadChoicesExact == HSpec => []ReadsExact
<1>1. ASSUME OInv PROVE ReadsExact
  <2> SUFFICES ASSUME NEW t \in Thread, NEW l \in Loc, msgs[l] # <<>>, ~Stale(l), NEW p \in DOMAIN msgs[l]
               PROVE  p \in ReadOpts(msgs[l], t, Bump(clocks[t], t), l) <=> ~HiddenBy(t, l, p)
    BY DEF ReadsExact, HiddenBy
  <2> DEFINE F == Floor(msgs[l], t, Bump(clocks[t], t), l)
  <2>1. msgs[l] \in Seq(Message(l)) /\ DOMAIN msgs[l] = 1 .. Len(msgs[l]) /\ Len(msgs[l]) \in Nat
    BY <1>1, MsgOf DEF OInv, RInv, HInv, AInv, MsgsOK, MsgsTyped
  <2>2. F \in 1 .. Len(msgs[l])
    BY <2>1, FloorIs
  <2>3. HiddenBy(t, l, p) <=> p < F
    BY <1>1, HiddenIsOld, OldIsHidden
  <2>4. ReadOpts(msgs[l], t, Bump(clocks[t], t), l) = F .. Len(msgs[l])
    BY DEF ReadOpts
  <2> HIDE DEF F
  <2>. QED BY <2>1, <2>2, <2>3, <2>4
<1>. QED BY <1>1, OInvariant, PTL

(***************************************************************************)
(* Plain and atomic accesses see one memory.                               *)
(***************************************************************************)

PWr(fp, l) == {e \in fp : e.kind = "write" /\ e.loc \cap l # {}}

(* C is above the plain writes to l. *)
Bounds(fp, l, C) == \A e \in PWr(fp, l) : ClockLe(e.clock, C)

(* The messages of l that have plain write e are those from some q on that *)
(* nobody who knows of the plain writes to l can go behind.                *)
HasFrom(fp, ms, l, e, q) ==
  /\ q \in DOMAIN ms[l]
  /\ \A C \in Clock : Bounds(fp, l, C) => ClockLe(ms[l][q].clock, C)
  /\ \A p \in DOMAIN ms[l] : q <= p => ClockLe(e.clock, ms[l][p].clock)

Cap(fp, ms) ==
  \A l \in Loc : \A e \in PWr(fp, l) :
    (\E p \in DOMAIN ms[l] : ClockLe(e.clock, ms[l][p].clock)) => \E q : HasFrom(fp, ms, l, e, q)

(* A message that was read after a plain write has that write. *)
Held(h, fp, ms) ==
  \A m, n \in DOMAIN h : \A l \in Loc : \A p \in DOMAIN ms[l] :
    m < n /\ h[m].op = "write" /\ h[m].loc = l /\ h[n].loc = l /\ ms[l][p].id = h[n].r =>
      \E e \in fp : Of(h, e, m) /\ ClockLe(e.clock, ms[l][p].clock)

LEMMA PlainClockLeast ==
  ASSUME AInv, NEW l \in Loc, NEW C \in Clock, Bounds(footprint, l, C)
  PROVE  ClockLe(PlainClock(l), C)
<1>1. TypeOK /\ IsFiniteSet(footprint) /\ PlainWrites(l) = PWr(footprint, l)
  BY DEF AInv, PlainWrites, PWr
<1> SUFFICES ASSUME NEW t \in Thread PROVE PlainClock(l)[t] <= C[t]
  BY DEF ClockLe
<1>2. CASE PlainClock(l)[t] = 0
  BY <1>2 DEF Clock
<1>3. CASE PlainClock(l)[t] # 0
  <2>1. PICK e \in PlainWrites(l) : PlainClock(l)[t] = e.clock[t]
    BY <1>1, <1>3, PlainClockIs
  <2>. QED BY <1>1, <2>1 DEF Bounds, ClockLe
<1>. QED BY <1>2, <1>3

LEMMA LocatedCap ==
  ASSUME AInv, NEW l \in Loc, Cap(footprint, msgs)
  PROVE  Cap(footprint, Located(l))
<1> DEFINE ls == Located(l)
<1>0. LocatedAt(l) /\ TypeOK /\ IsFiniteSet(footprint) /\ MsgsTyped(msgs)
  BY LocatedPlaces DEF AInv, MsgsOK
<1>1. /\ PlainMsg(l).clock = PlainClock(l) /\ PlainWrites(l) = PWr(footprint, l)
      /\ \A e \in PWr(footprint, l) : ClockLe(e.clock, PlainClock(l))
  BY <1>0, PlainMsgIs, PlainClockIs DEF PlainWrites, PWr
<1> SUFFICES ASSUME NEW k \in Loc, NEW e \in PWr(footprint, k), NEW p \in DOMAIN ls[k],
                    ClockLe(e.clock, ls[k][p].clock)
             PROVE  \E q : HasFrom(footprint, ls, k, e, q)
  BY DEF Cap
<1>2. CASE k # l
  <2>1. ls[k] = msgs[k]
    BY <1>0, <1>2 DEF LocatedAt
  <2>2. PICK q : HasFrom(footprint, msgs, k, e, q)
    BY <2>1 DEF Cap
  <2>. QED BY <2>1, <2>2 DEF HasFrom
<1>3. CASE k = l /\ p \in DOMAIN msgs[l]
  <2>1. PICK q : HasFrom(footprint, msgs, l, e, q)
    BY <1>0, <1>3 DEF LocatedAt, Cap
  <2>2. q \in DOMAIN ls[l] /\ ls[l][q] = msgs[l][q]
    BY <1>0, <2>1 DEF LocatedAt, HasFrom
  <2>3. ASSUME NEW i \in DOMAIN ls[l], q <= i PROVE ClockLe(e.clock, ls[l][i].clock)
    <3>1. CASE i \in DOMAIN msgs[l]
      BY <1>0, <2>1, <2>3, <3>1 DEF LocatedAt, HasFrom
    <3>2. CASE i \notin DOMAIN msgs[l]
      <4>1. ls[l][i] = PlainMsg(l)
        BY <1>0, <3>2 DEF LocatedAt
      <4>. QED BY <4>1, <1>1, <1>3
    <3>. QED BY <3>1, <3>2
  <2> HIDE DEF ls
  <2>4. HasFrom(footprint, ls, l, e, q)
    BY <2>1, <2>2, <2>3 DEF HasFrom
  <2>. QED BY <1>3, <2>4
<1>4. CASE k = l /\ p \notin DOMAIN msgs[l]
  <2>1. ls[l][p] = PlainMsg(l) /\ p = Len(ls[l]) /\ DOMAIN ls[l] = 1 .. p /\ p \in Nat
    BY <1>0, <1>4 DEF LocatedAt
  <2>2. \A C \in Clock : Bounds(footprint, l, C) => ClockLe(ls[l][p].clock, C)
    BY <1>1, <2>1, PlainClockLeast
  <2>3. \A i \in DOMAIN ls[l] : p <= i => i = p
    BY <2>1
  <2> HIDE DEF ls
  <2>4. HasFrom(footprint, ls, l, e, p)
    BY <1>4, <2>2, <2>3 DEF HasFrom
  <2>. QED BY <1>4, <2>4
<1>. QED BY <1>2, <1>3, <1>4

(* An atomic access that is accepted knows of the plain writes. *)
LEMMA AcceptBounds ==
  ASSUME AInv, NEW t \in Thread, NEW l, NEW k \in {"atomicRead", "atomicWrite"}, Accept(t, l, k)
  PROVE  Bounds(footprint, l, Bump(clocks[t], t))
<1> DEFINE c == Bump(clocks[t], t)
<1>0. /\ \A u, v \in Thread : clocks[u] \in Clock /\ clocks[u][v] \in Nat
      /\ c \in Clock /\ c[t] = clocks[t][t] + 1 /\ ClockLe(clocks[t], c)
  BY ClocksTyped, BumpIs DEF AInv
<1>1. ~Races(t, c, l, k)
  BY DEF Accept
<1> HIDE DEF c
<1> SUFFICES ASSUME NEW e \in PWr(footprint, l) PROVE ClockLe(e.clock, c)
  BY DEF Bounds, c
<1>2. /\ e \in footprint /\ e.kind = "write" /\ e.loc \cap l # {}
      /\ e.clock \in Clock /\ e.tid \in Thread /\ ClockLe(e.clock, clocks[e.tid])
  BY EntryTyped DEF PWr, AInv, AccessBelow
<1>3. CASE Solo(t)
  <2>1. t = 0 /\ (e.tid = 0 \/ e.tid \in joined)
    BY <1>2, <1>3 DEF Solo
  <2>2. e.tid = 0 \/ ClockLe(clocks[e.tid], clocks[0])
    BY <2>1 DEF AInv, JoinedBelow
  <2>3. ClockLe(e.clock, clocks[t])
    BY <1>0, <1>2, <2>1, <2>2, LeTrans
  <2>. QED BY <1>0, <1>2, <2>3, LeTrans
<1>4. CASE ~Solo(t)
  <2>1. RacePair(e.kind, k)
    BY <1>2 DEF RacePair, IsWrite, IsAtomic
  <2>2. ClockLe(e.clock, c) \/ ClockLe(c, e.clock)
    BY <1>1, <1>2, <1>4, <2>1 DEF Races, Concurrent
  <2>3. ~ClockLe(c, e.clock)
    <3> SUFFICES ASSUME ClockLe(c, e.clock) PROVE FALSE
      OBVIOUS
    <3>1. c[t] <= e.clock[t] /\ c[t] \in Nat /\ e.clock[t] \in Nat
      BY <1>0, <1>2 DEF ClockLe, Clock
    <3>2. e.clock[t] <= clocks[e.tid][t] /\ clocks[e.tid][t] <= clocks[t][t]
      BY <1>2 DEF AInv, OwnAhead, ClockLe
    <3>. QED BY <1>0, <1>2, <3>1, <3>2
  <2>. QED BY <2>2, <2>3
<1>. QED BY <1>3, <1>4

(* Then every message that it may read has them. *)
LEMMA FloorHas ==
  ASSUME AInv, NEW l \in Loc, NEW t \in Thread, Cap(footprint, Located(l)),
         Bounds(footprint, l, Bump(clocks[t], t)), NEW e \in PWr(footprint, l)
  PROVE  \E q : HasFrom(footprint, Located(l), l, e, q) /\ q <= FloorOf(t, l)
<1> DEFINE ls == Located(l)
<1> DEFINE n == Len(ls[l])
<1> DEFINE c == Bump(clocks[t], t)
<1>1. LocatedAt(l) /\ MsgsOK(ls, SeenAfter(l), NextId(l)) /\ ls[l] # <<>> /\ c \in Clock
  BY LocatedKeeps, LocatedPlaces, ClocksTyped, BumpIs DEF AInv
<1>2. ls[l] \in Seq(Message(l)) /\ DOMAIN ls[l] = 1 .. Len(ls[l])
  BY <1>1, MsgOf DEF MsgsOK, MsgsTyped
<1>3. n \in DOMAIN ls[l] /\ ClockLe(e.clock, ls[l][n].clock)
  <2>1. e \in PlainWrites(l)
    BY DEF PWr, PlainWrites
  <2>. QED BY <1>1, <2>1 DEF LocatedAt
<1>4. PICK q : HasFrom(footprint, ls, l, e, q)
  BY <1>3 DEF Cap
<1>5. q \in 1 .. Len(ls[l]) /\ ClockLe(ls[l][q].clock, c)
  BY <1>1, <1>2, <1>4 DEF HasFrom
<1>6. q <= FloorOf(t, l)
  <2> DEFINE ms == ls[l]
  <2>1. ms \in Seq(Message(l)) /\ ms # <<>> /\ q \in 1 .. Len(ms) /\ ClockLe(ms[q].clock, c)
    BY <1>1, <1>2, <1>5
  <2> HIDE DEF ms, c
  <2>2. q <= Floor(ms, t, c, l)
    BY <2>1, FloorIs
  <2>. QED BY <2>2 DEF ms, c, FloorOf
<1>. QED BY <1>4, <1>6

LEMMA ReadCovers ==
  ASSUME AInv, NEW l \in Loc, NEW t \in Thread, Cap(footprint, Located(l)),
         Bounds(footprint, l, Bump(clocks[t], t)), NEW e \in PWr(footprint, l),
         NEW x \in DOMAIN Located(l)[l], FloorOf(t, l) <= x
  PROVE  ClockLe(e.clock, Located(l)[l][x].clock)
<1>1. PICK q : HasFrom(footprint, Located(l), l, e, q) /\ q <= FloorOf(t, l)
  BY FloorHas
<1>2. q \in Nat /\ FloorOf(t, l) \in Nat /\ x \in Nat
  <2> DEFINE ms == Located(l)[l]
  <2>1. ms \in Seq(Message(l)) /\ DOMAIN ms = 1 .. Len(ms) /\ ms # <<>>
    BY LocatedKeeps, MsgOf DEF AInv, MsgsOK, MsgsTyped
  <2>2. q \in DOMAIN ms
    BY <1>1 DEF HasFrom
  <2>3. Floor(ms, t, Bump(clocks[t], t), l) \in 1 .. Len(ms)
    <3> HIDE DEF ms
    <3>. QED BY <2>1, FloorIs
  <2>. QED BY <2>1, <2>2, <2>3 DEF FloorOf
<1>3. q <= x
  BY <1>1, <1>2
<1>. QED BY <1>1, <1>3 DEF HasFrom

(* A write of such an access keeps the order of the plain writes. *)
LEMMA InsertCap ==
  ASSUME AInv, NEW t \in Thread, NEW l \in Loc, Cap(footprint, Located(l)),
         Bounds(footprint, l, Bump(clocks[t], t)), NEW s, NEW m, NEW cl, NEW new,
         Writes(t, l, s, m, cl, new), Fits(t, l, s, m, cl), Grown(t, cl)
  PROVE  Cap(footprint, msgs')
<1> DEFINE ls == Located(l)
<1> DEFINE is == msgs'
<1> DEFINE c == Bump(clocks[t], t)
<1>1. /\ Inserted(ls, is, l, m, s) /\ s \in Nat /\ FloorOf(t, l) \in Nat /\ FloorOf(t, l) < s
      /\ MsgsTyped(ls) /\ c \in Clock
  BY WritePlaces, ClocksTyped, BumpIs DEF FloorOf, AInv
<1>2. m.clock = cl /\ cl \in Clock /\ ClockLe(c, cl)
  BY DEF Fits, Grown
<1>3. /\ DOMAIN ls[l] = 1 .. Len(ls[l]) /\ Len(ls[l]) \in Nat
      /\ DOMAIN is[l] = 1 .. Len(ls[l]) + 1 /\ is[l][s] = m
      /\ \A q \in DOMAIN ls[l] : q < s => q \in DOMAIN is[l] /\ is[l][q] = ls[l][q]
      /\ \A q \in DOMAIN is[l] :
           \/ q < s /\ q \in DOMAIN ls[l] /\ is[l][q] = ls[l][q]
           \/ q = s
           \/ q > s /\ q - 1 \in DOMAIN ls[l] /\ is[l][q] = ls[l][q - 1]
      /\ \A k \in Loc : k # l => is[k] = ls[k]
  BY <1>1, MsgOf DEF Inserted
<1>4. \A e \in PWr(footprint, l) : ClockLe(e.clock, c) /\ e.clock \in Clock
  BY EntryTyped DEF PWr, Bounds, AInv
<1> HIDE DEF c
<1> SUFFICES ASSUME NEW k \in Loc, NEW e \in PWr(footprint, k), NEW p \in DOMAIN is[k],
                    ClockLe(e.clock, is[k][p].clock)
             PROVE  \E q : HasFrom(footprint, is, k, e, q)
  BY DEF Cap
<1>5. CASE k # l
  <2>1. is[k] = ls[k]
    BY <1>3, <1>5
  <2> HIDE DEF is, ls
  <2>2. PICK q : HasFrom(footprint, ls, k, e, q)
    BY <2>1 DEF Cap, ls
  <2>. QED BY <2>1, <2>2 DEF HasFrom
<1>6. CASE k = l
  <2>1. PICK q : HasFrom(footprint, ls, l, e, q) /\ q <= FloorOf(t, l)
    BY <1>6, FloorHas
  <2>2. q \in DOMAIN ls[l] /\ q \in Nat /\ q < s
    BY <1>1, <1>3, <2>1 DEF HasFrom
  <2>3. q \in DOMAIN is[l] /\ is[l][q] = ls[l][q]
    BY <1>3, <2>2
  <2>4. ASSUME NEW i \in DOMAIN is[l], q <= i PROVE ClockLe(e.clock, is[l][i].clock)
    <3>0. i \in Nat
      BY <1>3
    <3>1. CASE i < s
      <4>1. i \in DOMAIN ls[l] /\ is[l][i] = ls[l][i]
        BY <1>1, <1>3, <3>0, <3>1
      <4>. QED BY <4>1, <2>1, <2>4 DEF HasFrom
    <3>2. CASE i = s
      <4>1. is[l][i].clock = cl
        BY <1>2, <1>3, <3>2
      <4>. QED BY <4>1, <1>1, <1>2, <1>4, <1>6, LeTrans
    <3>3. CASE i > s
      <4>1. i - 1 \in DOMAIN ls[l] /\ is[l][i] = ls[l][i - 1]
        BY SMTT(40), <1>1, <1>3, <3>0, <3>3
      <4>2. q <= i - 1
        BY <1>1, <2>2, <3>0, <3>3
      <4>. QED BY <4>1, <4>2, <2>1 DEF HasFrom
    <3>. QED BY <1>1, <3>0, <3>1, <3>2, <3>3
  <2> HIDE DEF is, ls
  <2>5. HasFrom(footprint, is, l, e, q)
    BY <2>1, <2>3, <2>4 DEF HasFrom
  <2>. QED BY <1>6, <2>5
<1>. QED BY <1>5, <1>6

(* No message has the new plain writes yet. *)
LEMMA CapGrows ==
  ASSUME NEW fp, NEW ms, Cap(fp, ms), NEW new,
         \A e \in new : e.kind = "write" =>
           \A l \in Loc : \A p \in DOMAIN ms[l] : ~ClockLe(e.clock, ms[l][p].clock)
  PROVE  Cap(fp \cup new, ms)
<1> SUFFICES ASSUME NEW l \in Loc, NEW e \in PWr(fp \cup new, l), NEW p \in DOMAIN ms[l],
                    ClockLe(e.clock, ms[l][p].clock)
             PROVE  \E q : HasFrom(fp \cup new, ms, l, e, q)
  BY DEF Cap
<1>1. e \in PWr(fp, l)
  BY DEF PWr
<1>2. PICK q : HasFrom(fp, ms, l, e, q)
  BY <1>1 DEF Cap
<1>3. \A C : Bounds(fp \cup new, l, C) => Bounds(fp, l, C)
  BY DEF Bounds, PWr
<1>. QED BY <1>2, <1>3 DEF HasFrom

LEMMA HeldEmbeds ==
  ASSUME NEW h, NEW nx, HistTyped(h, nx), NEW ms, NEW ms2, Embeds(ms, ms2, nx), NEW fp, Held(h, fp, ms)
  PROVE  Held(h, fp, ms2)
<1> SUFFICES ASSUME NEW m \in DOMAIN h, NEW n \in DOMAIN h, NEW l \in Loc, NEW p \in DOMAIN ms2[l],
                    m < n, h[m].op = "write", h[m].loc = l, h[n].loc = l, ms2[l][p].id = h[n].r
             PROVE  \E e \in fp : Of(h, e, m) /\ ClockLe(e.clock, ms2[l][p].clock)
  BY DEF Held
<1>1. ms2[l][p].id < nx
  BY DEF HistTyped
<1>2. PICK i \in DOMAIN ms[l] : ms[l][i] = ms2[l][p]
  BY <1>1 DEF Embeds
<1>. QED BY <1>2 DEF Held

(* The new event ev reads a message that has the plain writes before it. *)
ReadsHeld(h, fp, ms, ev) ==
  ev.loc \in Loc =>
    \A m \in DOMAIN h : \A p \in DOMAIN ms[ev.loc] :
      h[m].op = "write" /\ h[m].loc = ev.loc /\ ms[ev.loc][p].id = ev.r =>
        \E e \in fp : Of(h, e, m) /\ ClockLe(e.clock, ms[ev.loc][p].clock)

LEMMA HeldGrows ==
  ASSUME NEW h \in Seq(Event), NEW ev \in Event, NEW ms, NEW fp, NEW new,
         Held(h, fp, ms), ReadsHeld(h, fp, ms, ev)
  PROVE  Held(Append(h, ev), fp \cup new, ms)
<1> DEFINE g == Append(h, ev)
<1> DEFINE N == Len(h) + 1
<1>1. /\ DOMAIN g = DOMAIN h \cup {N} /\ g[N] = ev /\ N \in Nat
      /\ \A n \in DOMAIN h : g[n] = h[n] /\ n < N /\ n \in Nat
  BY AppendIs, LenProperties
<1> HIDE DEF g, N
<1> SUFFICES ASSUME NEW m \in DOMAIN g, NEW n \in DOMAIN g, NEW l \in Loc, NEW p \in DOMAIN ms[l],
                    m < n, g[m].op = "write", g[m].loc = l, g[n].loc = l, ms[l][p].id = g[n].r
             PROVE  \E e \in fp : Of(g, e, m) /\ ClockLe(e.clock, ms[l][p].clock)
  BY DEF Held, g
<1>2. m \in DOMAIN h
  <2>1. n \in Nat /\ n <= N
    BY <1>1
  <2>. QED BY <1>1, <2>1
<1>3. g[m] = h[m]
  BY <1>1, <1>2
<1>4. CASE n \in DOMAIN h
  <2>1. PICK e \in fp : Of(h, e, m) /\ ClockLe(e.clock, ms[l][p].clock)
    BY <1>1, <1>2, <1>3, <1>4 DEF Held
  <2>. QED BY <2>1, <1>3 DEF Of
<1>5. CASE n = N
  <2>1. PICK e \in fp : Of(h, e, m) /\ ClockLe(e.clock, ms[l][p].clock)
    BY <1>1, <1>2, <1>3, <1>5 DEF ReadsHeld
  <2>. QED BY <2>1, <1>3 DEF Of
<1>. QED BY <1>1, <1>4, <1>5

(* A plain write event has its access in the footprint. *)
LEMMA PlainWriteOf ==
  ASSUME HX, HR, NEW l \in Loc, NEW m \in DOMAIN hist, hist[m].op = "write", hist[m].loc = l
  PROVE  \E e \in PWr(footprint, l) : Of(hist, e, m)
<1>1. EventKind(hist, footprint, m) /\ l # {}
  BY AtomicsAssumption DEF HR, EventKinds
<1>2. PICK e \in footprint : Of(hist, e, m) /\ e.loc = l /\ e.kind = "write"
  BY <1>1 DEF EventKind
<1>3. e.loc \cap l # {}
  BY <1>1, <1>2
<1>. QED BY <1>2, <1>3 DEF PWr

HM == Cap(footprint, msgs) /\ Held(hist, footprint, msgs)

(* A read of position x from the floor on, and what comes after it. *)
LEMMA ReadIsHeld ==
  ASSUME AInv, HX, HR, NEW l \in Loc, NEW t \in Thread, Cap(footprint, Located(l)),
         Bounds(footprint, l, Bump(clocks[t], t)),
         NEW x \in DOMAIN Located(l)[l], FloorOf(t, l) <= x, NEW ms, IdsTyped(ms),
         NEW ev, ev.loc = l, ev.r # 0 => x \in DOMAIN ms[l] /\ ms[l][x] = Located(l)[l][x]
                                         /\ ev.r = ms[l][x].id
  PROVE  ReadsHeld(hist, footprint, ms, ev)
<1> SUFFICES ASSUME NEW m \in DOMAIN hist, NEW p \in DOMAIN ms[l],
                    hist[m].op = "write", hist[m].loc = l, ms[l][p].id = ev.r
             PROVE  \E e \in footprint : Of(hist, e, m) /\ ClockLe(e.clock, ms[l][p].clock)
  BY DEF ReadsHeld
<1>1. ev.r # 0
  BY DEF IdsTyped
<1>2. p = x
  BY <1>1 DEF IdsTyped, IdsApart
<1>3. PICK e \in PWr(footprint, l) : Of(hist, e, m)
  BY PlainWriteOf
<1>4. ClockLe(e.clock, Located(l)[l][x].clock)
  BY ReadCovers
<1>. QED BY <1>1, <1>2, <1>3, <1>4 DEF PWr

LEMMA OpMemory ==
  ASSUME AInv, HX, HR, HM, NEW t \in Thread, NEW o \in program.ops[t], HStep(t, o)
  PROVE  HM'
<1>1. PICK cl, new, rel, r, w, acq, ms, nx : StepFits(t, o, cl, new, rel, r, w, acq, ms, nx)
  BY DEF HStep
<1> DEFINE ev == Ev(t, o, new, rel, r, w, acq)
<1> DEFINE l == o.loc
<1>2. /\ Touches(t, cl, new) /\ Grown(t, cl) /\ Fresh(t, o.loc, cl, new) /\ Shape(t, o.loc, cl, new, r, w)
      /\ Tests(t, o, new, w)
      /\ rel \in BOOLEAN /\ r \in Nat /\ w \in Nat /\ acq \in BOOLEAN
      /\ hist' = Append(hist, ev)
  BY <1>1 DEF StepFits
<1>3. EvIs(ev, t, o, new, cl, rel, r, w, acq)
  <2>1. ev = Ev(t, o, new, rel, r, w, acq) /\ cl \in Clock
    BY <1>2 DEF Grown
  <2> HIDE DEF ev
  <2>. QED BY <1>2, <2>1, EvTyped
<1> HIDE DEF ev
<1>4. ev \in Event /\ ev.loc = l /\ ev.r = r /\ ev.w = w
  BY <1>3 DEF EvIs
<1>5. HistTyped(hist, nextMsg) /\ l \in Loc /\ hist \in Seq(Event) /\ footprint' = footprint \cup new
  BY <1>2, OpTyped DEF HX, XInv, HistTyped, Touches, AInv
<1>6. Shape(t, l, cl, new, r, w) /\ \A e \in new : e.tid = t /\ clocks[t][t] < e.clock[t] /\ e.clock \in Clock
  BY <1>2 DEF Fresh
<1> HIDE DEF l
<1>7. ASSUME NEW is, \A k \in Loc : \A p \in DOMAIN is[k] : is[k][p].clock \in Clock, MsgsBelow(is)
      PROVE  \A e \in new : \A k \in Loc : \A p \in DOMAIN is[k] : ~ClockLe(e.clock, is[k][p].clock)
  <2> SUFFICES ASSUME NEW e \in new, NEW k \in Loc, NEW p \in DOMAIN is[k], ClockLe(e.clock, is[k][p].clock)
               PROVE  FALSE
    OBVIOUS
  <2>1. e.clock[t] <= is[k][p].clock[t] /\ is[k][p].clock[t] <= clocks[t][t]
    BY <1>7 DEF ClockLe, MsgsBelow
  <2>2. e.clock[t] \in Nat /\ is[k][p].clock[t] \in Nat /\ clocks[t][t] \in Nat
    BY <1>6, <1>7, ClocksTyped DEF AInv, Clock
  <2>. QED BY <1>6, <2>1, <2>2
<1>8. Cap(footprint, Located(l)) /\ Held(hist, footprint, Located(l)) /\ IdsTyped(Located(l))
  <2>1. Embeds(msgs, Located(l), nextMsg)
    BY <1>5, LocatedEmbeds
  <2>. QED BY <1>5, <2>1, LocatedCap, HeldEmbeds, LocatedIdsTyped DEF HM
<1>9. CASE r = 0 /\ w = 0 /\ UNCHANGED <<msgs, seen, nextMsg>>
  <2>1. \A k \in Loc : \A p \in DOMAIN msgs[k] : msgs[k][p].clock \in Clock
    BY BaseIs DEF Base, MsgTyped
  <2>2. Cap(footprint \cup new, msgs)
    BY <2>1, <1>7, CapGrows DEF HM, AInv
  <2>3. ReadsHeld(hist, footprint, msgs, ev)
    BY <1>4, <1>9, MsgsIdsTyped DEF ReadsHeld, IdsTyped
  <2>4. Held(Append(hist, ev), footprint \cup new, msgs)
    BY <1>4, <1>5, <2>3, HeldGrows DEF HM
  <2>. QED BY <1>2, <1>5, <1>9, <2>2, <2>4 DEF HM
<1>10. ASSUME w = 0, Accept(t, l, "atomicRead"), NEW p, Reads(t, l, p, cl, new), r = Located(l)[l][p].id
       PROVE  HM'
  <2>1. Bounds(footprint, l, Bump(clocks[t], t))
    BY <1>10, AcceptBounds
  <2>2. p \in DOMAIN Located(l)[l] /\ FloorOf(t, l) <= p /\ msgs' = Located(l)
    BY <1>5, <1>10, ReadIs DEF Reads, FloorOf
  <2>3. ReadsHeld(hist, footprint, Located(l), ev)
    BY <1>4, <1>5, <1>8, <1>10, <2>1, <2>2, ReadIsHeld
  <2>4. Held(Append(hist, ev), footprint \cup new, Located(l))
    BY <1>4, <1>5, <1>8, <2>3, HeldGrows
  <2>5. Cap(footprint \cup new, Located(l))
    <3>1. \A k \in Loc : \A q \in DOMAIN Located(l)[k] : Located(l)[k][q].clock \in Clock
      BY <1>5, LocatedBase DEF Base, MsgTyped
    <3>2. MsgsBelow(Located(l))
      BY <1>5, LocatedBelow
    <3>. QED BY <1>7, <1>8, <3>1, <3>2, CapGrows
  <2>. QED BY <1>2, <1>5, <2>2, <2>4, <2>5 DEF HM
<1>11. ASSUME NEW k \in {"atomicRead", "atomicWrite"}, Accept(t, l, k), NEW p, NEW m,
              Writes(t, l, p, m, cl, new), Fits(t, l, p, m, cl), w = m.id,
              r # 0 => /\ p - 1 \in DOMAIN Located(l)[l] /\ r = Located(l)[l][p - 1].id
                       /\ Floor(Located(l)[l], t, Bump(clocks[t], t), l) <= p - 1
       PROVE  HM'
  <2> DEFINE is == msgs'
  <2>1. Bounds(footprint, l, Bump(clocks[t], t))
    BY <1>11, AcceptBounds
  <2>2. Cap(footprint, is)
    BY <1>2, <1>5, <1>8, <1>11, <2>1, InsertCap
  <2>3. /\ Inserted(Located(l), is, l, m, p) /\ IdsApart(is) /\ MsgsTyped(is) /\ MsgsTyped(Located(l))
        /\ p \in Nat /\ FloorOf(t, l) \in DOMAIN Located(l)[l] /\ FloorOf(t, l) < p /\ FloorOf(t, l) \in Nat
    BY <1>5, <1>11, WritePlaces DEF MsgsOK, FloorOf
  <2>4. w # 0
    BY <1>11 DEF Fits, Message
  <2>5. \A e \in new : e.kind # "write"
    BY <1>2, <2>4 DEF Tests
  <2>6. m.id = NextId(l) /\ NextId(l) \in Nat /\ HistTyped(hist, NextId(l))
    BY <1>5, <1>11, LocatedExact, LocatedBase DEF XInv, Base, Fits
  <2> HIDE DEF is
  <2>7. Cap(footprint \cup new, is)
    BY <2>2, <2>5, CapGrows
  <2>8. Embeds(Located(l), is, NextId(l))
    BY <1>5, <2>3, <2>6, InsertEmbeds
  <2>9. Held(hist, footprint, is)
    BY <1>8, <2>6, <2>8, HeldEmbeds
  <2>10. IdsTyped(is)
    <3> SUFFICES ASSUME NEW k2 \in Loc, NEW q \in DOMAIN is[k2] PROVE q \in Nat /\ is[k2][q].id # 0
      BY <2>3 DEF IdsTyped
    <3>1. q \in Nat /\ is[k2][q] \in Message(k2)
      BY <2>3, MsgOf
    <3>. QED BY <3>1 DEF Message
  <2>11. ReadsHeld(hist, footprint, is, ev)
    <3>1. CASE r = 0
      BY <1>4, <2>10, <3>1 DEF ReadsHeld, IdsTyped
    <3>2. CASE r # 0
      <4> DEFINE x == p - 1
      <4>1. x \in DOMAIN Located(l)[l] /\ r = Located(l)[l][x].id /\ FloorOf(t, l) <= x /\ x < p
        BY <1>11, <2>3, <3>2 DEF FloorOf
      <4>2. x \in DOMAIN is[l] /\ is[l][x] = Located(l)[l][x]
        BY <2>3, <4>1 DEF Inserted
      <4> HIDE DEF x
      <4>. QED BY <1>4, <1>5, <1>8, <2>1, <2>10, <4>1, <4>2, ReadIsHeld
    <3>. QED BY <3>1, <3>2
  <2>12. Held(Append(hist, ev), footprint \cup new, is)
    BY <1>4, <1>5, <2>9, <2>11, HeldGrows
  <2>. QED BY <1>2, <1>5, <2>7, <2>12 DEF HM, is
<1>. QED BY <1>6, <1>9, <1>10, <1>11 DEF Shape

LEMMA JoinMemory ==
  ASSUME AInv, HX, HM, NEW u \in Thread, Join(u), hist' = Append(hist, JoinEvent(u))
  PROVE  HM'
<1> DEFINE ev == JoinEvent(u)
<1>0. HistTyped(hist, nextMsg) /\ 0 \in Thread /\ hist \in Seq(Event)
  BY AtomicsAssumption DEF HX, XInv, HistTyped
<1>1. ev.past = Past(hist, 0) \cup Past(hist, u)
  BY PastFromIs DEF Past, Own, JoinEvent
<1>2. ev.past \in SUBSET Nat
  <2>1. Past(hist, 0) \subseteq DOMAIN hist /\ Past(hist, u) \subseteq DOMAIN hist
    BY <1>0, ClosedTyped
  <2>2. DOMAIN hist \subseteq Nat
    BY <1>0, EventTyped
  <2> HIDE DEF ev
  <2>. QED BY <1>1, <2>1, <2>2
<1>3. ev.r = 0 /\ ev \in Event
  BY <1>0, <1>2 DEF JoinEvent, Event
<1> HIDE DEF ev
<1>4. ReadsHeld(hist, footprint, msgs, ev)
  BY <1>3, MsgsIdsTyped DEF ReadsHeld, IdsTyped
<1>5. Held(Append(hist, ev), footprint \cup {}, msgs)
  BY <1>0, <1>3, <1>4, HeldGrows DEF HM
<1>6. UNCHANGED <<msgs, footprint>> /\ hist' = Append(hist, ev) /\ footprint \cup {} = footprint
  BY DEF Join, ev
<1>. QED BY <1>5, <1>6 DEF HM

MInv == OInv /\ HM

LEMMA MInductive == MInv /\ [HNext]_hvars => MInv'
<1> SUFFICES ASSUME MInv, [HNext]_hvars PROVE MInv'
  OBVIOUS
<1>1. AInv /\ HX /\ HR /\ HM /\ OInv'
  BY OInductive DEF MInv, OInv, RInv, HInv
<1>2. ASSUME UNCHANGED <<hist, msgs, footprint>> PROVE HM'
  BY <1>1, <1>2 DEF HM
<1>3. ASSUME NEW t \in Thread, NEW o \in program.ops[t], HOperate(t, o) PROVE HM'
  <2>1. HStep(t, o) \/ UNCHANGED <<hist, msgs, footprint>>
    BY <1>1, <1>3, OperateFits
  <2>. QED BY <1>1, <1>2, <2>1, OpMemory
<1>4. ASSUME NEW u \in Thread, HJoin(u) PROVE HM'
  <2>1. Join(u) /\ hist' = Append(hist, JoinEvent(u))
    BY <1>4 DEF HJoin
  <2>. QED BY <1>1, <2>1, JoinMemory
<1>5. HM'
  BY <1>2, <1>3, <1>4 DEF HNext, hvars, avars
<1>. QED BY <1>1, <1>5 DEF MInv

LEMMA MInvariant == HSpec => []MInv
<1>1. HInit => HM
  <2> SUFFICES ASSUME HInit PROVE HM
    OBVIOUS
  <2>1. DOMAIN hist = {} /\ \A l \in Loc : DOMAIN msgs[l] = {}
    BY DEF HInit, Init
  <2>. QED BY <2>1 DEF HM, Cap, Held
<1>2. HInit /\ [][HNext]_hvars /\ []OInv => []MInv
  BY <1>1, MInductive, OInvariant, PTL DEF MInv
<1>. QED BY <1>2, OInvariant, PTL DEF HSpec

(* Plain and atomic accesses see one memory: a read never misses a plain   *)
(* write that came before it, the newest message is what memory holds, and *)
(* the live locations share no byte (locateAtomic, Mem/Thread.lean).       *)
THEOREM MemoryIsOne == HSpec => []OneMemory
<1>1. ASSUME MInv PROVE PlainWritesKept
  <2>0. AInv /\ Sited(hist) /\ Held(hist, footprint, msgs)
    BY <1>1 DEF MInv, HM, OInv, RInv, HInv, HO, Ordered
  <2> SUFFICES ASSUME NEW m \in DOMAIN hist, NEW n \in DOMAIN hist, m < n, hist[m].op = "write",
                      hist[m].loc = hist[n].loc, hist[n].r # 0, Kept(hist[n].loc, hist[n].r)
               PROVE  \E e \in footprint :
                        /\ e.tid = hist[m].tid /\ e.clock[e.tid] \in hist[m].clk
                        /\ ClockLe(e.clock, msgs[hist[n].loc][Pos(hist[n].loc, hist[n].r)].clock)
    BY DEF PlainWritesKept, Events
  <2> DEFINE l == hist[n].loc
  <2>1. l \in Loc
    BY <2>0 DEF Sited
  <2>2. Pos(l, hist[n].r) \in DOMAIN msgs[l] /\ msgs[l][Pos(l, hist[n].r)].id = hist[n].r
    BY <2>0, <2>1, PosIs
  <2>. QED BY <2>0, <2>1, <2>2 DEF Held, Of
<1>2. ASSUME MInv PROVE NewestIsMemory /\ LocationsDisjoint
  <2>1. AInv
    BY <1>2 DEF MInv, OInv, RInv, HInv
  <2>. QED BY <2>1 DEF AInv, MsgsOK, LiveApart, ViewsLive, LocationsDisjoint
<1>. QED BY <1>1, <1>2, MInvariant, PTL DEF OneMemory

(* The history only watches: a run with it is a run of the atomics of      *)
(* Mem/Thread.lean, so what is proved of Spec holds here too.              *)
THEOREM HistoryOnlyWatches == HSpec => Spec
<1>1. HInit => Init
  BY DEF HInit
<1>2. ASSUME [HNext]_hvars PROVE [Next]_avars
  <2>1. CASE UNCHANGED hvars
    BY <2>1 DEF hvars
  <2>2. CASE HNext
    <3>1. ASSUME NEW t \in Thread, NEW o \in program.ops[t], HOperate(t, o) PROVE Next
      <4>1. Operate(t, o)
        BY <3>1 DEF HOperate
      <4>. QED BY <4>1 DEF Next
    <3>2. ASSUME NEW t \in Thread, HJoin(t) PROVE Next
      <4>1. Join(t)
        BY <3>2 DEF HJoin
      <4>. QED BY <4>1 DEF Next
    <3>. QED BY <2>2, <3>1, <3>2 DEF HNext
  <2>. QED BY <1>2, <2>1, <2>2
<1>. QED BY <1>1, <1>2, PTL DEF HSpec, Spec

=============================================================================
