--------------------------- MODULE AdmissionProofs ---------------------------
(***************************************************************************)
(* The admission of guards, for any number of them and any budget: its     *)
(* four bounds, the workloads that are kept apart, the drain tickets and   *)
(* the head's reservation.                                                 *)
(***************************************************************************)
EXTENDS Admission, TLAPS, FiniteSetTheorems, NaturalsInduction, SequenceTheorems

-----------------------------------------------------------------------------
(* Registries.  A guard has at most one entry in each.                     *)

Ordered(s) == s \in Seq(Guard) /\ \A i, j \in 1..Len(s) : s[i] = s[j] => i = j

LEMMA MinOf == \A i \in Int : Min({i}) = i
<1>. SUFFICES ASSUME NEW i \in Int PROVE Min({i}) = i
  OBVIOUS
<1>1. \A x \in {i} : (\A y \in {i} : x <= y) => x = i
  OBVIOUS
<1>2. i \in {i} /\ \A y \in {i} : i <= y
  OBVIOUS
<1>. QED
  BY <1>1, <1>2 DEF Min

LEMMA MinOfTwo ==
  ASSUME NEW a \in Int, NEW b \in Int
  PROVE  Min({a, b}) = IF a <= b THEN a ELSE b
<1>. DEFINE m == IF a <= b THEN a ELSE b
<1>1. m \in {a, b} /\ \A y \in {a, b} : m <= y
  OBVIOUS
<1>2. \A x \in {a, b} : (\A y \in {a, b} : x <= y) => x = m
  OBVIOUS
<1>. HIDE DEF m
<1>3. Min({a, b}) = m
  BY <1>1, <1>2 DEF Min
<1>. QED
  BY <1>3 DEF m

LEMMA Cut ==
  ASSUME NEW s, Ordered(s), NEW i \in 1..Len(s)
  PROVE  /\ Ordered(RemoveAt(s, i)) /\ ToSet(RemoveAt(s, i)) = ToSet(s) \ {s[i]}
         /\ i # 1 => RemoveAt(s, i) # <<>> /\ Head(RemoveAt(s, i)) = Head(s)
<1>. DEFINE t == RemoveAt(s, i)
<1>1. s \in Seq(Guard) /\ Len(s) \in Nat /\ i \in Nat
  BY DEF Ordered
<1>2. /\ SubSeq(s, 1, i - 1) \in Seq(Guard) /\ Len(SubSeq(s, 1, i - 1)) = i - 1
      /\ \A j \in 1..(i - 1) : SubSeq(s, 1, i - 1)[j] = s[j]
  BY <1>1
<1>3. /\ SubSeq(s, i + 1, Len(s)) \in Seq(Guard) /\ Len(SubSeq(s, i + 1, Len(s))) = Len(s) - i
      /\ \A j \in 1..(Len(s) - i) : SubSeq(s, i + 1, Len(s))[j] = s[j + i]
  BY <1>1
<1>4. /\ t \in Seq(Guard) /\ Len(t) = Len(s) - 1
      /\ \A j \in 1..(Len(s) - 1) : t[j] = IF j < i THEN s[j] ELSE s[j + 1]
  <2>. DEFINE u == SubSeq(s, 1, i - 1)
              v == SubSeq(s, i + 1, Len(s))
  <2>1. t = u \o v
    BY DEF RemoveAt
  <2>2. /\ u \in Seq(Guard) /\ Len(u) = i - 1 /\ v \in Seq(Guard) /\ Len(v) = Len(s) - i
        /\ \A j \in 1..(i - 1) : u[j] = s[j]
        /\ \A j \in 1..(Len(s) - i) : v[j] = s[j + i]
    BY <1>2, <1>3
  <2>. HIDE DEF u, v, t
  <2>3. t \in Seq(Guard) /\ Len(t) = Len(s) - 1
    BY <1>1, <2>1, <2>2
  <2>4. ASSUME NEW j \in 1..(Len(s) - 1) PROVE t[j] = IF j < i THEN s[j] ELSE s[j + 1]
    <3>1. t[j] = IF j <= Len(u) THEN u[j] ELSE v[j - Len(u)]
      BY <1>1, <2>1, <2>2
    <3>2. CASE j < i
      BY <1>1, <2>2, <3>1, <3>2
    <3>3. CASE j >= i
      <4>1. j - (i - 1) \in 1..(Len(s) - i) /\ (j - (i - 1)) + i = j + 1
        BY <1>1, <3>3
      <4>. QED
        BY <1>1, <2>2, <3>1, <3>3, <4>1
    <3>. QED
      BY <1>1, <3>2, <3>3
  <2>. QED
    BY <2>3, <2>4
<1>. HIDE DEF t
<1>5. Ordered(t)
  BY <1>1, <1>4 DEF Ordered
<1>6. ToSet(t) = ToSet(s) \ {s[i]}
  <2>1. ASSUME NEW x \in ToSet(t) PROVE x \in ToSet(s) \ {s[i]}
    BY <1>1, <1>4, <2>1 DEF ToSet, Ordered
  <2>2. ASSUME NEW x \in ToSet(s) \ {s[i]} PROVE x \in ToSet(t)
    <3>1. PICK k \in 1..Len(s) : x = s[k] /\ k # i
      BY <1>1 DEF ToSet
    <3>2. CASE k < i
      BY <1>1, <1>4, <3>1, <3>2 DEF ToSet
    <3>3. CASE k > i
      <4>1. k - 1 \in 1..(Len(s) - 1) /\ t[k - 1] = s[k]
        BY <1>1, <1>4, <3>1, <3>3
      <4>. QED
        BY <1>1, <1>4, <3>1, <4>1 DEF ToSet
    <3>. QED
      BY <1>1, <3>1, <3>2, <3>3
  <2>. QED
    BY <2>1, <2>2
<1>7. i # 1 => t # <<>> /\ Head(t) = Head(s)
  <2>. SUFFICES ASSUME i # 1 PROVE t # <<>> /\ Head(t) = Head(s)
    OBVIOUS
  <2>1. Len(t) > 0 /\ t[1] = s[1]
    BY <1>1, <1>4
  <2>. QED
    BY <1>1, <1>4, <2>1
<1>. QED
  BY <1>5, <1>6, <1>7 DEF t

LEMMA WithoutOne ==
  ASSUME NEW s, Ordered(s), NEW g \in Guard
  PROVE  /\ Ordered(Without(s, g)) /\ ToSet(Without(s, g)) = ToSet(s) \ {g}
         /\ s # <<>> /\ Head(s) # g => Without(s, g) # <<>> /\ Head(Without(s, g)) = Head(s)
<1>1. s \in Seq(Guard) /\ Len(s) \in Nat
  BY DEF Ordered
<1>2. CASE \A i \in 1..Len(s) : s[i] # g
  <2>1. Without(s, g) = s
    BY <1>2, Zenon DEF Without, RemoveFirst
  <2>2. g \notin ToSet(s)
    BY <1>1, <1>2 DEF ToSet
  <2>. QED
    BY <2>1, <2>2
<1>3. CASE \E i \in 1..Len(s) : s[i] = g
  <2>1. PICK i \in 1..Len(s) : s[i] = g
    BY <1>3
  <2>2. {j \in 1..Len(s) : s[j] = g} = {i}
    BY <1>1, <2>1 DEF Ordered
  <2>3. SelectInSeq(s, LAMBDA v : v = g) = Min({i})
    <3>1. SelectInSeq(s, LAMBDA v : v = g)
            = IF {j \in 1..Len(s) : s[j] = g} # {} THEN Min({j \in 1..Len(s) : s[j] = g}) ELSE 0
      BY Zenon DEF SelectInSeq
    <3>2. {i} # {}
      OBVIOUS
    <3>. QED
      BY <2>2, <3>1, <3>2, Zenon
  <2>4. Without(s, g) = RemoveAt(s, Min({i}))
    BY <1>3, <2>3, Zenon DEF Without, RemoveFirst
  <2>5. Without(s, g) = RemoveAt(s, i)
    BY <2>4, MinOf
  <2>6. s # <<>> /\ Head(s) # g => i # 1
    BY <1>1, <2>1
  <2>. QED
    BY <2>1, <2>5, <2>6, Cut
<1>. QED
  BY <1>2, <1>3

LEMMA WithOne ==
  ASSUME NEW s, Ordered(s), NEW g \in Guard, g \notin ToSet(s)
  PROVE  /\ Ordered(Append(s, g)) /\ ToSet(Append(s, g)) = ToSet(s) \cup {g}
         /\ s # <<>> => Head(Append(s, g)) = Head(s)
<1>1. /\ s \in Seq(Guard) /\ Len(s) \in Nat
      /\ Append(s, g) \in Seq(Guard) /\ Len(Append(s, g)) = Len(s) + 1
      /\ \A i \in 1..(Len(s) + 1) : Append(s, g)[i] = IF i = Len(s) + 1 THEN g ELSE s[i]
  BY DEF Ordered
<1>2. \A i \in 1..Len(s) : s[i] # g
  BY <1>1 DEF ToSet
<1>3. Ordered(Append(s, g))
  BY <1>1, <1>2 DEF Ordered
<1>4. ToSet(Append(s, g)) = ToSet(s) \cup {g}
  <2>1. ASSUME NEW x \in ToSet(s) \cup {g} PROVE x \in ToSet(Append(s, g))
    BY <1>1 DEF ToSet
  <2>. QED
    BY <1>1, <2>1 DEF ToSet
<1>5. s # <<>> => Head(Append(s, g)) = Head(s)
  <2>. SUFFICES ASSUME s # <<>> PROVE Head(Append(s, g)) = Head(s)
    OBVIOUS
  <2>1. Len(s) > 0
    BY <1>1
  <2>2. Head(Append(s, g)) = Append(s, g)[1] /\ Append(s, g)[1] = s[1] /\ Head(s) = s[1]
    BY <1>1, <2>1
  <2>. QED
    BY <2>2
<1>. QED
  BY <1>3, <1>4, <1>5

-----------------------------------------------------------------------------
(* Sums of slots.                                                          *)

InSlots(f, S) == S \subseteq Guard /\ \A g \in S : f[g] \in 0..Capacity

LEMMA SlotsHave ==
  ASSUME NEW f, NEW S, NEW p
  PROVE  p \in Slots(f, S) <=> \E g \in S : \E i \in 1..f[g] : p = <<g, i>>
BY DEF Slots

LEMMA SumIsNat ==
  ASSUME NEW f, NEW S, InSlots(f, S)
  PROVE  IsFiniteSet(Slots(f, S)) /\ Sum(f, S) \in Nat
<1>1. IsFiniteSet(S) /\ IsFiniteSet(1..Capacity) /\ Capacity \in Nat
  BY GuardAssumption, FS_Subset, FS_Interval DEF InSlots
<1>2. IsFiniteSet(S \X (1..Capacity))
  BY <1>1, FS_Product
<1>3. Slots(f, S) \subseteq S \X (1..Capacity)
  <2>. SUFFICES ASSUME NEW p \in Slots(f, S) PROVE p \in S \X (1..Capacity)
    OBVIOUS
  <2>1. PICK g \in S : \E i \in 1..f[g] : p = <<g, i>>
    BY SlotsHave
  <2>2. PICK i \in 1..f[g] : p = <<g, i>>
    BY <2>1
  <2>3. i \in 1..Capacity
    BY <1>1 DEF InSlots
  <2>. QED
    BY <2>2, <2>3
<1>. QED
  BY <1>2, <1>3, FS_Subset, FS_CardinalityType DEF Sum

LEMMA SumWithin ==
  ASSUME NEW f, NEW e, NEW S, NEW T, InSlots(e, T), InSlots(f, S),
         \A g \in S : f[g] = 0 \/ (g \in T /\ f[g] <= e[g])
  PROVE  Sum(f, S) <= Sum(e, T)
<1>1. Slots(f, S) \subseteq Slots(e, T)
  <2>. SUFFICES ASSUME NEW p \in Slots(f, S) PROVE p \in Slots(e, T)
    OBVIOUS
  <2>1. PICK g \in S : \E i \in 1..f[g] : p = <<g, i>>
    BY SlotsHave
  <2>2. PICK i \in 1..f[g] : p = <<g, i>>
    BY <2>1
  <2>3. i \in 1..e[g] /\ g \in T
    BY DEF InSlots
  <2>. QED
    BY <2>2, <2>3, SlotsHave
<1>. QED
  BY <1>1, SumIsNat, FS_Subset DEF Sum

LEMMA SumGrows ==
  ASSUME NEW f, NEW e, NEW S, NEW T, InSlots(e, T), S \subseteq T, InSlots(f, S), \A g \in S : f[g] <= e[g]
  PROVE  Sum(f, S) <= Sum(e, T)
BY SumWithin

LEMMA SumSame ==
  ASSUME NEW f, NEW e, NEW S, \A g \in S : f[g] = e[g]
  PROVE  Sum(f, S) = Sum(e, S)
<1>1. \A p : p \in Slots(f, S) <=> p \in Slots(e, S)
  BY SlotsHave
<1>2. Slots(f, S) = Slots(e, S)
  BY <1>1
<1>. QED
  BY <1>2 DEF Sum

(* One guard's share of a sum.                                             *)
LEMMA SumOut ==
  ASSUME NEW f, NEW S, InSlots(f, S), NEW g \in S
  PROVE  Sum(f, S) = Sum(f, S \ {g}) + f[g]
<1>. DEFINE Rest == Slots(f, S \ {g})
            Own == {g} \X (1..f[g])
<1>1. f[g] \in Nat /\ f[g] \in Int /\ InSlots(f, S \ {g}) /\ 0 \in Int /\ 1 \in Int
  BY GuardAssumption DEF InSlots
<1>2. IsFiniteSet(Own) /\ Cardinality(Own) = f[g]
  <2>1. IsFiniteSet({g}) /\ Cardinality({g}) = 1
    BY FS_Singleton
  <2>2. IsFiniteSet(1..f[g]) /\ Cardinality(1..f[g]) = f[g]
    BY <1>1, FS_Interval
  <2>3. IsFiniteSet(Own) /\ Cardinality(Own) = 1 * f[g]
    BY <2>1, <2>2, FS_Product
  <2>. QED
    BY <1>1, <2>3
<1>3. IsFiniteSet(Rest) /\ Cardinality(Rest) \in Nat
  BY <1>1, SumIsNat DEF Sum
<1>4. Slots(f, S) = Rest \cup Own
  <2>1. ASSUME NEW p \in Slots(f, S) PROVE p \in Rest \cup Own
    BY <2>1, SlotsHave
  <2>2. ASSUME NEW p \in Rest \cup Own PROVE p \in Slots(f, S)
    BY <2>2, SlotsHave
  <2>. QED
    BY <2>1, <2>2
<1>5. Rest \cap Own = {}
  <2>. SUFFICES ASSUME NEW p \in Rest, p \in Own PROVE FALSE
    OBVIOUS
  <2>1. PICK h \in S \ {g} : \E i \in 1..f[h] : p = <<h, i>>
    BY SlotsHave
  <2>. QED
    BY <2>1
<1>. HIDE DEF Rest, Own
<1>6. Cardinality(Rest \cup Own) = Cardinality(Rest) + Cardinality(Own) - 0
  BY <1>2, <1>3, <1>5, FS_Union, FS_EmptySet
<1>7. Sum(f, S) = Cardinality(Rest \cup Own) /\ Sum(f, S \ {g}) = Cardinality(Rest)
  BY <1>4 DEF Sum, Rest
<1>. QED
  BY <1>1, <1>2, <1>3, <1>6, <1>7

LEMMA SumChanges ==
  ASSUME NEW f, NEW e, NEW S, InSlots(f, S), InSlots(e, S), NEW g \in S, \A h \in S \ {g} : e[h] = f[h]
  PROVE  Sum(e, S) = Sum(f, S) - f[g] + e[g]
<1>1. Sum(e, S \ {g}) = Sum(f, S \ {g})
  BY SumSame
<1>2. Sum(f, S) = Sum(f, S \ {g}) + f[g] /\ Sum(e, S) = Sum(e, S \ {g}) + e[g]
  BY SumOut
<1>3. Sum(f, S \ {g}) \in Nat /\ f[g] \in Int /\ e[g] \in Int
  BY GuardAssumption, SumIsNat DEF InSlots
<1>. QED
  BY <1>1, <1>2, <1>3

(* The sum of two maps is at most the sum of their sums.                   *)
LEMMA SumSplits ==
  ASSUME NEW d, NEW f, NEW e, NEW S, InSlots(d, S), InSlots(f, S), InSlots(e, S),
         \A g \in S : d[g] <= f[g] + e[g]
  PROVE  Sum(d, S) <= Sum(f, S) + Sum(e, S)
<1>. DEFINE Up == {<<p[1], f[p[1]] + p[2]>> : p \in Slots(e, S)}
            lift == [p \in Slots(e, S) |-> <<p[1], f[p[1]] + p[2]>>]
<1>1. IsFiniteSet(Slots(e, S)) /\ IsFiniteSet(Slots(f, S)) /\ Sum(e, S) \in Nat /\ Sum(f, S) \in Nat
  BY SumIsNat
<1>2. lift \in Surjection(Slots(e, S), Up)
  BY DEF Surjection
<1>3. IsFiniteSet(Up) /\ Cardinality(Up) <= Cardinality(Slots(e, S))
  <2>. HIDE DEF Up, lift
  <2>. QED
    BY <1>1, <1>2, FS_Surjection
<1>4. Slots(d, S) \subseteq Slots(f, S) \cup Up
  <2>. SUFFICES ASSUME NEW p \in Slots(d, S), p \notin Slots(f, S) PROVE p \in Up
    OBVIOUS
  <2>1. PICK g \in S : \E i \in 1..d[g] : p = <<g, i>>
    BY SlotsHave
  <2>2. PICK i \in 1..d[g] : p = <<g, i>>
    BY <2>1
  <2>3. f[g] \in Nat /\ e[g] \in Nat /\ d[g] \in Nat /\ d[g] <= f[g] + e[g]
    BY GuardAssumption DEF InSlots
  <2>4. i \notin 1..f[g]
    BY <2>2, SlotsHave
  <2>5. i - f[g] \in 1..e[g] /\ f[g] + (i - f[g]) = i
    BY <2>3, <2>4
  <2>6. <<g, i - f[g]>> \in Slots(e, S)
    BY <2>5, SlotsHave
  <2>7. p = <<g, f[g] + (i - f[g])>>
    BY <2>2, <2>5
  <2>. QED
    BY <2>6, <2>7
<1>. HIDE DEF Up, lift
<1>5. Cardinality(Slots(f, S) \cup Up) <= Cardinality(Slots(f, S)) + Cardinality(Up)
  <2>1. IsFiniteSet(Slots(f, S) \cap Up)
    BY <1>1, FS_Intersection
  <2>2. Cardinality(Slots(f, S) \cap Up) \in Nat /\ Cardinality(Slots(f, S)) \in Nat /\ Cardinality(Up) \in Nat
    BY <1>1, <1>3, <2>1, FS_CardinalityType
  <2>3. Cardinality(Slots(f, S) \cup Up)
          = Cardinality(Slots(f, S)) + Cardinality(Up) - Cardinality(Slots(f, S) \cap Up)
    BY <1>1, <1>3, FS_Union
  <2>. QED
    BY <2>2, <2>3
<1>6. IsFiniteSet(Slots(f, S) \cup Up)
  BY <1>1, <1>3, FS_Union
<1>7. /\ Cardinality(Slots(d, S)) <= Cardinality(Slots(f, S) \cup Up)
      /\ Cardinality(Slots(d, S)) \in Nat /\ Cardinality(Up) \in Nat /\ Cardinality(Slots(f, S) \cup Up) \in Nat
  BY <1>3, <1>4, <1>6, FS_Subset, FS_CardinalityType
<1>. QED
  BY <1>1, <1>3, <1>5, <1>7 DEF Sum

-----------------------------------------------------------------------------
(* The invariant: what is typed, what the place of a guard says of what it *)
(* has, and four facts about all of them.                                  *)

Entry == {e \in [unmet : 0..Capacity, need : 0..Capacity] : e.unmet <= e.need}

PlaceTypes ==
  /\ cast \in Scenario
  /\ pc \in [Guard -> Places]
  /\ lane \in [Guard -> Lanes \cup {"leaf"}] /\ \A g \in Guard : lane[g] \in {Lane(g), "leaf"}

SlotTypes ==
  /\ weight \in [Guard -> 1..Capacity] /\ \A g \in Guard : weight[g] \in {Charge(g), Declared(g)}
  /\ held \in [Guard -> 0..Capacity]
  /\ ramp \in [Guard -> 0..Capacity] /\ \A g \in Guard : ramp[g] <= weight[g]

HeadTypes == heads \in [Guard -> Entry \cup {NoEntry}] /\ view \in [Guard -> Entry \cup {NoEntry}]

LockTypes ==
  /\ queue \in Guard \cup {NoGuard} /\ register \in Guard \cup {NoGuard}
  /\ fits \in [Guard -> BOOLEAN] /\ holdoff \in BOOLEAN
  /\ ws \subseteq Guard /\ main \subseteq Guard

ListTypes == Ordered(tickets) /\ Ordered(lifelines) /\ Ordered(line) /\ Ordered(running)

SetTypes ==
  /\ waiting \subseteq Guard /\ fresh \subseteq Guard
  /\ elastic \subseteq Guard /\ leaves \subseteq Guard /\ lifeline \subseteq Guard
  /\ ahead \in [Guard -> SUBSET Guard] /\ past \in [Guard -> SUBSET Guard]

Types == PlaceTypes /\ SlotTypes /\ HeadTypes /\ LockTypes /\ ListTypes /\ SetTypes

(* Where a guard has not changed its lane, collects slots, leads the queue, *)
(* and has all the slots it asks for.                                      *)
Early == {"out", "done", "start", "ws", "bg", "bgTake", "bgTaken", "backfill", "scanned"}
Collects == {"turn", "scan", "register", "giveback"}
Leads == Collects \cup {"main"}
Taken(g) == pc[g] = "bgTaken" /\ fits[g]
Full(g) == pc[g] \in {"register"} \cup Admitted \/ Taken(g)

PlaceOK(g) ==
  /\ pc[g] \in Early => lane[g] = Lane(g)
  /\ pc[g] \in {"bg", "bgTake", "bgTaken"} => Lane(g) = "background"
  /\ pc[g] \in {"backfill", "scanned"} => Lane(g) = "normal" /\ view[g] \in Entry
  /\ pc[g] \in {"main", "register"} => Lane(g) # "exclusive"
  /\ pc[g] \in {"out", "done"} => ramp[g] = 0

LocksOK(g) ==
  /\ pc[g] \in Leads => queue = g
  /\ heads[g] # NoEntry => pc[g] \in Collects /\ Lane(g) # "exclusive"
  /\ pc[g] \notin Collects \cup {"scanned", "bgTaken"} \cup Admitted => held[g] = 0
  /\ pc[g] = "scanned" => register = g
  /\ fits[g] => register = g /\ pc[g] \in {"register", "scanned", "bgTaken"}
  /\ Full(g) /\ Lane(g) # "exclusive" => held[g] = weight[g]

ApartOK(g) ==
  /\ Full(g) \/ pc[g] = "scanned" \/ (pc[g] \in Collects /\ Lane(g) # "exclusive") => g \in main
  /\ Full(g) \/ pc[g] \in {"room", "queue", "backfill", "scanned"} \cup Leads => g \in ws \cup Parts

PartOK(g) == g \in Parts /\ pc[g] \notin {"out", "done"} => pc[PartOf(g)] = "run"

RegisteredOK(g) ==
  /\ g \in elastic <=> g \in Elastic /\ pc[g] \in Admitted
  /\ g \in ToSet(running) <=> Overcommits(g) /\ pc[g] \in {"granted", "run"}
  /\ g \in Elastic => pc[g] # "stopping"

TicketsOK(g) ==
  /\ g \in ToSet(tickets) => lane[g] \in {"merge", "exclusive"} /\ pc[g] \in {"room", "queue"} \cup Leads
  /\ g \in ToSet(lifelines) => lane[g] = "leaf"

MyOK(g) == PlaceOK(g) /\ LocksOK(g) /\ ApartOK(g) /\ PartOK(g) /\ RegisteredOK(g) /\ TicketsOK(g)

Apart ==
  /\ \A g \in main : Lane(g) = "exclusive" => main = {g}
  /\ \A g, h \in ws : g # h /\ SameWs(g, h) => ShareWs(g, h)

Bounds ==
  /\ Sum(held, Guard) <= Capacity
  /\ Bases <= Capacity - Process
  /\ 2 * Excess <= Capacity
  /\ \A g \in Guard : fits[g] => Fits(g)

Drains ==
  /\ \A g \in Beyond : lane[g] \in {"normal", "background"} => \A t \in ToSet(tickets) : g \in past[t]
  /\ \A g \in Guard : pc[g] \in {"scan", "register"} /\ g \in ToSet(tickets) => Head(tickets) = g

AdmissionInv == Types /\ (\A g \in Guard : MyOK(g)) /\ Apart /\ Bounds /\ Drains

-----------------------------------------------------------------------------
(* What the guards of a behaviour ask for.                                 *)

LEMMA Asked ==
  ASSUME cast \in Scenario, NEW g \in Guard
  PROVE  /\ Lane(g) \in Lanes /\ Charge(g) \in 1..Capacity /\ Declared(g) \in 1..Capacity /\ Charge(g) <= Declared(g)
         /\ PartOf(g) \in Guard \cup {NoGuard}
         /\ Lane(g) = "exclusive" => Charge(g) = Declared(g) /\ g \notin Parts /\ g \notin Elastic
         /\ g \in Elastic => Charge(g) = Declared(g) /\ g \notin Parts
         /\ g \in Parts => /\ PartOf(g) \in Elastic /\ Declared(g) <= Process
                           /\ cast[g].ws = cast[PartOf(g)].ws /\ cast[g].shared = cast[PartOf(g)].shared
         /\ Capacity \in Nat /\ Process \in 1..Capacity /\ NoGuard \notin Guard
<1>1. /\ cast \in [Guard -> Request] /\ cast[g].charge <= cast[g].declared
      /\ cast[g].lane = "exclusive" => cast[g].charge = Capacity
      /\ cast[g].elastic => cast[g].charge = cast[g].declared /\ cast[g].declared <= Capacity - Process
      /\ cast[g].base # NoGuard =>
           /\ cast[cast[g].base].elastic /\ cast[g].declared <= Process
           /\ ~cast[g].elastic /\ cast[g].lane # "exclusive"
           /\ cast[g].ws = cast[cast[g].base].ws /\ cast[g].shared = cast[cast[g].base].shared
      /\ Capacity \in Nat /\ Process \in 1..Capacity /\ NoGuard \notin Guard
  BY GuardAssumption
<1>2. /\ cast[g].lane \in Lanes /\ cast[g].declared \in 1..Capacity /\ cast[g].charge \in 1..Capacity
      /\ cast[g].base \in Guard \cup {NoGuard}
  BY <1>1 DEF Request
<1>3. cast[g].lane = "exclusive" => cast[g].charge = cast[g].declared /\ ~cast[g].elastic
  BY <1>1, <1>2
<1>. QED
  BY <1>1, <1>2, <1>3 DEF Lane, Charge, Declared, PartOf, Parts, Elastic

LEMMA AsksStay ==
  ASSUME cast' = cast
  PROVE  /\ \A g \in Guard : /\ Lane(g)' = Lane(g) /\ Charge(g)' = Charge(g) /\ Declared(g)' = Declared(g)
                             /\ PartOf(g)' = PartOf(g)
         /\ \A g, h \in Guard : (SameWs(g, h)' <=> SameWs(g, h)) /\ (ShareWs(g, h)' <=> ShareWs(g, h))
         /\ Parts' = Parts /\ Elastic' = Elastic
BY DEF Lane, Charge, Declared, PartOf, SameWs, ShareWs, Parts, Elastic

-----------------------------------------------------------------------------
(* What a guard takes.                                                     *)

LEMMA FreeIsNat ==
  ASSUME AdmissionInv
  PROVE  InSlots(held, Guard) /\ Free \in 0..Capacity /\ Free = Capacity - Sum(held, Guard) /\ Sum(held, Guard) \in Nat
<1>1. InSlots(held, Guard)
  BY DEF AdmissionInv, Types, SlotTypes, InSlots
<1>2. Sum(held, Guard) \in Nat /\ Sum(held, Guard) <= Capacity
  BY <1>1, SumIsNat DEF AdmissionInv, Bounds
<1>. QED
  BY <1>1, <1>2, GuardAssumption DEF Free

(* A guard that waits reads what the one head has published.               *)
LEMMA HeadIsRead ==
  ASSUME AdmissionInv, HeadNeed > 0
  PROVE  [unmet |-> HeadUnmet, need |-> HeadNeed] \in Entry
<1>. DEFINE published == [h \in Guard |-> IF heads[h] = NoEntry THEN 0 ELSE heads[h].unmet]
            Heads == {k \in Guard : heads[k] # NoEntry}
            needed == {heads[h].need : h \in Heads}
<1>1. \A h \in Guard : heads[h] # NoEntry => queue = h /\ heads[h] \in Entry
  BY DEF AdmissionInv, MyOK, LocksOK, Leads, Types, HeadTypes
<1>2. PICK q \in Guard : heads[q] # NoEntry
  BY DEF HeadNeed
<1>3. Heads = {q} /\ needed = {heads[q].need}
  BY <1>1, <1>2
<1>4. /\ heads[q] = [unmet |-> heads[q].unmet, need |-> heads[q].need]
      /\ heads[q].unmet \in 0..Capacity /\ heads[q].need \in 0..Capacity
  BY <1>1, <1>2 DEF Entry
<1>5. Capacity \in Nat
  BY GuardAssumption
<1>6. HeadNeed = heads[q].need
  <2>1. HeadNeed = Max(needed)
    BY <1>2, Zenon DEF HeadNeed
  <2>2. heads[q].need \in Int
    BY <1>4, <1>5
  <2>3. Max({heads[q].need}) = heads[q].need
    <3>1. \A x \in {heads[q].need} : (\A y \in {heads[q].need} : x >= y) => x = heads[q].need
      OBVIOUS
    <3>2. heads[q].need \in {heads[q].need} /\ \A y \in {heads[q].need} : heads[q].need >= y
      BY <2>2
    <3>. QED
      BY <3>1, <3>2 DEF Max
  <2>. QED
    BY <1>3, <2>1, <2>3
<1>7. HeadUnmet = heads[q].unmet
  <2>1. HeadUnmet = Sum(published, Guard)
    BY DEF HeadUnmet
  <2>2. InSlots(published, Guard) /\ published[q] = heads[q].unmet /\ \A h \in Guard \ {q} : published[h] = 0
    BY <1>1, <1>2, <1>4, <1>5 DEF InSlots
  <2>. HIDE DEF published
  <2>3. Sum(published, Guard) = Sum(published, Guard \ {q}) + published[q]
    BY <2>2, SumOut
  <2>4. Slots(published, Guard \ {q}) = {}
    <3>. SUFFICES ASSUME NEW p \in Slots(published, Guard \ {q}) PROVE FALSE
      OBVIOUS
    <3>1. PICK h \in Guard \ {q} : \E i \in 1..published[h] : p = <<h, i>>
      BY SlotsHave
    <3>. QED
      BY <2>2, <3>1
  <2>5. Sum(published, Guard \ {q}) = 0
    BY <2>4, FS_EmptySet DEF Sum
  <2>. QED
    BY <1>4, <1>5, <2>1, <2>2, <2>3, <2>5
<1>. QED
  BY <1>1, <1>2, <1>4, <1>6, <1>7

(* The head takes all it needs, or keeps part of it and says what it lacks. *)
LEMMA ScanTakes ==
  ASSUME AdmissionInv, NEW g \in Guard, Scan(g)
  PROVE  /\ UNCHANGED <<weight, ramp, view>>
         /\ held' = [held EXCEPT ![g] = held'[g]] /\ held'[g] \in 0..Capacity
         /\ held'[g] <= held[g] + Free
         /\ \/ pc'[g] = "register" /\ held'[g] = weight[g] /\ heads' = heads
            \/ pc'[g] = "turn" /\ heads' = [heads EXCEPT ![g] = heads'[g]] /\ heads'[g] \in Entry
<1>. DEFINE got == Min({weight[g], held[g] + Free})
            keep == Min({got, ramp[g]})
<1>1. /\ weight[g] \in 1..Capacity /\ held[g] \in 0..Capacity /\ ramp[g] \in 0..Capacity /\ ramp[g] <= weight[g]
      /\ held \in [Guard -> 0..Capacity] /\ heads \in [Guard -> Entry \cup {NoEntry}] /\ Capacity \in Nat
  BY GuardAssumption DEF AdmissionInv, Types, SlotTypes, HeadTypes
<1>2. Free \in 0..Capacity
  BY FreeIsNat
<1>3. got = IF weight[g] <= held[g] + Free THEN weight[g] ELSE held[g] + Free
  BY <1>1, <1>2, MinOfTwo
<1>4. got \in 0..Capacity /\ got <= held[g] + Free /\ got <= weight[g]
  BY <1>1, <1>2, <1>3
<1>. HIDE DEF got
<1>5. keep = IF got <= ramp[g] THEN got ELSE ramp[g]
  BY <1>1, <1>4, MinOfTwo
<1>6. keep \in 0..Capacity /\ keep <= got /\ keep <= ramp[g]
  BY <1>1, <1>4, <1>5
<1>7. [unmet |-> ramp[g] - keep, need |-> weight[g] - keep] \in Entry
  <2>1. ramp[g] - keep \in 0..Capacity /\ weight[g] - keep \in 0..Capacity /\ ramp[g] - keep <= weight[g] - keep
    BY <1>1, <1>6
  <2>. HIDE DEF keep
  <2>. QED
    BY <2>1 DEF Entry
<1>8. /\ UNCHANGED <<weight, ramp, view>> /\ pc \in [Guard -> Places]
      /\ \/ held' = [held EXCEPT ![g] = got] /\ got = weight[g] /\ pc' = [pc EXCEPT ![g] = "register"] /\ heads' = heads
         \/ /\ held' = [held EXCEPT ![g] = keep] /\ pc' = [pc EXCEPT ![g] = "turn"]
            /\ heads' = [heads EXCEPT ![g] = [unmet |-> ramp[g] - keep, need |-> weight[g] - keep]]
  BY DEF Scan, Goto, local, got, AdmissionInv, Types, PlaceTypes
<1>. HIDE DEF keep
<1>9. \A n : [held EXCEPT ![g] = n][g] = n
  BY <1>1
<1>10. CASE held' = [held EXCEPT ![g] = got] /\ got = weight[g] /\ pc' = [pc EXCEPT ![g] = "register"] /\ heads' = heads
  BY <1>1, <1>2, <1>4, <1>8, <1>9, <1>10
<1>11. CASE /\ held' = [held EXCEPT ![g] = keep] /\ pc' = [pc EXCEPT ![g] = "turn"]
            /\ heads' = [heads EXCEPT ![g] = [unmet |-> ramp[g] - keep, need |-> weight[g] - keep]]
  <2>1. held'[g] = keep /\ keep <= held[g] + Free
    BY <1>1, <1>2, <1>4, <1>6, <1>9, <1>11
  <2>2. heads'[g] = [unmet |-> ramp[g] - keep, need |-> weight[g] - keep] /\ pc'[g] = "turn"
    BY <1>1, <1>8, <1>11
  <2>. QED
    BY <1>6, <1>7, <1>8, <1>11, <2>1, <2>2
<1>. QED
  BY <1>8, <1>10, <1>11

(* A background guard takes all it needs, or gives it back.                *)
LEMMA BackgroundTakes ==
  ASSUME AdmissionInv, NEW g \in Guard, TakeInBackground(g)
  PROVE  /\ UNCHANGED <<weight, ramp>>
         /\ held' = [held EXCEPT ![g] = held'[g]] /\ held'[g] \in 0..Capacity
         /\ held'[g] <= held[g] + Free
         /\ fits' = [fits EXCEPT ![g] = fits'[g]] /\ fits'[g] \in BOOLEAN
         /\ queue' \in {queue, g} /\ (queue' # queue => queue = NoGuard)
         /\ register' \in {register, g} /\ (register' # register => register = NoGuard)
         /\ ws' \in {ws, ws \cup {g}} /\ (ws' # ws => WsFree(g))
         /\ main' \in {main, main \cup {g}} /\ (main' # main => MainFree(g))
         /\ fits'[g] = TRUE => /\ register' = g /\ g \in main' /\ held'[g] = weight[g] /\ Fits(g)
                               /\ g \in ws' \cup Parts
<1>. DEFINE w == g \in Parts \/ WsFree(g)
            q == w /\ queue = NoGuard
            m == q /\ MainFree(g)
            n == IF m THEN Min({Free, weight[g]}) ELSE 0
            all == m /\ held'[g] = weight[g] /\ register = NoGuard
<1>1. /\ UNCHANGED <<weight, ramp>>
      /\ ws' = IF w /\ g \notin Parts THEN ws \cup {g} ELSE ws
      /\ queue' = IF q THEN g ELSE queue
      /\ main' = IF m THEN main \cup {g} ELSE main
      /\ held' = [held EXCEPT ![g] = n]
      /\ register' = IF all THEN g ELSE register
      /\ fits' = [fits EXCEPT ![g] = all /\ Fits(g)]
  BY Zenon DEF TakeInBackground
<1>2. /\ weight[g] \in 1..Capacity /\ held[g] \in 0..Capacity /\ held \in [Guard -> 0..Capacity] /\ Capacity \in Nat
      /\ fits \in [Guard -> BOOLEAN]
  BY GuardAssumption DEF AdmissionInv, Types, SlotTypes, LockTypes
<1>3. Free \in 0..Capacity
  BY FreeIsNat
<1>4. Min({Free, weight[g]}) = IF Free <= weight[g] THEN Free ELSE weight[g]
  BY <1>2, <1>3, MinOfTwo
<1>5. n \in 0..Capacity /\ n <= held[g] + Free
  BY <1>2, <1>3, <1>4
<1>. HIDE DEF n
<1>6. held'[g] = n /\ held' = [held EXCEPT ![g] = held'[g]]
  BY <1>1, <1>2
<1>7. (all /\ Fits(g)) \in BOOLEAN
  BY Zenon
<1>8. fits'[g] = (all /\ Fits(g))
  BY <1>1, <1>2
<1>9. fits' = [fits EXCEPT ![g] = fits'[g]] /\ fits'[g] \in BOOLEAN
  <2>. HIDE DEF all
  <2>. QED
    BY <1>1, <1>7, <1>8
<1>10. /\ queue' \in {queue, g} /\ (queue' # queue => queue = NoGuard)
       /\ register' \in {register, g} /\ (register' # register => register = NoGuard)
       /\ ws' \in {ws, ws \cup {g}} /\ (ws' # ws => WsFree(g))
       /\ main' \in {main, main \cup {g}} /\ (main' # main => MainFree(g))
  BY <1>1
<1>11. fits'[g] = TRUE => /\ register' = g /\ g \in main' /\ held'[g] = weight[g] /\ Fits(g)
                          /\ g \in ws' \cup Parts
  BY <1>1, <1>8
<1>. QED
  BY <1>1, <1>5, <1>6, <1>9, <1>10, <1>11

-----------------------------------------------------------------------------
(* What a step of g may change: what is its own, and its entries.          *)

Step(g) ==
  \/ Start(g) \/ Acquire(g) \/ RampGrows(g) \/ GiveUp(g)
  \/ Spawn(g) \/ Preempt(g) \/ OverCharge(g) \/ RunAgain(g) \/ Finish(g)

Sets(g, f, e) == e = [f EXCEPT ![g] = e[g]]
Takes(g, a, b) == b = a \/ (a = NoGuard /\ b = g) \/ (a = g /\ b = NoGuard)
Joins(g, S, T) == T \in {S, S \cup {g}, S \ {g}}
Lists(g, s, t) == t = s \/ t = Without(s, g) \/ (g \notin ToSet(s) /\ t = Append(s, g))

MovesPlace(g) ==
  /\ cast' = cast /\ pc' \in [Guard -> Places]
  /\ \A h \in Guard \ {g} : pc'[h] = pc[h] \/ (PartOf(h) = g /\ {pc[h], pc'[h]} \subseteq {"out", "done"})
  /\ Sets(g, lane, lane') /\ lane'[g] \in {Lane(g), "leaf"}

MovesSlots(g) ==
  /\ Sets(g, weight, weight') /\ weight'[g] \in {Charge(g), Declared(g)}
  /\ Sets(g, held, held') /\ held'[g] \in 0..Capacity
  /\ Sets(g, ramp, ramp') /\ ramp'[g] \in 0..weight'[g]

MovesHeads(g) ==
  /\ Sets(g, heads, heads') /\ heads'[g] \in Entry \cup {NoEntry}
  /\ Sets(g, view, view') /\ view'[g] \in Entry \cup {NoEntry}

MovesLocks(g) ==
  /\ Takes(g, queue, queue') /\ Takes(g, register, register')
  /\ Sets(g, fits, fits') /\ fits'[g] \in BOOLEAN /\ holdoff' \in BOOLEAN
  /\ Joins(g, ws, ws') /\ Joins(g, main, main')

MovesLists(g) ==
  Lists(g, tickets, tickets') /\ Lists(g, lifelines, lifelines') /\ Lists(g, line, line') /\ Lists(g, running, running')

MovesSets(g) ==
  /\ Joins(g, waiting, waiting') /\ Joins(g, fresh, fresh')
  /\ Joins(g, elastic, elastic') /\ Joins(g, leaves, leaves') /\ Joins(g, lifeline, lifeline')
  /\ ahead' \in [Guard -> SUBSET Guard] /\ Sets(g, past, past') /\ past'[g] \in SUBSET Guard

Moves(g) == MovesPlace(g) /\ MovesSlots(g) /\ MovesHeads(g) /\ MovesLocks(g) /\ MovesLists(g) /\ MovesSets(g)

LEMMA StepPlace ==
  ASSUME AdmissionInv, NEW g \in Guard, Step(g)
  PROVE  MovesPlace(g)
<1>. USE DEF Goto, Places, Waits, Admitted, Lanes
<1>0. PlaceTypes /\ \A h \in Guard : MyOK(h)
  BY DEF AdmissionInv, Types
<1>1. UNCHANGED cast
  BY DEF Step, Acquire, Start, StartWithout, TakeWs, Wait, NoRoom, Enqueue, TakeLifeline, LineUp, TakeQueue,
         LookToBackfill, ScanToBackfill, Backfill, TakeMain, CheckTurn, Scan, ScanExclusive, TakeRegister, Admit,
         GiveBack, LookInBackground, TakeInBackground, AdmitInBackground, RampGrows, GiveUp, Spawn, Preempt,
         OverCharge, RunAgain, Finish
<1>2. Sets(g, lane, lane') /\ lane'[g] \in {Lane(g), "leaf"}
  <2>1. \/ UNCHANGED lane
        \/ lane' = [lane EXCEPT ![g] = "leaf"]
        \/ lane' = [lane EXCEPT ![g] = Lane(g)]
    BY DEF Step, Acquire, Start, StartWithout, TakeWs, Wait, NoRoom, Enqueue, TakeLifeline, LineUp, TakeQueue,
           LookToBackfill, ScanToBackfill, Backfill, TakeMain, CheckTurn, Scan, ScanExclusive, TakeRegister, Admit,
           GiveBack, LookInBackground, TakeInBackground, AdmitInBackground, RampGrows, GiveUp, Spawn, Preempt,
           OverCharge, RunAgain, Finish, Leave, local
  <2>. QED
    BY <1>0, <2>1 DEF Sets, PlaceTypes
<1>3. CASE ~(GiveUp(g) \/ Finish(g))
  <2>1. \E p \in Places : pc' = [pc EXCEPT ![g] = p]
    <3>1. Entrance(g) \in Places
      BY DEF Entrance
    <3>. QED
      BY <1>0, <1>3, <3>1
      DEF Step, Acquire, Start, StartWithout, TakeWs, Wait, NoRoom, Enqueue, TakeLifeline, LineUp, TakeQueue,
          LookToBackfill, ScanToBackfill, Backfill, TakeMain, CheckTurn, Scan, ScanExclusive, TakeRegister, Admit,
          GiveBack, LookInBackground, TakeInBackground, AdmitInBackground, RampGrows, Spawn, Preempt,
          OverCharge, RunAgain, PlaceTypes
  <2>. QED
    BY <1>0, <1>1, <1>2, <2>1 DEF MovesPlace, PlaceTypes
<1>4. CASE GiveUp(g) \/ Finish(g)
  <2>1. Ended(g) /\ \A h \in Guard : PartOf(h) = g => pc[h] \in {"out", "done"}
    <3>1. CASE GiveUp(g)
      BY <1>0, <3>1, GuardAssumption DEF GiveUp, MyOK, PartOK, Parts
    <3>2. CASE Finish(g)
      BY <3>2 DEF Finish
    <3>. QED
      BY <1>4, <3>1, <3>2
  <2>2. pc' \in [Guard -> Places]
    BY <1>0, <2>1 DEF Ended, PlaceTypes
  <2>3. \A h \in Guard \ {g} : pc'[h] = pc[h] \/ (PartOf(h) = g /\ {pc[h], pc'[h]} \subseteq {"out", "done"})
    BY <2>1 DEF Ended
  <2>. QED
    BY <1>1, <1>2, <2>2, <2>3 DEF MovesPlace
<1>. QED
  BY <1>3, <1>4

LEMMA StepSlots ==
  ASSUME AdmissionInv, NEW g \in Guard, Step(g)
  PROVE  MovesSlots(g)
<1>. USE DEF Sets
<1>0. /\ SlotTypes /\ MyOK(g) /\ cast \in Scenario /\ Capacity \in Nat
      /\ Declared(g) \in 1..Capacity /\ Charge(g) \in 1..Capacity /\ Charge(g) <= Declared(g)
  BY GuardAssumption, Asked DEF AdmissionInv, Types, PlaceTypes
<1>1. weight[g] \in {Charge(g), Declared(g)} /\ held[g] \in 0..Capacity /\ ramp[g] \in 0..weight[g]
  BY <1>0 DEF SlotTypes
<1>2. CASE UNCHANGED <<weight, held, ramp>>
  BY <1>0, <1>1, <1>2 DEF SlotTypes, MovesSlots
<1>3. CASE Start(g)
  <2>1. PICK w \in {Charge(g), Declared(g)} : weight' = [weight EXCEPT ![g] = w]
    BY <1>3 DEF Start
  <2>2. ramp[g] = 0 /\ UNCHANGED <<held, ramp>>
    BY <1>0, <1>3 DEF Start, MyOK, PlaceOK, local, locks
  <2>. QED
    BY <1>0, <1>1, <2>1, <2>2 DEF SlotTypes, MovesSlots
<1>4. CASE TakeQueue(g)
  BY <1>0, <1>1, <1>4 DEF TakeQueue, SlotTypes, MovesSlots
<1>5. CASE ScanToBackfill(g)
  <2>1. UNCHANGED <<weight, ramp>> /\ (held' = held \/ held' = [held EXCEPT ![g] = Min({Free, view[g].need})])
    BY <1>5 DEF ScanToBackfill
  <2>2. view[g].need \in 0..Capacity
    BY <1>0, <1>5 DEF ScanToBackfill, MyOK, PlaceOK, Entry
  <2>3. Min({Free, view[g].need}) \in 0..Capacity
    BY <1>0, <2>2, FreeIsNat, MinOfTwo
  <2>. QED
    BY <1>0, <1>1, <2>1, <2>3 DEF SlotTypes, MovesSlots
<1>6. CASE Scan(g)
  BY <1>0, <1>1, <1>6, ScanTakes DEF SlotTypes, MovesSlots
<1>7. CASE TakeInBackground(g)
  BY <1>0, <1>1, <1>7, BackgroundTakes DEF SlotTypes, MovesSlots
<1>8. CASE RampGrows(g)
  BY <1>0, <1>1, <1>8 DEF RampGrows, SlotTypes, MovesSlots, locks
<1>9. CASE Backfill(g) \/ AdmitInBackground(g) \/ Admit(g) \/ GiveBack(g)
  <2>1. /\ held' = [held EXCEPT ![g] = held'[g]] /\ held'[g] \in {held[g], weight[g], 0}
        /\ weight' = weight \/ weight' = [weight EXCEPT ![g] = Declared(g)]
        /\ UNCHANGED ramp
    BY <1>0, <1>9 DEF Backfill, AdmitInBackground, Admit, GiveBack, SlotTypes, local
  <2>. QED
    BY <1>0, <1>1, <2>1 DEF SlotTypes, MovesSlots
<1>10. CASE RunAgain(g) \/ GiveUp(g) \/ Finish(g)
  <2>1. /\ held' = [held EXCEPT ![g] = 0] /\ ramp' = [ramp EXCEPT ![g] = 0]
        /\ weight' = weight \/ weight' = [weight EXCEPT ![g] = Declared(g)]
    BY <1>10 DEF RunAgain, GiveUp, Finish, Leave
  <2>. QED
    BY <1>0, <1>1, <2>1 DEF SlotTypes, MovesSlots
<1>. QED
  BY <1>2, <1>3, <1>4, <1>5, <1>6, <1>7, <1>8, <1>9, <1>10
  DEF Step, Acquire, StartWithout, TakeWs, Wait, NoRoom, Enqueue, TakeLifeline, LineUp, LookToBackfill, TakeMain,
      CheckTurn, ScanExclusive, TakeRegister, LookInBackground, Spawn, Preempt, OverCharge, local, locks

LEMMA StepHeads ==
  ASSUME AdmissionInv, NEW g \in Guard, Step(g)
  PROVE  MovesHeads(g)
<1>. USE DEF Sets
<1>0. HeadTypes
  BY DEF AdmissionInv, Types
<1>1. heads[g] \in Entry \cup {NoEntry} /\ view[g] \in Entry \cup {NoEntry}
  BY <1>0 DEF HeadTypes
<1>2. CASE UNCHANGED <<heads, view>>
  BY <1>0, <1>1, <1>2 DEF HeadTypes, MovesHeads
<1>3. CASE LookToBackfill(g)
  BY <1>0, <1>1, <1>3, HeadIsRead DEF LookToBackfill, HeadTypes, MovesHeads, entries
<1>4. CASE Scan(g)
  BY <1>0, <1>1, <1>4, ScanTakes DEF HeadTypes, MovesHeads
<1>5. CASE UNCHANGED heads /\ view' = [view EXCEPT ![g] = NoEntry]
  BY <1>0, <1>1, <1>5 DEF HeadTypes, MovesHeads
<1>6. CASE heads' = [heads EXCEPT ![g] = NoEntry] /\ (view' = view \/ view' = [view EXCEPT ![g] = NoEntry])
  BY <1>0, <1>1, <1>6 DEF HeadTypes, MovesHeads
<1>. QED
  BY <1>2, <1>3, <1>4, <1>5, <1>6
  DEF Step, Acquire, Start, StartWithout, TakeWs, Wait, NoRoom, Enqueue, TakeLifeline, LineUp, TakeQueue,
      ScanToBackfill, Backfill, TakeMain, CheckTurn, ScanExclusive, TakeRegister, Admit, GiveBack,
      LookInBackground, TakeInBackground, AdmitInBackground, RampGrows, GiveUp, Spawn, Preempt, OverCharge,
      RunAgain, Finish, Leave, local, entries

LEMMA StepLocks ==
  ASSUME AdmissionInv, NEW g \in Guard, Step(g)
  PROVE  MovesLocks(g)
<1>0. LockTypes /\ MyOK(g)
  BY DEF AdmissionInv, Types
<1>1. Takes(g, queue, queue')
  <2>1. queue = g => queue' \in {g, NoGuard}
    BY DEF Step, Acquire, Start, StartWithout, TakeWs, Wait, NoRoom, Enqueue, TakeLifeline, LineUp, TakeQueue,
        LookToBackfill, ScanToBackfill, Backfill, TakeMain, CheckTurn, Scan, ScanExclusive, TakeRegister, Admit,
        GiveBack, LookInBackground, TakeInBackground, AdmitInBackground, RampGrows, GiveUp, Spawn, Preempt,
        OverCharge, RunAgain, Finish, Leave, locks
  <2>2. queue # g => queue' = queue \/ (queue = NoGuard /\ queue' = g)
    <3>1. pc[g] \in {"scan", "register", "giveback"} => queue = g
      BY <1>0 DEF MyOK, LocksOK, Leads, Collects
    <3>. QED
      BY <3>1
      DEF Step, Acquire, Start, StartWithout, TakeWs, Wait, NoRoom, Enqueue, TakeLifeline, LineUp, TakeQueue,
          LookToBackfill, ScanToBackfill, Backfill, TakeMain, CheckTurn, Scan, ScanExclusive, TakeRegister, Admit,
          GiveBack, LookInBackground, TakeInBackground, AdmitInBackground, RampGrows, GiveUp, Spawn, Preempt,
          OverCharge, RunAgain, Finish, Leave, locks
  <2>. QED
    BY <2>1, <2>2 DEF Takes
<1>2. Takes(g, register, register')
  <2>1. pc[g] = "scanned" => register = g
    BY <1>0 DEF MyOK, LocksOK
  <2>. QED
    BY <2>1
    DEF Takes, Step, Acquire, Start, StartWithout, TakeWs, Wait, NoRoom, Enqueue, TakeLifeline, LineUp, TakeQueue,
        LookToBackfill, ScanToBackfill, CanScan, Backfill, TakeMain, CheckTurn, Scan, ScanExclusive, TakeRegister,
        Admit, GiveBack, LookInBackground, TakeInBackground, AdmitInBackground, RampGrows, GiveUp, Spawn, Preempt,
        OverCharge, RunAgain, Finish, Leave, locks
<1>3. Sets(g, fits, fits') /\ fits'[g] \in BOOLEAN
  <2>1. \/ fits' = fits \/ fits' = [fits EXCEPT ![g] = FALSE] \/ fits' = [fits EXCEPT ![g] = Fits(g)]
        \/ fits' = [fits EXCEPT ![g] = fits'[g]] /\ fits'[g] \in BOOLEAN
    BY BackgroundTakes
    DEF Step, Acquire, Start, StartWithout, TakeWs, Wait, NoRoom, Enqueue, TakeLifeline, LineUp, TakeQueue,
        LookToBackfill, ScanToBackfill, Backfill, TakeMain, CheckTurn, Scan, ScanExclusive, TakeRegister,
        Admit, GiveBack, LookInBackground, AdmitInBackground, RampGrows, GiveUp, Spawn, Preempt,
        OverCharge, RunAgain, Finish, Leave, local
  <2>2. Fits(g) \in BOOLEAN /\ fits \in [Guard -> BOOLEAN]
    BY <1>0 DEF Fits, LockTypes
  <2>. QED
    BY <2>1, <2>2 DEF Sets
<1>4. holdoff' \in BOOLEAN
  BY <1>0
  DEF Step, Acquire, Start, StartWithout, TakeWs, Wait, NoRoom, Enqueue, TakeLifeline, LineUp, TakeQueue,
      LookToBackfill, ScanToBackfill, Backfill, TakeMain, CheckTurn, Scan, ScanExclusive, TakeRegister,
      Admit, GiveBack, LookInBackground, TakeInBackground, AdmitInBackground, RampGrows, GiveUp, Spawn, Preempt,
      OverCharge, RunAgain, Finish, LockTypes
<1>5. Joins(g, ws, ws') /\ Joins(g, main, main')
  BY DEF Joins, Step, Acquire, Start, StartWithout, TakeWs, Wait, NoRoom, Enqueue, TakeLifeline, LineUp, TakeQueue,
      LookToBackfill, ScanToBackfill, Backfill, TakeMain, CheckTurn, Scan, ScanExclusive, TakeRegister,
      Admit, GiveBack, LookInBackground, TakeInBackground, AdmitInBackground, RampGrows, GiveUp, Spawn, Preempt,
      OverCharge, RunAgain, Finish, Leave, locks
<1>. QED
  BY <1>1, <1>2, <1>3, <1>4, <1>5 DEF MovesLocks

LEMMA StepLists ==
  ASSUME AdmissionInv, NEW g \in Guard, Step(g)
  PROVE  MovesLists(g)
<1>0. MyOK(g)
  BY DEF AdmissionInv
<1>1. g \in ToSet(running) => pc[g] \in {"granted", "run"}
  BY <1>0 DEF MyOK, RegisteredOK
<1>2. g \in ToSet(lifelines) => lane[g] = "leaf"
  BY <1>0 DEF MyOK, TicketsOK
<1>3. Lists(g, running, running')
  BY <1>1
  DEF Lists, Registered, Step, Acquire, Start, StartWithout, TakeWs, Wait, NoRoom, Enqueue, TakeLifeline, LineUp,
      TakeQueue, LookToBackfill, ScanToBackfill, Backfill, TakeMain, CheckTurn, Scan, ScanExclusive, TakeRegister,
      Admit, GiveBack, LookInBackground, TakeInBackground, AdmitInBackground, RampGrows, GiveUp, Spawn, Preempt,
      OverCharge, RunAgain, Finish, Leave, entries
<1>4. Lists(g, lifelines, lifelines')
  BY <1>2
  DEF Lists, LifelineFree, Step, Acquire, Start, StartWithout, TakeWs, Wait, NoRoom, Enqueue, TakeLifeline, LineUp,
      TakeQueue, LookToBackfill, ScanToBackfill, Backfill, TakeMain, CheckTurn, Scan, ScanExclusive, TakeRegister,
      Admit, GiveBack, LookInBackground, TakeInBackground, AdmitInBackground, RampGrows, GiveUp, Spawn, Preempt,
      OverCharge, RunAgain, Finish, Leave, entries
<1>5. Lists(g, tickets, tickets') /\ Lists(g, line, line')
  BY DEF Lists, HasTicket, Step, Acquire, Start, StartWithout, TakeWs, Wait, NoRoom, Enqueue, TakeLifeline, LineUp,
      TakeQueue, LookToBackfill, ScanToBackfill, Backfill, TakeMain, CheckTurn, Scan, ScanExclusive, TakeRegister,
      Admit, GiveBack, LookInBackground, TakeInBackground, AdmitInBackground, RampGrows, GiveUp, Spawn, Preempt,
      OverCharge, RunAgain, Finish, Leave, entries
<1>. QED
  BY <1>3, <1>4, <1>5 DEF MovesLists

LEMMA StepSets ==
  ASSUME AdmissionInv, NEW g \in Guard, Step(g)
  PROVE  MovesSets(g)
<1>. USE DEF Joins, Sets
<1>0. SetTypes
  BY DEF AdmissionInv, Types
<1>1. Joins(g, elastic, elastic') /\ Joins(g, leaves, leaves') /\ Joins(g, lifeline, lifeline')
  BY DEF Registered, Step, Acquire, Start, StartWithout, TakeWs, Wait, NoRoom, Enqueue, TakeLifeline, LineUp,
      TakeQueue, LookToBackfill, ScanToBackfill, Backfill, TakeMain, CheckTurn, Scan, ScanExclusive, TakeRegister,
      Admit, GiveBack, LookInBackground, TakeInBackground, AdmitInBackground, RampGrows, GiveUp, Spawn, Preempt,
      OverCharge, RunAgain, Finish, Leave, entries
<1>2. Joins(g, waiting, waiting') /\ Joins(g, fresh, fresh')
  BY DEF Step, Acquire, Start, StartWithout, TakeWs, Wait, NoRoom, Enqueue, TakeLifeline, LineUp,
      TakeQueue, LookToBackfill, ScanToBackfill, Backfill, TakeMain, CheckTurn, Scan, ScanExclusive, TakeRegister,
      Admit, GiveBack, LookInBackground, TakeInBackground, AdmitInBackground, RampGrows, GiveUp, Spawn, Preempt,
      OverCharge, RunAgain, Finish, Leave, entries
<1>3. ahead' \in [Guard -> SUBSET Guard]
  <2>1. \/ ahead' = ahead
        \/ \E S \in SUBSET Guard : ahead' = [ahead EXCEPT ![g] = S]
        \/ ahead' = [l \in Guard |-> ahead[l] \ {g}]
        \/ ahead' = [l \in Guard |-> IF l = g THEN {} ELSE ahead[l] \ {g}]
    BY <1>0
    DEF SetTypes, Step, Acquire, Start, StartWithout, TakeWs, Wait, NoRoom, Enqueue, TakeLifeline, LineUp,
        TakeQueue, LookToBackfill, ScanToBackfill, Backfill, TakeMain, CheckTurn, Scan, ScanExclusive, TakeRegister,
        Admit, GiveBack, LookInBackground, TakeInBackground, AdmitInBackground, RampGrows, GiveUp, Spawn, Preempt,
        OverCharge, RunAgain, Finish, Leave, entries
  <2>. QED
    BY <1>0, <2>1 DEF SetTypes
<1>4. Sets(g, past, past') /\ past'[g] \in SUBSET Guard
  <2>1. past' = past \/ past' = [past EXCEPT ![g] = {}] \/ past' = [past EXCEPT ![g] = Beyond]
    BY DEF Step, Acquire, Start, StartWithout, TakeWs, Wait, NoRoom, Enqueue, TakeLifeline, LineUp,
        TakeQueue, LookToBackfill, ScanToBackfill, Backfill, TakeMain, CheckTurn, Scan, ScanExclusive, TakeRegister,
        Admit, GiveBack, LookInBackground, TakeInBackground, AdmitInBackground, RampGrows, GiveUp, Spawn, Preempt,
        OverCharge, RunAgain, Finish, Leave, entries
  <2>. QED
    BY <1>0, <2>1 DEF SetTypes, Beyond
<1>. QED
  BY <1>1, <1>2, <1>3, <1>4 DEF MovesSets

-----------------------------------------------------------------------------
(* What the moves of g keep: the types, and everything of another guard.   *)

(* What a step of g leaves of another guard.                               *)
Leaves(g, h) ==
  /\ lane'[h] = lane[h] /\ weight'[h] = weight[h] /\ held'[h] = held[h] /\ fits'[h] = fits[h]
  /\ view'[h] = view[h] /\ ramp'[h] = ramp[h] /\ heads'[h] = heads[h] /\ past'[h] = past[h]
  /\ h \in ws' <=> h \in ws
  /\ h \in main' <=> h \in main
  /\ h \in elastic' <=> h \in elastic
  /\ h \in ToSet(running') <=> h \in ToSet(running)
  /\ h \in ToSet(tickets') <=> h \in ToSet(tickets)
  /\ h \in ToSet(lifelines') <=> h \in ToSet(lifelines)
  /\ queue' = h <=> queue = h
  /\ register' = h <=> register = h
  /\ pc'[h] = pc[h] \/ (PartOf(h) = g /\ {pc[h], pc'[h]} \subseteq {"out", "done"})

LEMMA ListsKeep ==
  ASSUME NEW s, NEW t, NEW g \in Guard, Ordered(s), Lists(g, s, t)
  PROVE  Ordered(t) /\ \A h \in Guard \ {g} : h \in ToSet(t) <=> h \in ToSet(s)
<1>1. CASE t = s
  BY <1>1
<1>2. CASE t = Without(s, g)
  BY <1>2, WithoutOne
<1>3. CASE g \notin ToSet(s) /\ t = Append(s, g)
  BY <1>3, WithOne
<1>. QED
  BY <1>1, <1>2, <1>3 DEF Lists

LEMMA MovesKeepTypes ==
  ASSUME AdmissionInv, NEW g \in Guard, Moves(g)
  PROVE  Types'
<1>0. /\ PlaceTypes /\ SlotTypes /\ HeadTypes /\ LockTypes /\ ListTypes /\ SetTypes
      /\ MovesPlace(g) /\ MovesSlots(g) /\ MovesHeads(g) /\ MovesLocks(g) /\ MovesLists(g) /\ MovesSets(g)
      /\ Capacity \in Nat
  BY GuardAssumption DEF AdmissionInv, Types, Moves
<1>1. cast' = cast
  BY <1>0 DEF MovesPlace
<1>2. PlaceTypes'
  <2>1. Lane(g) \in Lanes
    BY <1>0, Asked DEF PlaceTypes
  <2>2. lane' \in [Guard -> Lanes \cup {"leaf"}] /\ \A h \in Guard : lane'[h] \in {Lane(h), "leaf"}
    BY <1>0, <2>1 DEF MovesPlace, PlaceTypes, Sets
  <2>. QED
    BY <1>0, <1>1, <2>2, AsksStay DEF MovesPlace, PlaceTypes
<1>3. SlotTypes'
  <2>1. Charge(g) \in 1..Capacity /\ Declared(g) \in 1..Capacity
    BY <1>0, Asked DEF PlaceTypes
  <2>2. weight' \in [Guard -> 1..Capacity] /\ \A h \in Guard : weight'[h] \in {Charge(h), Declared(h)}
    BY <1>0, <2>1 DEF MovesSlots, SlotTypes, Sets
  <2>3. held' \in [Guard -> 0..Capacity]
    BY <1>0 DEF MovesSlots, SlotTypes, Sets
  <2>4. weight'[g] \in 1..Capacity
    BY <2>2
  <2>5. ramp' \in [Guard -> 0..Capacity] /\ \A h \in Guard : ramp'[h] <= weight'[h]
    BY <1>0, <2>4 DEF MovesSlots, SlotTypes, Sets
  <2>. QED
    BY <1>1, <2>2, <2>3, <2>5, AsksStay DEF SlotTypes
<1>4. HeadTypes'
  BY <1>0 DEF MovesHeads, HeadTypes, Sets
<1>5. LockTypes'
  BY <1>0 DEF MovesLocks, LockTypes, Sets, Takes, Joins
<1>6. ListTypes'
  BY <1>0, ListsKeep DEF MovesLists, ListTypes
<1>7. SetTypes'
  BY <1>0 DEF MovesSets, SetTypes, Sets, Joins
<1>. QED
  BY <1>2, <1>3, <1>4, <1>5, <1>6, <1>7 DEF Types

LEMMA MovesLeaveOthers ==
  ASSUME AdmissionInv, NEW g \in Guard, Moves(g), NEW h \in Guard \ {g}
  PROVE  Leaves(g, h)
<1>0. /\ SlotTypes /\ PlaceTypes /\ HeadTypes /\ LockTypes /\ ListTypes /\ SetTypes
      /\ MovesPlace(g) /\ MovesSlots(g) /\ MovesHeads(g) /\ MovesLocks(g) /\ MovesLists(g) /\ MovesSets(g)
  BY DEF AdmissionInv, Types, Moves
<1>1. lane'[h] = lane[h] /\ weight'[h] = weight[h] /\ held'[h] = held[h] /\ ramp'[h] = ramp[h]
  BY <1>0 DEF MovesPlace, MovesSlots, PlaceTypes, SlotTypes, Sets
<1>2. fits'[h] = fits[h] /\ view'[h] = view[h] /\ heads'[h] = heads[h] /\ past'[h] = past[h]
  BY <1>0 DEF MovesLocks, MovesHeads, MovesSets, LockTypes, HeadTypes, SetTypes, Sets
<1>3. /\ h \in ws' <=> h \in ws
      /\ h \in main' <=> h \in main
      /\ h \in elastic' <=> h \in elastic
      /\ queue' = h <=> queue = h
      /\ register' = h <=> register = h
  <2>1. h # NoGuard
    BY GuardAssumption
  <2>. QED
    BY <1>0, <2>1 DEF MovesLocks, MovesSets, Joins, Takes
<1>4. /\ h \in ToSet(running') <=> h \in ToSet(running)
      /\ h \in ToSet(tickets') <=> h \in ToSet(tickets)
      /\ h \in ToSet(lifelines') <=> h \in ToSet(lifelines)
  BY <1>0, ListsKeep DEF MovesLists, ListTypes
<1>5. pc'[h] = pc[h] \/ (PartOf(h) = g /\ {pc[h], pc'[h]} \subseteq {"out", "done"})
  BY <1>0 DEF MovesPlace
<1>. QED
  BY <1>1, <1>2, <1>3, <1>4, <1>5 DEF Leaves

LEMMA StepMoves ==
  ASSUME AdmissionInv, NEW g \in Guard, Step(g)
  PROVE  Moves(g)
BY StepPlace, StepSlots, StepHeads, StepLocks, StepLists, StepSets DEF Moves

(* The youngest overcommitted workload is one of them.                    *)
LEMMA YoungestRuns ==
  ASSUME AdmissionInv, NEW g \in Guard, Preempt(g)
  PROVE  g \in ToSet(running) /\ g \notin Elastic
<1>1. running # <<>> /\ Last(running) = g /\ running \in Seq(Guard)
  BY DEF Preempt, AdmissionInv, Types, ListTypes, Ordered
<1>2. Len(running) \in 1..Len(running) /\ running[Len(running)] = g
  BY <1>1 DEF Last
<1>3. g \in ToSet(running)
  BY <1>2 DEF ToSet
<1>. QED
  BY <1>3 DEF AdmissionInv, MyOK, RegisteredOK, Overcommits

(* While a part is at work, the elastic workload it belongs to runs on.    *)
LEMMA BaseRuns ==
  ASSUME AdmissionInv, NEW g \in Guard, Step(g),
         NEW h \in Guard, PartOf(h) = g, pc[h] \notin {"out", "done"}
  PROVE  pc[g] = "run" /\ pc'[g] = "run"
<1>0. /\ MyOK(g) /\ MyOK(h) /\ PlaceTypes
  BY DEF AdmissionInv, Types
<1>1. h \in Parts /\ g \in Elastic /\ g \notin Parts
  BY <1>0, Asked DEF Parts, PlaceTypes
<1>2. pc[g] = "run"
  BY <1>0, <1>1 DEF MyOK, PartOK
<1>3. CASE UNCHANGED pc
  BY <1>2, <1>3
<1>4. CASE Preempt(g)
  BY <1>1, <1>4, YoungestRuns
<1>5. CASE OverCharge(g)
  BY <1>1, <1>5 DEF OverCharge
<1>6. CASE Finish(g)
  BY <1>6 DEF Finish
<1>. QED
  BY <1>2, <1>3, <1>4, <1>5, <1>6
  DEF Step, Acquire, Start, StartWithout, TakeWs, Wait, NoRoom, Enqueue, TakeLifeline, LineUp, TakeQueue,
      LookToBackfill, ScanToBackfill, Backfill, TakeMain, CheckTurn, Scan, ScanExclusive, TakeRegister,
      Admit, GiveBack, LookInBackground, TakeInBackground, AdmitInBackground, RampGrows, GiveUp, Spawn,
      RunAgain, Waits

LEMMA OthersKept ==
  ASSUME AdmissionInv, NEW g \in Guard, Step(g), NEW h \in Guard \ {g}
  PROVE  MyOK(h)'
<1>0. /\ PlaceTypes /\ MyOK(h) /\ MyOK(g) /\ Leaves(g, h) /\ UNCHANGED cast /\ MovesPlace(g)
  BY StepMoves, MovesLeaveOthers DEF AdmissionInv, Types, Moves, MovesPlace
<1>1. /\ Lane(h)' = Lane(h) /\ Parts' = Parts /\ Elastic' = Elastic /\ PartOf(h)' = PartOf(h)
      /\ Overcommits(h)' <=> Overcommits(h)
  <2>1. Lane(h)' = Lane(h) /\ Parts' = Parts /\ Elastic' = Elastic /\ PartOf(h)' = PartOf(h) /\ Declared(h)' = Declared(h)
    BY <1>0, AsksStay
  <2>. QED
    BY <1>0, <2>1 DEF Overcommits, Leaves
<1>2. CASE pc'[h] = pc[h]
  <2>1. PlaceOK(h)'
    BY <1>0, <1>1, <1>2 DEF MyOK, PlaceOK, Leaves
  <2>2. LocksOK(h)'
    BY <1>0, <1>1, <1>2 DEF MyOK, LocksOK, Full, Taken, Leaves
  <2>3. ApartOK(h)'
    BY <1>0, <1>1, <1>2 DEF MyOK, ApartOK, Full, Taken, Leaves
  <2>4. PartOK(h)'
    <3>. SUFFICES ASSUME h \in Parts, pc[h] \notin {"out", "done"} PROVE pc'[PartOf(h)] = "run"
      BY <1>1, <1>2 DEF PartOK
    <3>1. PartOf(h) \in Elastic /\ PartOf(h) \in Guard /\ PartOf(h) \notin Parts /\ pc[PartOf(h)] = "run"
      BY <1>0, Asked DEF MyOK, PartOK, Elastic, PlaceTypes
    <3>2. CASE PartOf(h) = g
      BY <3>2, BaseRuns
    <3>3. CASE PartOf(h) # g
      BY <1>0, <3>1, <3>3 DEF MovesPlace
    <3>. QED
      BY <3>2, <3>3
  <2>5. RegisteredOK(h)'
    BY <1>0, <1>1, <1>2 DEF MyOK, RegisteredOK, Leaves
  <2>6. TicketsOK(h)'
    BY <1>0, <1>1, <1>2 DEF MyOK, TicketsOK, Leaves
  <2>. QED
    BY <2>1, <2>2, <2>3, <2>4, <2>5, <2>6 DEF MyOK
<1>3. CASE PartOf(h) = g /\ {pc[h], pc'[h]} \subseteq {"out", "done"}
  <2>1. pc[h] \in {"out", "done"} /\ pc'[h] \in {"out", "done"}
    BY <1>3
  <2>. USE DEF Early, Collects, Leads, Admitted, Full, Taken
  <2>2. PlaceOK(h)'
    BY <1>0, <1>1, <2>1 DEF MyOK, PlaceOK, Leaves
  <2>3. LocksOK(h)'
    BY <1>0, <1>1, <2>1 DEF MyOK, LocksOK, Leaves
  <2>4. ApartOK(h)'
    BY <1>0, <1>1, <2>1 DEF MyOK, ApartOK, Leaves
  <2>5. PartOK(h)'
    BY <2>1 DEF PartOK
  <2>6. RegisteredOK(h)'
    BY <1>0, <1>1, <2>1 DEF MyOK, RegisteredOK, Leaves
  <2>7. TicketsOK(h)'
    BY <1>0, <1>1, <2>1 DEF MyOK, TicketsOK, Leaves
  <2>. QED
    BY <2>2, <2>3, <2>4, <2>5, <2>6, <2>7 DEF MyOK
<1>. QED
  BY <1>0, <1>2, <1>3 DEF Leaves

LEMMA StepPlaceOK ==
  ASSUME AdmissionInv, NEW g \in Guard, Step(g)
  PROVE  PlaceOK(g)'
<1>. USE DEF Goto, Waits, Admitted, Early, MyOK, local, locks, entries, PlaceTypes, SlotTypes, HeadTypes
<1>0. /\ PlaceTypes /\ SlotTypes /\ HeadTypes /\ LockTypes /\ ListTypes /\ SetTypes
      /\ MyOK(g) /\ Moves(g) /\ UNCHANGED cast
      /\ lane[g] \in {Lane(g), "leaf"} /\ Lane(g) \in Lanes
  BY StepMoves, Asked DEF AdmissionInv, Types, Moves, MovesPlace, PlaceTypes
<1>1. Lane(g)' = Lane(g)
  BY <1>0, AsksStay
<1>2. CASE Start(g) \/ StartWithout(g) \/ TakeWs(g) \/ Wait(g) \/ NoRoom(g) \/ Enqueue(g) \/ LineUp(g)
  BY <1>0, <1>1, <1>2 DEF Start, StartWithout, TakeWs, Wait, NoRoom, Enqueue, LineUp, Entrance, PlaceOK
<1>3. CASE TakeLifeline(g)
  BY <1>0, <1>1, <1>3 DEF TakeLifeline, PlaceOK
<1>4. CASE TakeQueue(g) \/ LookToBackfill(g) \/ ScanToBackfill(g)
  BY <1>0, <1>1, <1>4, HeadIsRead DEF TakeQueue, LookToBackfill, ScanToBackfill, PlaceOK
<1>5. CASE Backfill(g)
  BY <1>0, <1>1, <1>5 DEF Backfill, PlaceOK
<1>6. CASE TakeMain(g) \/ CheckTurn(g) \/ Scan(g) \/ RampGrows(g) \/ TakeRegister(g)
  BY <1>0, <1>1, <1>6 DEF TakeMain, CheckTurn, Scan, RampGrows, TakeRegister, PlaceOK
<1>7. CASE ScanExclusive(g) \/ GiveBack(g)
  BY <1>0, <1>1, <1>7 DEF ScanExclusive, GiveBack, PlaceOK
<1>8. CASE Admit(g)
  BY <1>0, <1>1, <1>8 DEF Admit, PlaceOK
<1>9. CASE LookInBackground(g) \/ AdmitInBackground(g)
  BY <1>0, <1>1, <1>9 DEF LookInBackground, AdmitInBackground, PlaceOK
<1>10. CASE TakeInBackground(g)
  BY <1>0, <1>1, <1>10 DEF TakeInBackground, PlaceOK
<1>11. CASE Spawn(g) \/ Preempt(g) \/ OverCharge(g)
  BY <1>0, <1>1, <1>11 DEF Spawn, Preempt, OverCharge, PlaceOK
<1>12. CASE RunAgain(g) \/ GiveUp(g) \/ Finish(g)
  BY <1>0, <1>1, <1>12 DEF RunAgain, GiveUp, Finish, Leave, Ended, PlaceOK
<1>. QED
  BY <1>2, <1>3, <1>4, <1>5, <1>6, <1>7, <1>8, <1>9, <1>10, <1>11, <1>12 DEF Step, Acquire

LEMMA StepLocksOK ==
  ASSUME AdmissionInv, NEW g \in Guard, Step(g)
  PROVE  LocksOK(g)'
<1>. USE DEF Goto, Waits, Admitted, Collects, Leads, Full, Taken, MyOK, local, locks, entries,
        PlaceTypes, SlotTypes, HeadTypes, LockTypes
<1>0. /\ PlaceTypes /\ SlotTypes /\ HeadTypes /\ LockTypes /\ ListTypes /\ SetTypes
      /\ MyOK(g) /\ Moves(g) /\ UNCHANGED cast
      /\ lane[g] \in {Lane(g), "leaf"} /\ Lane(g) \in Lanes
  BY StepMoves, Asked DEF AdmissionInv, Types, Moves, MovesPlace, PlaceTypes
<1>1. Lane(g)' = Lane(g)
  BY <1>0, AsksStay
<1>2. CASE Start(g) \/ StartWithout(g) \/ TakeWs(g) \/ Wait(g) \/ NoRoom(g) \/ Enqueue(g) \/ LineUp(g)
  BY <1>0, <1>1, <1>2 DEF Start, StartWithout, TakeWs, Wait, NoRoom, Enqueue, LineUp, Entrance, LocksOK
<1>3. CASE TakeLifeline(g)
  BY <1>0, <1>1, <1>3 DEF TakeLifeline, LocksOK
<1>4. CASE TakeQueue(g) \/ LookToBackfill(g) \/ ScanToBackfill(g)
  BY <1>0, <1>1, <1>4 DEF TakeQueue, LookToBackfill, ScanToBackfill, CanScan, LocksOK
<1>5. CASE Backfill(g)
  BY <1>0, <1>1, <1>5 DEF Backfill, LocksOK
<1>6. CASE TakeMain(g) \/ CheckTurn(g) \/ Scan(g) \/ RampGrows(g) \/ TakeRegister(g)
  BY <1>0, <1>1, <1>6, ScanTakes DEF TakeMain, CheckTurn, Scan, RampGrows, TakeRegister, LocksOK
<1>7. CASE ScanExclusive(g) \/ GiveBack(g)
  BY <1>0, <1>1, <1>7 DEF ScanExclusive, GiveBack, LocksOK
<1>8. CASE Admit(g)
  BY <1>0, <1>1, <1>8 DEF Admit, LocksOK
<1>9. CASE LookInBackground(g) \/ AdmitInBackground(g)
  BY <1>0, <1>1, <1>9 DEF LookInBackground, AdmitInBackground, LocksOK
<1>10. CASE TakeInBackground(g)
  BY <1>0, <1>1, <1>10, BackgroundTakes DEF TakeInBackground, LocksOK
<1>11. CASE Spawn(g) \/ Preempt(g) \/ OverCharge(g)
  BY <1>0, <1>1, <1>11 DEF Spawn, Preempt, OverCharge, LocksOK
<1>12. CASE RunAgain(g) \/ GiveUp(g) \/ Finish(g)
  BY <1>0, <1>1, <1>12 DEF RunAgain, GiveUp, Finish, Leave, Ended, LocksOK
<1>. QED
  BY <1>2, <1>3, <1>4, <1>5, <1>6, <1>7, <1>8, <1>9, <1>10, <1>11, <1>12 DEF Step, Acquire

LEMMA StepApartOK ==
  ASSUME AdmissionInv, NEW g \in Guard, Step(g)
  PROVE  ApartOK(g)'
<1>. USE DEF Goto, Waits, Admitted, Collects, Leads, Full, Taken, MyOK, local, locks, entries, PlaceTypes, LockTypes
<1>0. /\ PlaceTypes /\ SlotTypes /\ HeadTypes /\ LockTypes /\ ListTypes /\ SetTypes
      /\ MyOK(g) /\ Moves(g) /\ UNCHANGED cast
      /\ lane[g] \in {Lane(g), "leaf"} /\ Lane(g) \in Lanes
  BY StepMoves, Asked DEF AdmissionInv, Types, Moves, MovesPlace, PlaceTypes
<1>1. Lane(g)' = Lane(g)
  BY <1>0, AsksStay
<1>2. Parts' = Parts /\ Elastic' = Elastic
  BY <1>0, AsksStay
<1>3. CASE Start(g) \/ StartWithout(g) \/ TakeWs(g) \/ Wait(g) \/ NoRoom(g) \/ Enqueue(g) \/ LineUp(g)
  BY <1>0, <1>1, <1>2, <1>3 DEF Start, StartWithout, TakeWs, Wait, NoRoom, Enqueue, LineUp, Entrance, ApartOK
<1>4. CASE TakeLifeline(g)
  BY <1>0, <1>1, <1>2, <1>4 DEF TakeLifeline, LifelineFree, ApartOK
<1>5. CASE TakeQueue(g) \/ LookToBackfill(g) \/ ScanToBackfill(g)
  BY <1>0, <1>1, <1>2, <1>5 DEF TakeQueue, LookToBackfill, ScanToBackfill, CanScan, ApartOK
<1>6. CASE Backfill(g)
  BY <1>0, <1>1, <1>2, <1>6 DEF Backfill, ApartOK
<1>7. CASE TakeMain(g) \/ CheckTurn(g) \/ Scan(g) \/ RampGrows(g) \/ TakeRegister(g)
  BY <1>0, <1>1, <1>2, <1>7 DEF TakeMain, CheckTurn, Scan, RampGrows, TakeRegister, ApartOK
<1>8. CASE ScanExclusive(g) \/ GiveBack(g)
  BY <1>0, <1>1, <1>2, <1>8 DEF ScanExclusive, GiveBack, ApartOK
<1>9. CASE Admit(g)
  BY <1>0, <1>1, <1>2, <1>9 DEF Admit, ApartOK
<1>10. CASE LookInBackground(g) \/ AdmitInBackground(g)
  BY <1>0, <1>1, <1>2, <1>10 DEF LookInBackground, AdmitInBackground, ApartOK
<1>11. CASE TakeInBackground(g)
  BY <1>0, <1>1, <1>2, <1>11, BackgroundTakes DEF TakeInBackground, ApartOK
<1>12. CASE Spawn(g) \/ Preempt(g) \/ OverCharge(g)
  BY <1>0, <1>1, <1>2, <1>12 DEF Spawn, Preempt, OverCharge, ApartOK
<1>13. CASE RunAgain(g) \/ GiveUp(g) \/ Finish(g)
  BY <1>0, <1>1, <1>2, <1>13 DEF RunAgain, GiveUp, Finish, Leave, Ended, ApartOK
<1>. QED
  BY <1>3, <1>4, <1>5, <1>6, <1>7, <1>8, <1>9, <1>10, <1>11, <1>12, <1>13 DEF Step, Acquire

LEMMA StepRegisteredOK ==
  ASSUME AdmissionInv, NEW g \in Guard, Step(g)
  PROVE  RegisteredOK(g)'
<1>. USE DEF Goto, Waits, Admitted, Overcommits, local, entries
<1>0. /\ RegisteredOK(g) /\ MovesPlace(g)
      /\ cast \in Scenario /\ pc \in [Guard -> Places] /\ weight \in [Guard -> 1..Capacity] /\ elastic \subseteq Guard
  BY StepMoves DEF AdmissionInv, MyOK, Types, Moves, PlaceTypes, SlotTypes, SetTypes
<1>1. Ordered(running) /\ (weight[g] = Charge(g) \/ weight[g] = Declared(g))
  BY DEF AdmissionInv, Types, ListTypes, SlotTypes
<1>2. /\ Parts' = Parts /\ Elastic' = Elastic /\ Declared(g)' = Declared(g) /\ (g \in Elastic => g \notin Parts)
      /\ Lane(g) = "exclusive" => weight[g] = Declared(g) /\ g \notin Elastic
  BY <1>0, <1>1, Asked, AsksStay DEF MovesPlace
<1>3. /\ g \notin ToSet(Without(running, g))
      /\ g \notin ToSet(running) => g \in ToSet(Append(running, g))
  BY <1>1, WithOne, WithoutOne
<1>4. Preempt(g) => g \in ToSet(running) /\ g \notin Elastic
  BY YoungestRuns
<1>5. CASE Start(g) \/ StartWithout(g) \/ TakeWs(g) \/ Wait(g) \/ NoRoom(g) \/ Enqueue(g) \/ LineUp(g)
  BY <1>0, <1>2, <1>5 DEF Start, StartWithout, TakeWs, Wait, NoRoom, Enqueue, LineUp, Entrance, RegisteredOK
<1>6. CASE TakeLifeline(g)
  BY <1>0, <1>2, <1>6 DEF TakeLifeline, RegisteredOK
<1>7. CASE TakeQueue(g) \/ LookToBackfill(g) \/ ScanToBackfill(g)
  BY <1>0, <1>2, <1>7 DEF TakeQueue, LookToBackfill, ScanToBackfill, RegisteredOK
<1>8. CASE Backfill(g)
  BY <1>0, <1>2, <1>3, <1>8 DEF Backfill, Registered, RegisteredOK
<1>9. CASE TakeMain(g) \/ CheckTurn(g) \/ Scan(g) \/ RampGrows(g) \/ TakeRegister(g)
  BY <1>0, <1>2, <1>9 DEF TakeMain, CheckTurn, Scan, RampGrows, TakeRegister, RegisteredOK
<1>10. CASE ScanExclusive(g) \/ GiveBack(g)
  BY <1>0, <1>2, <1>10 DEF ScanExclusive, GiveBack, RegisteredOK
<1>11. CASE Admit(g)
  BY <1>0, <1>2, <1>3, <1>11 DEF Admit, Registered, RegisteredOK
<1>12. CASE LookInBackground(g) \/ AdmitInBackground(g)
  BY <1>0, <1>2, <1>3, <1>12 DEF LookInBackground, AdmitInBackground, Registered, RegisteredOK
<1>13. CASE TakeInBackground(g)
  BY <1>0, <1>2, <1>13 DEF TakeInBackground, RegisteredOK
<1>14. CASE Spawn(g) \/ Preempt(g) \/ OverCharge(g)
  BY <1>0, <1>2, <1>3, <1>4, <1>14 DEF Spawn, Preempt, OverCharge, RegisteredOK
<1>15. CASE RunAgain(g) \/ GiveUp(g) \/ Finish(g)
  BY <1>0, <1>2, <1>3, <1>15 DEF RunAgain, GiveUp, Finish, Leave, Ended, RegisteredOK
<1>. QED
  BY <1>5, <1>6, <1>7, <1>8, <1>9, <1>10, <1>11, <1>12, <1>13, <1>14, <1>15 DEF Step, Acquire

LEMMA StepTicketsOK ==
  ASSUME AdmissionInv, NEW g \in Guard, Step(g)
  PROVE  TicketsOK(g)'
<1>. USE DEF Goto, Waits, Admitted, Collects, Leads, MyOK, local, locks, entries, PlaceTypes
<1>0. /\ PlaceTypes /\ SlotTypes /\ HeadTypes /\ LockTypes /\ ListTypes /\ SetTypes
      /\ MyOK(g) /\ Moves(g) /\ UNCHANGED cast
      /\ lane[g] \in {Lane(g), "leaf"} /\ Lane(g) \in Lanes
  BY StepMoves, Asked DEF AdmissionInv, Types, Moves, MovesPlace, PlaceTypes
<1>1. Lane(g)' = Lane(g)
  BY <1>0, AsksStay
<1>2. g \notin ToSet(Without(tickets, g)) /\ g \notin ToSet(Without(lifelines, g))
  BY <1>0, WithOne, WithoutOne DEF ListTypes
<1>3. CASE Start(g) \/ StartWithout(g) \/ TakeWs(g) \/ Wait(g) \/ NoRoom(g) \/ Enqueue(g) \/ LineUp(g)
  BY <1>0, <1>1, <1>2, <1>3 DEF Start, StartWithout, TakeWs, Wait, NoRoom, Enqueue, LineUp, Entrance, TicketsOK
<1>4. CASE TakeLifeline(g)
  BY <1>0, <1>1, <1>2, <1>4 DEF TakeLifeline, TicketsOK
<1>5. CASE TakeQueue(g) \/ LookToBackfill(g) \/ ScanToBackfill(g)
  BY <1>0, <1>1, <1>2, <1>5 DEF TakeQueue, LookToBackfill, ScanToBackfill, TicketsOK
<1>6. CASE Backfill(g)
  BY <1>0, <1>1, <1>2, <1>6 DEF Backfill, Registered, TicketsOK
<1>7. CASE TakeMain(g) \/ CheckTurn(g) \/ Scan(g) \/ RampGrows(g) \/ TakeRegister(g)
  BY <1>0, <1>1, <1>2, <1>7 DEF TakeMain, CheckTurn, Scan, RampGrows, TakeRegister, TicketsOK
<1>8. CASE ScanExclusive(g) \/ GiveBack(g)
  BY <1>0, <1>1, <1>2, <1>8 DEF ScanExclusive, GiveBack, TicketsOK
<1>9. CASE Admit(g)
  BY <1>0, <1>1, <1>2, <1>9 DEF Admit, Registered, TicketsOK
<1>10. CASE LookInBackground(g) \/ AdmitInBackground(g)
  BY <1>0, <1>1, <1>2, <1>10 DEF LookInBackground, AdmitInBackground, Registered, TicketsOK
<1>11. CASE TakeInBackground(g)
  BY <1>0, <1>1, <1>2, <1>11 DEF TakeInBackground, TicketsOK
<1>12. CASE Spawn(g) \/ Preempt(g) \/ OverCharge(g)
  BY <1>0, <1>1, <1>2, <1>12 DEF Spawn, Preempt, OverCharge, TicketsOK
<1>13. CASE RunAgain(g) \/ GiveUp(g) \/ Finish(g)
  BY <1>0, <1>1, <1>2, <1>13 DEF RunAgain, GiveUp, Finish, Leave, Ended, TicketsOK
<1>. QED
  BY <1>3, <1>4, <1>5, <1>6, <1>7, <1>8, <1>9, <1>10, <1>11, <1>12, <1>13 DEF Step, Acquire

LEMMA StepPartOK ==
  ASSUME AdmissionInv, NEW g \in Guard, Step(g)
  PROVE  PartOK(g)'
<1>. SUFFICES ASSUME g \in Parts, pc'[g] \notin {"out", "done"} PROVE pc'[PartOf(g)] = "run"
  <2>1. Parts' = Parts /\ PartOf(g)' = PartOf(g)
    BY StepMoves, AsksStay DEF Moves, MovesPlace
  <2>. QED
    BY <2>1 DEF PartOK
<1>1. /\ MyOK(g) /\ PlaceTypes /\ MovesPlace(g)
      /\ PartOf(g) \in Guard /\ PartOf(g) \in Elastic /\ g \notin Elastic
  BY StepMoves, Asked DEF AdmissionInv, Types, Moves, PlaceTypes, Elastic
<1>2. pc[g] \notin {"out", "done"} \/ Start(g)
  BY DEF Step, Acquire, StartWithout, TakeWs, Wait, NoRoom, Enqueue, TakeLifeline, LineUp, TakeQueue,
      LookToBackfill, ScanToBackfill, Backfill, TakeMain, CheckTurn, Scan, ScanExclusive, TakeRegister,
      Admit, GiveBack, LookInBackground, TakeInBackground, AdmitInBackground, RampGrows, GiveUp, Spawn,
      Preempt, OverCharge, RunAgain, Finish, Waits
<1>3. pc[PartOf(g)] = "run"
  BY <1>1, <1>2 DEF MyOK, PartOK, Start
<1>. QED
  BY <1>1, <1>3 DEF MovesPlace

LEMMA StepMyOK ==
  ASSUME AdmissionInv, NEW g \in Guard, Step(g), NEW h \in Guard
  PROVE  MyOK(h)'
<1>1. CASE h = g
  BY <1>1, StepPlaceOK, StepLocksOK, StepApartOK, StepPartOK, StepRegisteredOK, StepTicketsOK DEF MyOK
<1>2. CASE h # g
  BY <1>2, OthersKept
<1>. QED
  BY <1>1, <1>2

-----------------------------------------------------------------------------
(* Who holds the lock, and who a workspace.                                *)

LEMMA StepApart ==
  ASSUME AdmissionInv, NEW g \in Guard, Step(g)
  PROVE  Apart'
<1>0. Apart /\ Moves(g) /\ UNCHANGED cast
  BY StepMoves DEF AdmissionInv, Moves, MovesPlace
<1>1. Joins(g, main, main') /\ Joins(g, ws, ws')
  BY <1>0 DEF Moves, MovesLocks
<1>2. /\ \A h \in Guard : Lane(h)' = Lane(h)
      /\ \A h, k \in Guard : (SameWs(h, k)' <=> SameWs(h, k)) /\ (ShareWs(h, k)' <=> ShareWs(h, k))
      /\ main \subseteq Guard /\ ws \subseteq Guard
  BY <1>0, AsksStay DEF AdmissionInv, Types, LockTypes
<1>3. main' \subseteq main \/ (main' = main \cup {g} /\ MainFree(g))
  BY BackgroundTakes
  DEF Step, Acquire, Start, StartWithout, TakeWs, Wait, NoRoom, Enqueue, TakeLifeline, LineUp, TakeQueue,
      LookToBackfill, ScanToBackfill, CanScan, Backfill, TakeMain, CheckTurn, Scan, ScanExclusive, TakeRegister,
      Admit, GiveBack, LookInBackground, AdmitInBackground, RampGrows, GiveUp, Spawn,
      Preempt, OverCharge, RunAgain, Finish, Leave, locks
<1>4. ws' \subseteq ws \/ (ws' = ws \cup {g} /\ WsFree(g))
  BY BackgroundTakes
  DEF Step, Acquire, Start, StartWithout, TakeWs, Wait, NoRoom, Enqueue, TakeLifeline, LineUp, TakeQueue,
      LookToBackfill, ScanToBackfill, Backfill, TakeMain, CheckTurn, Scan, ScanExclusive, TakeRegister,
      Admit, GiveBack, LookInBackground, AdmitInBackground, RampGrows, GiveUp, Spawn,
      Preempt, OverCharge, RunAgain, Finish, Leave, locks
<1>5. \A h \in main' : Lane(h)' = "exclusive" => main' = {h}
  BY <1>0, <1>1, <1>2, <1>3 DEF Apart, Joins, MainFree
<1>6. \A h, k \in ws' : h # k /\ SameWs(h, k)' => ShareWs(h, k)'
  <2>1. CASE ws' \subseteq ws
    BY <1>0, <1>2, <2>1 DEF Apart
  <2>2. CASE ws' = ws \cup {g} /\ WsFree(g)
    <3>1. \A h \in ws : SameWs(g, h) \/ SameWs(h, g) => ShareWs(g, h) /\ ShareWs(h, g)
      BY <2>2 DEF WsFree, SameWs, ShareWs
    <3>. QED
      BY <1>0, <1>2, <2>2, <3>1 DEF Apart
  <2>. QED
    BY <1>4, <2>1, <2>2
<1>. QED
  BY <1>5, <1>6 DEF Apart

-----------------------------------------------------------------------------
(* The order of the tickets.                                               *)

LEMMA MinIsIn ==
  ASSUME NEW S \in SUBSET Nat, S # {}
  PROVE  Min(S) \in S
<1>. DEFINE R == OpToRel(<, Nat)
<1>1. PICK u \in S : \A v \in S : ~(<<v, u>> \in R)
  <2>1. IsWellFoundedOn(R, Nat)
    BY NatLessThanWellFounded DEF R
  <2>. HIDE DEF R
  <2>. QED
    BY <2>1, WFMin
<1>2. \A v \in S : ~(v < u)
  BY <1>1 DEF OpToRel
<1>. HIDE DEF R
<1>3. \A v \in S : u <= v
  BY <1>2
<1>. QED
  BY <1>3 DEF Min

(* The head of the queue: the lifelines go ahead of no merge ticket.       *)
LEMMA QueuedHead ==
  ASSUME Ordered(tickets), Ordered(lifelines)
  PROVE  /\ Queued = <<>> => tickets = <<>>
         /\ \A g \in ToSet(tickets) : Head(Queued) = g /\ g \notin ToSet(lifelines) => Head(tickets) = g
<1>. DEFINE I == {i \in 1..Len(tickets) : Lane(tickets[i]) = "exclusive"}
            n == IF (IF I # {} THEN Min(I) ELSE 0) = 0 THEN Len(tickets) ELSE (IF I # {} THEN Min(I) ELSE 0) - 1
            a == SubSeq(tickets, 1, n)
            c == SubSeq(tickets, n + 1, Len(tickets))
<1>1. tickets \in Seq(Guard) /\ lifelines \in Seq(Guard) /\ Len(tickets) \in Nat
  BY DEF Ordered
<1>2. Queued = a \o lifelines \o c
  <2>1. SelectInSeq(tickets, LAMBDA g : Lane(g) = "exclusive") = IF I # {} THEN Min(I) ELSE 0
    BY Zenon DEF SelectInSeq
  <2>. QED
    BY <2>1, Zenon DEF Queued
<1>3. n \in 0..Len(tickets)
  <2>1. CASE I = {}
    BY <1>1, <2>1
  <2>2. CASE I # {}
    <3>1. I \in SUBSET Nat /\ I \subseteq 1..Len(tickets)
      BY <1>1
    <3>2. Min(I) \in I
      BY <2>2, <3>1, MinIsIn, Zenon
    <3>3. Min(I) \in 1..Len(tickets)
      BY <3>1, <3>2
    <3>. QED
      BY <1>1, <2>2, <3>3
  <2>. QED
    BY <2>1, <2>2
<1>. HIDE DEF n
<1>4. /\ a \in Seq(Guard) /\ Len(a) = n /\ \A i \in 1..n : a[i] = tickets[i]
      /\ c \in Seq(Guard) /\ Len(c) = Len(tickets) - n /\ \A i \in 1..(Len(tickets) - n) : c[i] = tickets[i + n]
  BY <1>1, <1>3
<1>. HIDE DEF a, c
<1>5. Queued \in Seq(Guard) /\ Len(Queued) = Len(tickets) + Len(lifelines)
  <2>. DEFINE b == a \o lifelines
  <2>1. Len(lifelines) \in Nat /\ n \in Nat
    BY <1>1, <1>3
  <2>2. b \in Seq(Guard) /\ Len(b) = n + Len(lifelines)
    <3>. HIDE DEF I
    <3>1. a \in Seq(Guard) /\ Len(a) = n
      BY <1>4
    <3>. QED
      BY <1>1, <3>1, ConcatProperties
  <2>3. Queued = b \o c
    BY <1>2
  <2>. HIDE DEF b
  <2>4. b \o c \in Seq(Guard) /\ Len(b \o c) = Len(b) + Len(c)
    <3>1. c \in Seq(Guard)
      BY <1>4
    <3>. QED
      BY <2>2, <3>1, ConcatProperties
  <2>. QED
    BY <1>1, <1>3, <1>4, <2>1, <2>2, <2>3, <2>4
<1>6. Queued = <<>> => tickets = <<>>
  BY <1>1, <1>5
<1>7. ASSUME NEW g \in ToSet(tickets), Head(Queued) = g, g \notin ToSet(lifelines) PROVE Head(tickets) = g
  <2>1. Len(tickets) > 0 /\ Head(tickets) = tickets[1]
    BY <1>1 DEF ToSet
  <2>2. Queued[1] = g
    BY <1>1, <1>5, <1>7, <2>1
  <2>3. CASE n > 0
    BY <1>1, <1>2, <1>3, <1>4, <2>1, <2>2, <2>3
  <2>4. CASE n = 0 /\ lifelines # <<>>
    <3>1. Len(lifelines) > 0
      BY <1>1, <2>4
    <3>2. Queued[1] = lifelines[1]
      BY <1>1, <1>2, <1>4, <2>4, <3>1
    <3>. QED
      BY <1>1, <1>7, <2>2, <3>1, <3>2 DEF ToSet
  <2>5. CASE n = 0 /\ lifelines = <<>>
    BY <1>1, <1>2, <1>4, <2>1, <2>2, <2>5
  <2>. QED
    BY <1>3, <2>3, <2>4, <2>5
<1>. QED
  BY <1>6, <1>7

(* In its turn a guard is the first drain ticket, or there is none.        *)
LEMMA InItsTurn ==
  ASSUME AdmissionInv, NEW g \in Guard, MyTurn(g)
  PROVE  /\ g \in ToSet(tickets) => Head(tickets) = g
         /\ lane[g] \in {"normal", "background"} => tickets = <<>>
<1>0. /\ Ordered(tickets) /\ Ordered(lifelines) /\ TicketsOK(g)
  BY DEF AdmissionInv, Types, ListTypes, MyOK
<1>1. Queued = <<>> \/ (HasTicket(g) /\ Head(Queued) = g) \/ (~HasTicket(g) /\ tickets = <<>>)
  BY DEF MyTurn
<1>2. g \in ToSet(tickets) => g \notin ToSet(lifelines) /\ tickets # <<>>
  BY <1>0 DEF TicketsOK, ToSet
<1>. QED
  BY <1>0, <1>1, <1>2, QueuedHead DEF TicketsOK, HasTicket

LEMMA StepDrains ==
  ASSUME AdmissionInv, NEW g \in Guard, Step(g)
  PROVE  Drains'
<1>. USE DEF Goto
<1>0. /\ Drains /\ Moves(g) /\ MyOK(g) /\ ListTypes /\ PlaceTypes /\ SetTypes /\ \A h \in Guard \ {g} : Leaves(g, h)
  BY StepMoves, MovesLeaveOthers DEF AdmissionInv, Types
<1>1. \/ tickets' = tickets /\ past' = past
      \/ tickets' = Without(tickets, g) /\ past' = [past EXCEPT ![g] = {}]
      \/ g \notin ToSet(tickets) /\ tickets' = Append(tickets, g) /\ past' = [past EXCEPT ![g] = Beyond] /\ Enqueue(g)
  BY DEF HasTicket, Step, Acquire, Start, StartWithout, TakeWs, Wait, NoRoom, Enqueue, TakeLifeline, LineUp, TakeQueue,
      LookToBackfill, ScanToBackfill, Backfill, TakeMain, CheckTurn, Scan, ScanExclusive, TakeRegister,
      Admit, GiveBack, LookInBackground, TakeInBackground, AdmitInBackground, RampGrows, GiveUp, Spawn,
      Preempt, OverCharge, RunAgain, Finish, Leave, entries
<1>2. /\ ToSet(Without(tickets, g)) = ToSet(tickets) \ {g}
      /\ g \notin ToSet(tickets) => ToSet(Append(tickets, g)) = ToSet(tickets) \cup {g}
      /\ tickets # <<>> /\ Head(tickets) # g => Head(Without(tickets, g)) = Head(tickets)
      /\ g \notin ToSet(tickets) /\ tickets # <<>> => Head(Append(tickets, g)) = Head(tickets)
  BY <1>0, WithOne, WithoutOne DEF ListTypes
<1>3. \A h : h \in ToSet(tickets) => tickets # <<>>
  BY DEF ToSet
<1>4. ASSUME NEW h \in Beyond', lane'[h] \in {"normal", "background"}, NEW t \in ToSet(tickets')
      PROVE  h \in past'[t]
  <2>1. h \in Guard /\ pc'[h] \in {"scan", "register", "backfill", "scanned", "bgTake", "bgTaken"}
    BY DEF Beyond
  <2>2. t \in Guard
    <3>1. t \in ToSet(tickets) \cup {g}
      BY <1>1, <1>2
    <3>. QED
      BY <1>0, <3>1 DEF ListTypes, Ordered, ToSet
  <2>3. CASE h # g
    <3>1. h \in Beyond /\ lane[h] \in {"normal", "background"}
      BY <1>0, <1>4, <2>1, <2>3 DEF Leaves, Beyond
    <3>2. t \in ToSet(tickets) => h \in past[t]
      BY <1>0, <3>1 DEF Drains
    <3>. QED
      BY <1>0, <1>1, <1>2, <2>2, <3>1, <3>2 DEF SetTypes
  <2>4. CASE h = g
    <3>1. /\ pc[g] \in {"scan", "register", "backfill", "scanned", "bgTake", "bgTaken"} \/ tickets = <<>> \/ MyTurn(g)
          /\ lane[g] = lane'[g]
          /\ ToSet(tickets') \subseteq ToSet(tickets)
      <4>1. pc'[g] \in {"scan", "register", "backfill", "scanned", "bgTake", "bgTaken"}
        BY <2>1, <2>4
      <4>2. pc[g] \in {"scan", "register", "backfill", "scanned", "bgTake", "bgTaken"} \/ tickets = <<>> \/ MyTurn(g)
        BY <1>0, <4>1
        DEF Step, Acquire, Start, StartWithout, TakeWs, Wait, NoRoom, Enqueue, TakeLifeline, LineUp, TakeQueue,
            LookToBackfill, ScanToBackfill, Backfill, TakeMain, CheckTurn, Scan, ScanExclusive, TakeRegister,
            Admit, GiveBack, LookInBackground, TakeInBackground, AdmitInBackground, RampGrows, GiveUp, Spawn,
            Preempt, OverCharge, RunAgain, Finish, Ended, Entrance, PlaceTypes
      <4>3. lane' = lane \/ lane'[g] = "leaf" \/ pc'[g] \in {"start", "out", "done"}
        BY <1>0
        DEF Step, Acquire, Start, StartWithout, TakeWs, Wait, NoRoom, Enqueue, TakeLifeline, LineUp, TakeQueue,
            LookToBackfill, ScanToBackfill, Backfill, TakeMain, CheckTurn, Scan, ScanExclusive, TakeRegister,
            Admit, GiveBack, LookInBackground, TakeInBackground, AdmitInBackground, RampGrows, GiveUp, Spawn,
            Preempt, OverCharge, RunAgain, Finish, Ended, PlaceTypes, local
      <4>4. ~Enqueue(g)
        BY <1>0, <4>1 DEF Enqueue, PlaceTypes
      <4>5. lane[g] = lane'[g]
        BY <1>4, <2>4, <4>1, <4>3
      <4>. QED
        BY <1>1, <1>2, <4>2, <4>4, <4>5
    <3>2. lane[g] \in {"normal", "background"} /\ g \notin ToSet(tickets) /\ t \in ToSet(tickets) /\ t # g
      BY <1>0, <1>4, <2>4, <3>1 DEF MyOK, TicketsOK
    <3>3. g \in Beyond
      BY <1>3, <3>1, <3>2, InItsTurn DEF Beyond
    <3>4. g \in past[t]
      BY <1>0, <3>2, <3>3 DEF Drains
    <3>. QED
      BY <1>0, <1>1, <2>2, <2>4, <3>2, <3>4 DEF SetTypes, Enqueue
  <2>. QED
    BY <2>3, <2>4
<1>5. ASSUME NEW h \in Guard, pc'[h] \in {"scan", "register"}, h \in ToSet(tickets')
      PROVE  Head(tickets') = h
  <2>1. CASE h # g
    <3>1. h \in ToSet(tickets) /\ pc[h] \in {"scan", "register"}
      BY <1>0, <1>5, <2>1 DEF Leaves
    <3>2. Head(tickets) = h
      BY <1>0, <3>1 DEF Drains
    <3>. QED
      BY <1>1, <1>2, <1>3, <2>1, <3>1, <3>2
  <2>2. CASE h = g
    <3>1. pc'[g] \in {"scan", "register"} /\ g \in ToSet(tickets')
      BY <1>5, <2>2
    <3>2. tickets' = tickets
      BY <1>0, <1>1, <1>2, <3>1 DEF Enqueue, PlaceTypes
    <3>3. pc[g] \in {"scan", "register"} \/ MyTurn(g)
      BY <1>0, <3>1
      DEF Step, Acquire, Start, StartWithout, TakeWs, Wait, NoRoom, Enqueue, TakeLifeline, LineUp, TakeQueue,
          LookToBackfill, ScanToBackfill, Backfill, TakeMain, CheckTurn, Scan, ScanExclusive, TakeRegister,
          Admit, GiveBack, LookInBackground, TakeInBackground, AdmitInBackground, RampGrows, GiveUp, Spawn,
          Preempt, OverCharge, RunAgain, Finish, Ended, Entrance, PlaceTypes
    <3>4. Head(tickets) = g
      BY <1>0, <3>1, <3>2, <3>3, InItsTurn DEF Drains
    <3>. QED
      BY <2>2, <3>2, <3>4
  <2>. QED
    BY <2>1, <2>2
<1>. QED
  BY <1>4, <1>5 DEF Drains

-----------------------------------------------------------------------------
(* The sums: a guard takes what is free, and registers where it fits.      *)

LEMMA HeldIsThere ==
  ASSUME AdmissionInv, NEW g \in Guard, Step(g)
  PROVE  held'[g] <= held[g] + Free
<1>0. /\ MyOK(g) /\ held \in [Guard -> 0..Capacity] /\ weight \in [Guard -> 1..Capacity]
      /\ view \in [Guard -> Entry \cup {NoEntry}]
      /\ Free \in 0..Capacity /\ Capacity \in Nat
  BY FreeIsNat, GuardAssumption DEF AdmissionInv, Types, SlotTypes, HeadTypes
<1>1. CASE held' = held \/ held' = [held EXCEPT ![g] = 0]
  BY <1>0, <1>1
<1>2. CASE ScanToBackfill(g)
  <2>1. held' = held \/ held' = [held EXCEPT ![g] = Min({Free, view[g].need})]
    BY <1>2 DEF ScanToBackfill
  <2>2. view[g].need \in 0..Capacity
    BY <1>0, <1>2 DEF ScanToBackfill, MyOK, PlaceOK, Entry
  <2>3. Min({Free, view[g].need}) \in 0..Capacity /\ Min({Free, view[g].need}) <= Free
    BY <1>0, <2>2, MinOfTwo
  <2>. QED
    BY <1>0, <2>1, <2>3
<1>3. CASE Backfill(g)
  <2>1. view[g].unmet \in 0..Capacity
    BY <1>0, <1>3 DEF Backfill, MyOK, PlaceOK, Entry
  <2>2. held' = [held EXCEPT ![g] = 0] \/ (held' = [held EXCEPT ![g] = weight[g]] /\ Spare(g))
    BY <1>3 DEF Backfill
  <2>. QED
    BY <1>0, <2>1, <2>2 DEF Spare
<1>4. CASE Scan(g) \/ TakeInBackground(g)
  BY <1>4, ScanTakes, BackgroundTakes
<1>. QED
  BY <1>1, <1>2, <1>3, <1>4
  DEF Step, Acquire, Start, StartWithout, TakeWs, Wait, NoRoom, Enqueue, TakeLifeline, LineUp, TakeQueue,
      LookToBackfill, TakeMain, CheckTurn, ScanExclusive, TakeRegister, Admit, GiveBack, LookInBackground,
      AdmitInBackground, RampGrows, GiveUp, Spawn, Preempt, OverCharge, RunAgain, Finish, Leave, locks

LEMMA StepHeld ==
  ASSUME AdmissionInv, NEW g \in Guard, Step(g)
  PROVE  Sum(held', Guard) <= Capacity
<1>1. /\ InSlots(held, Guard) /\ Free \in 0..Capacity /\ Free = Capacity - Sum(held, Guard)
      /\ Sum(held, Guard) \in Nat /\ Capacity \in Nat
  BY FreeIsNat, GuardAssumption
<1>2. held' \in [Guard -> 0..Capacity] /\ \A h \in Guard \ {g} : held'[h] = held[h]
  BY StepMoves, MovesKeepTypes, MovesLeaveOthers DEF Types, SlotTypes, Leaves
<1>3. InSlots(held', Guard)
  BY <1>2 DEF InSlots
<1>4. Sum(held', Guard) = Sum(held, Guard) - held[g] + held'[g]
  BY <1>1, <1>2, <1>3, SumChanges
<1>5. held[g] \in 0..Capacity /\ held'[g] \in 0..Capacity
  BY <1>1, <1>3 DEF InSlots
<1>. QED
  BY <1>1, <1>4, <1>5, HeldIsThere

(* The slots a registered workload is charged, or declares beyond them.    *)
Over == [g \in Guard |-> Declared(g) - weight[g]]

LEMMA ExcessIsOver == Excess = Sum(Over, ToSet(running))
BY DEF Excess, Over

LEMMA RegistriesTyped ==
  ASSUME AdmissionInv
  PROVE  /\ InSlots(weight, elastic) /\ InSlots(Over, ToSet(running))
         /\ \A g \in Guard : weight[g] \in 0..Capacity /\ Over[g] \in 0..Capacity
<1>1. \A g \in Guard : weight[g] \in 1..Capacity /\ Over[g] \in 0..Capacity
  <2>. SUFFICES ASSUME NEW g \in Guard PROVE weight[g] \in 1..Capacity /\ Over[g] \in 0..Capacity
    OBVIOUS
  <2>1. weight[g] \in 1..Capacity /\ weight[g] \in {Charge(g), Declared(g)}
    BY DEF AdmissionInv, Types, SlotTypes
  <2>2. Charge(g) \in 1..Capacity /\ Declared(g) \in 1..Capacity /\ Charge(g) <= Declared(g) /\ Capacity \in Nat
    BY Asked DEF AdmissionInv, Types, PlaceTypes
  <2>. QED
    BY <2>1, <2>2 DEF Over
<1>2. elastic \subseteq Guard /\ ToSet(running) \subseteq Guard
  BY DEF AdmissionInv, Types, SetTypes, ListTypes, Ordered, ToSet
<1>3. Capacity \in Nat
  BY GuardAssumption
<1>. QED
  BY <1>1, <1>2, <1>3 DEF InSlots

(* A step of g registers g only if its bound held when it was read.        *)
LEMMA StepRegisters ==
  ASSUME AdmissionInv, NEW g \in Guard, Step(g)
  PROVE  /\ \/ elastic' \subseteq elastic /\ ToSet(running') \subseteq ToSet(running)
            \/ /\ fits[g] = TRUE /\ fits'[g] = FALSE
               /\ elastic' = elastic \cup (IF g \in Elastic THEN {g} ELSE {})
               /\ ToSet(running') = ToSet(running) \cup (IF Overcommits(g) THEN {g} ELSE {})
               /\ weight' = weight
         /\ \A h \in elastic' : weight'[h] = weight[h]
         /\ \A h \in ToSet(running') : weight'[h] = weight[h]
         /\ fits'[g] = TRUE => /\ UNCHANGED <<weight, elastic, running>>
                               /\ Fits(g) \/ fits[g] = TRUE
<1>0. /\ MyOK(g) /\ Moves(g) /\ PlaceTypes /\ SlotTypes /\ LockTypes /\ ListTypes /\ SetTypes
      /\ \A h \in Guard \ {g} : Leaves(g, h)
  BY StepMoves, MovesLeaveOthers DEF AdmissionInv, Types
<1>1. /\ ToSet(Without(running, g)) = ToSet(running) \ {g}
      /\ g \notin ToSet(running) => ToSet(Append(running, g)) = ToSet(running) \cup {g}
  BY <1>0, WithOne, WithoutOne DEF ListTypes
<1>2. elastic \subseteq Guard /\ ToSet(running) \subseteq Guard
  BY <1>0 DEF SetTypes, ListTypes, Ordered, ToSet
<1>3. fits[g] = TRUE \/ fits[g] = FALSE
  BY <1>0 DEF LockTypes
<1>4. CASE UNCHANGED <<elastic, running>> /\ (g \in elastic => weight' = weight) /\ (g \in ToSet(running) => weight' = weight)
  <2>1. /\ \A h \in elastic' : weight'[h] = weight[h]
        /\ \A h \in ToSet(running') : weight'[h] = weight[h]
    BY <1>0, <1>2, <1>4 DEF Leaves
  <2>2. fits'[g] = TRUE => UNCHANGED weight /\ (Fits(g) \/ fits[g] = TRUE)
    BY <1>0, BackgroundTakes
    DEF LockTypes, Step, Acquire, Start, StartWithout, TakeWs, Wait, NoRoom, Enqueue, TakeLifeline, LineUp, TakeQueue,
        LookToBackfill, ScanToBackfill, Backfill, TakeMain, CheckTurn, Scan, ScanExclusive, TakeRegister, Admit,
        GiveBack, LookInBackground, AdmitInBackground, RampGrows, GiveUp, Spawn, Preempt, OverCharge, RunAgain,
        Finish, Leave, MyOK, LocksOK, local
  <2>. QED
    BY <1>4, <2>1, <2>2
<1>5. CASE Registered(g) /\ fits[g] = TRUE /\ fits' = [fits EXCEPT ![g] = FALSE] /\ weight' = weight
           /\ pc[g] \in {"scanned", "register", "bgTaken"}
  <2>1. g \notin ToSet(running) /\ fits'[g] = FALSE
    BY <1>0, <1>5 DEF MyOK, RegisteredOK, LockTypes
  <2>. QED
    BY <1>1, <1>5, <2>1 DEF Registered
<1>6. CASE running' = Without(running, g) /\ elastic' = elastic /\ weight' = weight /\ UNCHANGED fits /\ pc[g] = "run"
  BY <1>0, <1>1, <1>6 DEF MyOK, LocksOK
<1>7. CASE Leave(g)
  <2>1. elastic' = elastic \ {g} /\ running' = Without(running, g) /\ fits'[g] = FALSE
    BY <1>0, <1>7 DEF Leave, LockTypes
  <2>2. /\ \A h \in elastic' : weight'[h] = weight[h]
        /\ \A h \in ToSet(running') : weight'[h] = weight[h]
    BY <1>0, <1>1, <1>2, <2>1 DEF Leaves
  <2>. QED
    BY <1>1, <2>1, <2>2
<1>8. /\ g \in elastic => pc[g] \in Admitted
      /\ g \in ToSet(running) => pc[g] \in {"granted", "run"}
  BY <1>0 DEF MyOK, RegisteredOK
<1>. QED
  BY <1>3, <1>4, <1>5, <1>6, <1>7, <1>8
  DEF Step, Acquire, Start, StartWithout, TakeWs, Wait, NoRoom, Enqueue, TakeLifeline, LineUp, TakeQueue,
      LookToBackfill, ScanToBackfill, Backfill, TakeMain, CheckTurn, Scan, ScanExclusive, TakeRegister, Admit,
      GiveBack, LookInBackground, TakeInBackground, AdmitInBackground, RampGrows, GiveUp, Spawn, Preempt, OverCharge,
      RunAgain, Finish, Admitted, entries, local

LEMMA SumsBounded ==
  ASSUME AdmissionInv
  PROVE  /\ Bases \in Nat /\ Bases <= Capacity - Process
         /\ Excess \in Nat /\ 2 * Excess <= Capacity
         /\ Capacity \in Nat /\ Process \in Nat
BY RegistriesTyped, ExcessIsOver, SumIsNat, GuardAssumption DEF AdmissionInv, Bounds, Bases

(* What is registered is never charged less than it was.                   *)
LEMMA StepSums ==
  ASSUME AdmissionInv, NEW g \in Guard, Step(g)
  PROVE  /\ Bases' \in Nat /\ Bases' <= Capacity - Process
         /\ Excess' \in Nat /\ 2 * Excess' <= Capacity
         /\ elastic' \subseteq elastic /\ ToSet(running') \subseteq ToSet(running) => Bases' <= Bases /\ Excess' <= Excess
<1>. DEFINE over == [h \in Guard |-> Declared(h) - weight'[h]]
<1>0. /\ InSlots(weight, elastic) /\ InSlots(Over, ToSet(running))
      /\ \A h \in Guard : weight[h] \in 0..Capacity /\ Over[h] \in 0..Capacity
      /\ Bases \in Nat /\ Bases <= Capacity - Process
      /\ Excess \in Nat /\ 2 * Excess <= Capacity
      /\ Capacity \in Nat /\ Process \in Nat
      /\ elastic \subseteq Guard /\ ToSet(running) \subseteq Guard
  BY RegistriesTyped, SumsBounded DEF InSlots
<1>1. UNCHANGED cast
  BY StepMoves DEF Moves, MovesPlace
<1>2. Excess' = Sum(over, ToSet(running'))
  <2>1. \A h \in Guard : Declared(h)' = Declared(h)
    BY <1>1, AsksStay
  <2>. QED
    BY <2>1 DEF Excess
<1>3. /\ \A h \in elastic' : weight'[h] = weight[h]
      /\ \A h \in ToSet(running') : weight'[h] = weight[h]
  BY StepRegisters
<1>4. elastic' \subseteq Guard /\ ToSet(running') \subseteq Guard
  BY StepMoves, MovesKeepTypes DEF Types, SetTypes, ListTypes, Ordered, ToSet
<1>5. /\ InSlots(weight', elastic') /\ InSlots(over, ToSet(running')) /\ \A h \in ToSet(running') : over[h] = Over[h]
  BY <1>0, <1>3, <1>4 DEF InSlots, Over
<1>. HIDE DEF over
<1>6. Bases' \in Nat /\ Excess' \in Nat /\ Bases' = Sum(weight', elastic')
  BY <1>2, <1>5, SumIsNat DEF Bases
<1>7. CASE elastic' \subseteq elastic /\ ToSet(running') \subseteq ToSet(running)
  <2>1. Sum(weight', elastic') <= Sum(weight, elastic)
    BY <1>0, <1>3, <1>5, <1>7, SumGrows
  <2>2. Sum(over, ToSet(running')) <= Sum(Over, ToSet(running))
    BY <1>0, <1>5, <1>7, SumGrows
  <2>3. Bases' <= Bases /\ Excess' <= Excess
    BY <1>2, <1>6, <2>1, <2>2, ExcessIsOver DEF Bases
  <2>4. Bases' <= Capacity - Process
    BY <1>0, <1>6, <2>3
  <2>5. 2 * Excess' <= Capacity
    <3>1. \A a, b, c \in Nat : a <= b /\ 2 * b <= c => 2 * a <= c
      OBVIOUS
    <3>. QED
      BY <1>0, <1>6, <2>3, <3>1
  <2>. QED
    BY <1>6, <2>3, <2>4, <2>5
<1>8. CASE ~(elastic' \subseteq elastic /\ ToSet(running') \subseteq ToSet(running))
  <2>1. /\ fits[g] = TRUE
        /\ elastic' = elastic \cup (IF g \in Elastic THEN {g} ELSE {})
        /\ ToSet(running') = ToSet(running) \cup (IF Overcommits(g) THEN {g} ELSE {})
        /\ weight' = weight
    BY <1>8, StepRegisters
  <2>2. Fits(g) /\ g \notin elastic /\ g \notin ToSet(running)
    BY <2>1 DEF AdmissionInv, Bounds, MyOK, LocksOK, RegisteredOK, Admitted
  <2>3. Bases' <= Capacity - Process
    <3>1. CASE g \in Elastic
      <4>1. elastic' = elastic \cup {g} /\ elastic' \ {g} = elastic /\ g \in elastic'
        BY <2>1, <2>2, <3>1
      <4>2. InSlots(weight, elastic')
        BY <1>5, <2>1
      <4>3. Sum(weight, elastic') = Sum(weight, elastic) + weight[g]
        BY <4>1, <4>2, SumOut
      <4>4. weight[g] <= Capacity - Process - Bases
        BY <2>2, <3>1 DEF Fits, ElasticRoom
      <4>. QED
        BY <1>0, <1>6, <2>1, <4>3, <4>4 DEF Bases
    <3>2. CASE g \notin Elastic
      BY <1>0, <1>6, <2>1, <3>2 DEF Bases
    <3>. QED
      BY <3>1, <3>2
  <2>4. 2 * Excess' <= Capacity
    <3>1. over = Over
      BY <2>1 DEF over, Over
    <3>2. CASE Overcommits(g)
      <4>1. ToSet(running') = ToSet(running) \cup {g} /\ ToSet(running') \ {g} = ToSet(running) /\ g \in ToSet(running')
        BY <2>1, <2>2, <3>2
      <4>2. Sum(Over, ToSet(running')) = Sum(Over, ToSet(running)) + Over[g]
        BY <1>5, <3>1, <4>1, SumOut
      <4>3. 2 * (Excess + Declared(g) - weight[g]) <= Capacity /\ Over[g] = Declared(g) - weight[g]
        BY <2>2, <3>2 DEF Fits, WithinBound, Over
      <4>4. Excess' = Excess + Over[g]
        BY <1>2, <3>1, <4>2, ExcessIsOver
      <4>5. Declared(g) \in Int /\ weight[g] \in Int
        BY Asked DEF AdmissionInv, Types, PlaceTypes, SlotTypes
      <4>. QED
        BY <1>0, <4>3, <4>4, <4>5
    <3>3. CASE ~Overcommits(g)
      BY <1>0, <1>2, <2>1, <3>1, <3>3, ExcessIsOver
    <3>. QED
      BY <3>2, <3>3
  <2>. QED
    BY <1>6, <1>8, <2>3, <2>4
<1>. QED
  BY <1>7, <1>8

LEMMA StepBounds ==
  ASSUME AdmissionInv, NEW g \in Guard, Step(g)
  PROVE  Bounds'
<1>1. \A h \in Guard : fits'[h] => Fits(h)'
  <2>. SUFFICES ASSUME NEW h \in Guard, fits'[h] PROVE Fits(h)'
    OBVIOUS
  <2>1. /\ UNCHANGED cast /\ Elastic' = Elastic /\ Parts' = Parts /\ Declared(h)' = Declared(h)
        /\ fits'[h] = TRUE
    <3>1. UNCHANGED cast
      BY StepMoves DEF Moves, MovesPlace
    <3>2. fits'[h] = TRUE
      BY StepMoves, MovesKeepTypes DEF Types, LockTypes
    <3>. QED
      BY <3>1, <3>2, AsksStay
  <2>2. /\ weight[h] \in Int /\ Declared(h) \in Int
        /\ Bases \in Nat /\ Excess \in Nat /\ Bases' \in Nat /\ Excess' \in Nat /\ Capacity \in Nat /\ Process \in Nat
    BY Asked, SumsBounded, StepSums DEF AdmissionInv, Types, PlaceTypes, SlotTypes
  <2>3. Fits(h) /\ weight'[h] = weight[h] /\ Bases' <= Bases /\ Excess' <= Excess
    <3>1. CASE h # g
      <4>1. fits[h] = TRUE /\ weight'[h] = weight[h]
        BY <2>1, <3>1, StepMoves, MovesLeaveOthers DEF Leaves
      <4>2. fits[g] # TRUE
        BY <3>1, <4>1 DEF AdmissionInv, MyOK, LocksOK
      <4>3. Fits(h)
        BY <4>1 DEF AdmissionInv, Bounds
      <4>4. elastic' \subseteq elastic /\ ToSet(running') \subseteq ToSet(running)
        BY <4>2, StepRegisters
      <4>. QED
        BY <4>1, <4>3, <4>4, StepSums
    <3>2. CASE h = g
      <4>1. UNCHANGED <<weight, elastic, running>> /\ (Fits(g) \/ fits[g] = TRUE)
        BY <2>1, <3>2, StepRegisters
      <4>2. Fits(g)
        BY <4>1 DEF AdmissionInv, Bounds
      <4>3. elastic' \subseteq elastic /\ ToSet(running') \subseteq ToSet(running)
        BY <4>1
      <4>4. Bases' <= Bases /\ Excess' <= Excess
        BY <4>3, StepSums
      <4>. QED
        BY <3>2, <4>1, <4>2, <4>4
    <3>. QED
      BY <3>1, <3>2
  <2>4. h \in Elastic => weight'[h] <= Capacity - Process - Bases'
    BY <2>2, <2>3 DEF Fits, ElasticRoom
  <2>5. Overcommits(h)' => 2 * (Excess' + Declared(h) - weight'[h]) <= Capacity
    <3>1. Overcommits(h)' => Overcommits(h)
      BY <2>1, <2>3 DEF Overcommits
    <3>. QED
      BY <2>2, <2>3, <3>1 DEF Fits, WithinBound
  <2>. QED
    BY <2>1, <2>4, <2>5 DEF Fits, ElasticRoom, WithinBound
<1>. QED
  BY <1>1, StepHeld, StepSums DEF Bounds

-----------------------------------------------------------------------------
(* The invariant.                                                          *)

LEMMA AdmissionStarts == Init => AdmissionInv
<1>. SUFFICES ASSUME Init PROVE AdmissionInv
  OBVIOUS
<1>0. /\ Capacity \in Nat /\ Process \in 1..Capacity /\ NoGuard \notin Guard
      /\ cast \in Scenario
      /\ \A g \in Guard : /\ Lane(g) \in Lanes /\ Charge(g) \in 1..Capacity
                          /\ Declared(g) \in 1..Capacity
  BY GuardAssumption, Asked DEF Init
<1>1. Ordered(<<>>) /\ ToSet(<<>>) = {}
  BY DEF Ordered, ToSet
<1>2. Types
  <2>1. PlaceTypes
    BY <1>0 DEF Init, PlaceTypes, Places, Lane
  <2>2. SlotTypes
    BY <1>0 DEF Init, SlotTypes
  <2>3. HeadTypes /\ LockTypes /\ ListTypes /\ SetTypes
    BY <1>0, <1>1 DEF Init, HeadTypes, LockTypes, ListTypes, SetTypes
  <2>. QED
    BY <2>1, <2>2, <2>3 DEF Types
<1>3. ASSUME NEW g \in Guard PROVE MyOK(g)
  <2>1. pc[g] \in {"out", "done"} /\ lane[g] = Lane(g) /\ held[g] = 0 /\ ramp[g] = 0 /\ heads[g] = NoEntry
        /\ fits[g] = FALSE
    BY DEF Init
  <2>2. tickets = <<>> /\ lifelines = <<>> /\ running = <<>> /\ elastic = {}
    BY DEF Init
  <2>. USE DEF Collects, Leads, Full, Taken, Admitted
  <2>3. PlaceOK(g) /\ PartOK(g)
    BY <2>1 DEF PlaceOK, PartOK
  <2>4. LocksOK(g)
    BY <2>1 DEF LocksOK
  <2>5. ApartOK(g)
    BY <2>1 DEF ApartOK
  <2>6. RegisteredOK(g) /\ TicketsOK(g)
    BY <1>1, <2>1, <2>2 DEF RegisteredOK, TicketsOK
  <2>. QED
    BY <2>3, <2>4, <2>5, <2>6 DEF MyOK
<1>4. Apart /\ Drains
  BY <1>1 DEF Init, Apart, Drains, Beyond
<1>5. Bounds
  <2>1. ASSUME NEW f, NEW S, \A g \in S : f[g] = 0 PROVE Sum(f, S) = 0
    <3>1. Slots(f, S) = {}
      BY <2>1 DEF Slots
    <3>. QED
      BY <3>1, FS_EmptySet DEF Sum
  <2>2. Sum(held, Guard) = 0 /\ Bases = 0 /\ Excess = 0
    BY <1>1, <2>1 DEF Init, Bases, Excess
  <2>. QED
    BY <1>0, <2>2 DEF Init, Bounds
<1>. QED
  BY <1>2, <1>3, <1>4, <1>5 DEF AdmissionInv

LEMMA AdmissionStays == AdmissionInv /\ [Next]_vars => AdmissionInv'
<1>1. ASSUME AdmissionInv, NEW g \in Guard, Step(g) PROVE AdmissionInv'
  BY <1>1, StepMoves, MovesKeepTypes, StepMyOK, StepApart, StepBounds, StepDrains DEF AdmissionInv
<1>2. ASSUME AdmissionInv,
             UNCHANGED <<cast, pc, locks, entries, local>>, holdoff' \in BOOLEAN
      PROVE  AdmissionInv'
  <2>. USE DEF locks, entries, local
  <2>1. UNCHANGED cast
    BY <1>2
  <2>2. /\ Elastic' = Elastic /\ Parts' = Parts
        /\ \A g \in Guard : Lane(g)' = Lane(g) /\ Declared(g)' = Declared(g) /\ Charge(g)' = Charge(g) /\ PartOf(g)' = PartOf(g)
        /\ \A g, h \in Guard : (SameWs(g, h)' <=> SameWs(g, h)) /\ (ShareWs(g, h)' <=> ShareWs(g, h))
    BY <2>1, AsksStay
  <2>3. Types'
    BY <1>2, <2>2 DEF AdmissionInv, Types, PlaceTypes, SlotTypes, HeadTypes, LockTypes, ListTypes, SetTypes
  <2>4. ASSUME NEW g \in Guard PROVE MyOK(g)'
    <3>1. MyOK(g) /\ (Overcommits(g)' <=> Overcommits(g))
      BY <1>2, <2>2 DEF AdmissionInv, Overcommits
    <3>2. PlaceOK(g)' /\ LocksOK(g)' /\ ApartOK(g)'
      BY <1>2, <2>2, <3>1 DEF MyOK, PlaceOK, LocksOK, ApartOK, Full, Taken
    <3>3. PartOK(g)' /\ RegisteredOK(g)' /\ TicketsOK(g)'
      BY <1>2, <2>2, <3>1 DEF MyOK, PartOK, RegisteredOK, TicketsOK
    <3>. QED
      BY <3>2, <3>3 DEF MyOK
  <2>5. Apart'
    BY <1>2, <2>2 DEF AdmissionInv, Types, LockTypes, Apart
  <2>6. Bounds'
    <3>1. Bases' = Bases /\ Excess' = Excess
      BY <1>2, <2>2 DEF Bases, Excess
    <3>2. \A g \in Guard : Fits(g)' <=> Fits(g)
      BY <1>2, <2>2, <3>1 DEF Fits, ElasticRoom, Overcommits, WithinBound
    <3>. QED
      BY <1>2, <3>1, <3>2 DEF AdmissionInv, Bounds
  <2>7. Drains'
    BY <1>2 DEF AdmissionInv, Drains, Beyond
  <2>. QED
    BY <2>3, <2>4, <2>5, <2>6, <2>7 DEF AdmissionInv
<1>3. ASSUME AdmissionInv, HoldoffEnds PROVE AdmissionInv'
  BY <1>2, <1>3 DEF HoldoffEnds
<1>4. ASSUME AdmissionInv, UNCHANGED vars PROVE AdmissionInv'
  BY <1>2, <1>4 DEF vars, guards, AdmissionInv, Types, LockTypes
<1>. QED
  BY <1>1, <1>3, <1>4 DEF Next, GuardsStep, Step

LEMMA AdmissionHolds == Spec => []AdmissionInv
<1>1. Init => AdmissionInv
  BY AdmissionStarts
<1>2. AdmissionInv /\ [Next]_vars => AdmissionInv'
  BY AdmissionStays
<1>. QED
  BY <1>1, <1>2, PTL DEF Spec

-----------------------------------------------------------------------------
(* What the head had when a guard looked at it: the queue is in the hands of *)
(* the one that collects, and what that one has of its reservation grows    *)
(* until it passes the queue on.                                            *)

QueuePlaced == \A g \in Guard : queue = g => pc[g] \in Leads \cup {"bgTaken"}

OwedOK(g) ==
  owed[g] > 0 =>
    /\ pc[g] \in {"backfill", "scanned"} /\ queue \in Guard \ {g}
    /\ owed[g] <= view[g].unmet + Reserved(queue)

OwedInv == owed \in [Guard -> Nat] /\ QueuePlaced /\ \A g \in Guard : OwedOK(g)

LEMMA StepQueuePlaced ==
  ASSUME AdmissionInv, QueuePlaced, NEW g \in Guard, Step(g)
  PROVE  QueuePlaced'
<1>1. Moves(g) /\ MyOK(g) /\ PlaceTypes /\ NoGuard \notin Guard
  BY StepMoves, GuardAssumption DEF AdmissionInv, Types
<1>2. ASSUME NEW h \in Guard \ {g}, queue' = h PROVE pc'[h] \in Leads \cup {"bgTaken"}
  <2>1. Leaves(g, h)
    BY <1>1, MovesLeaveOthers
  <2>2. queue = h /\ pc[h] \in Leads \cup {"bgTaken"}
    BY <1>2, <2>1 DEF QueuePlaced, Leaves
  <2>. QED
    BY <2>1, <2>2 DEF Leaves, Leads, Collects
<1>3. ASSUME queue' = g PROVE pc'[g] \in Leads \cup {"bgTaken"}
  <2>. USE DEF Goto, Leads, Collects, QueuePlaced, PlaceTypes, locks
  <2>1. CASE Start(g) \/ StartWithout(g) \/ TakeWs(g) \/ Wait(g) \/ NoRoom(g) \/ Enqueue(g) \/ LineUp(g)
    BY <1>1, <1>3, <2>1 DEF Start, StartWithout, TakeWs, Wait, NoRoom, Enqueue, LineUp
  <2>2. CASE TakeLifeline(g)
    BY <1>1, <1>3, <2>2 DEF TakeLifeline
  <2>3. CASE TakeQueue(g) \/ LookToBackfill(g) \/ ScanToBackfill(g) \/ Backfill(g)
    BY <1>1, <1>3, <2>3 DEF TakeQueue, LookToBackfill, ScanToBackfill, Backfill
  <2>4. CASE TakeMain(g) \/ CheckTurn(g) \/ Scan(g) \/ RampGrows(g) \/ TakeRegister(g)
    BY <1>1, <1>3, <2>4 DEF TakeMain, CheckTurn, Scan, RampGrows, TakeRegister
  <2>5. CASE ScanExclusive(g) \/ GiveBack(g) \/ Admit(g)
    BY <1>1, <1>3, <2>5 DEF ScanExclusive, GiveBack, Admit
  <2>6. CASE LookInBackground(g) \/ AdmitInBackground(g) \/ TakeInBackground(g)
    BY <1>1, <1>3, <2>6 DEF LookInBackground, AdmitInBackground, TakeInBackground
  <2>7. CASE Spawn(g) \/ Preempt(g) \/ OverCharge(g)
    BY <1>1, <1>3, <2>7 DEF Spawn, Preempt, OverCharge
  <2>8. CASE RunAgain(g) \/ GiveUp(g) \/ Finish(g)
    BY <1>1, <1>3, <2>8 DEF RunAgain, GiveUp, Finish, Leave
  <2>. QED
    BY <2>1, <2>2, <2>3, <2>4, <2>5, <2>6, <2>7, <2>8 DEF Step, Acquire
<1>. QED
  BY <1>2, <1>3 DEF QueuePlaced

LEMMA ReservedIs ==
  ASSUME AdmissionInv, NEW h \in Guard
  PROVE  /\ held[h] \in Nat /\ ramp[h] \in Nat /\ Reserved(h) \in Nat
         /\ Reserved(h) = IF held[h] <= ramp[h] THEN held[h] ELSE ramp[h]
<1>1. held[h] \in Nat /\ ramp[h] \in Nat
  BY GuardAssumption DEF AdmissionInv, Types, SlotTypes
<1>2. Reserved(h) = IF held[h] <= ramp[h] THEN held[h] ELSE ramp[h]
  BY <1>1, MinOfTwo DEF Reserved
<1>. QED
  BY <1>1, <1>2

LEMMA ReservedIsNext ==
  ASSUME AdmissionInv', NEW h \in Guard
  PROVE  /\ held'[h] \in Nat /\ ramp'[h] \in Nat /\ Reserved(h)' \in Nat
         /\ Reserved(h)' = IF held'[h] <= ramp'[h] THEN held'[h] ELSE ramp'[h]
<1>1. held'[h] \in Nat /\ ramp'[h] \in Nat
  BY GuardAssumption DEF AdmissionInv, Types, SlotTypes
<1>2. Reserved(h)' = IF held'[h] <= ramp'[h] THEN held'[h] ELSE ramp'[h]
  BY <1>1, MinOfTwo DEF Reserved
<1>. QED
  BY <1>1, <1>2

(* A head that scans has no less of its reservation than before.           *)
LEMMA ScanKeeps ==
  ASSUME AdmissionInv, NEW g \in Guard, Scan(g)
  PROVE  ramp' = ramp /\ (held'[g] >= held[g] \/ held'[g] >= ramp[g])
<1>. DEFINE got == Min({weight[g], held[g] + Free})
            keep == Min({got, ramp[g]})
<1>1. /\ weight[g] \in Nat /\ held[g] \in Nat /\ ramp[g] \in Nat /\ ramp[g] <= weight[g]
      /\ held \in [Guard -> 0..Capacity] /\ Capacity \in Nat
  BY GuardAssumption DEF AdmissionInv, Types, SlotTypes
<1>2. Free \in Nat
  BY FreeIsNat, GuardAssumption
<1>3. got = IF weight[g] <= held[g] + Free THEN weight[g] ELSE held[g] + Free
  BY <1>1, <1>2, MinOfTwo
<1>4. got \in Nat /\ (got >= held[g] \/ got >= ramp[g])
  BY <1>1, <1>2, <1>3
<1>5. ramp' = ramp /\ (held' = [held EXCEPT ![g] = got] \/ held' = [held EXCEPT ![g] = keep])
  BY DEF Scan, local
<1>. HIDE DEF got
<1>6. keep = IF got <= ramp[g] THEN got ELSE ramp[g]
  BY <1>1, <1>4, MinOfTwo
<1>7. keep >= held[g] \/ keep >= ramp[g]
  BY <1>1, <1>4, <1>6
<1>. HIDE DEF keep
<1>8. held'[g] = got \/ held'[g] = keep
  BY <1>1, <1>5
<1>. QED
  BY <1>4, <1>5, <1>7, <1>8

LEMMA ReservedGrows ==
  ASSUME AdmissionInv, AdmissionInv', QueuePlaced, NEW g \in Guard, Step(g), NEW h \in Guard, queue = h, queue' = h
  PROVE  Reserved(h)' >= Reserved(h)
<1>1. Moves(g) /\ PlaceTypes /\ SlotTypes /\ NoGuard \notin Guard
  BY StepMoves, GuardAssumption DEF AdmissionInv, Types
<1>2. /\ held[h] \in Nat /\ ramp[h] \in Nat /\ Reserved(h) \in Nat
      /\ Reserved(h) = IF held[h] <= ramp[h] THEN held[h] ELSE ramp[h]
  BY ReservedIs
<1>3. /\ held'[h] \in Nat /\ ramp'[h] \in Nat /\ Reserved(h)' \in Nat
      /\ Reserved(h)' = IF held'[h] <= ramp'[h] THEN held'[h] ELSE ramp'[h]
  BY ReservedIsNext
<1>4. CASE h # g
  <2>1. held'[h] = held[h] /\ ramp'[h] = ramp[h]
    BY <1>1, <1>4, MovesLeaveOthers DEF Leaves
  <2>. QED
    BY <1>2, <1>3, <2>1
<1>5. CASE h = g /\ Scan(g)
  <2>1. ramp'[h] = ramp[h] /\ (held'[h] >= held[h] \/ held'[h] >= ramp[h])
    BY <1>5, ScanKeeps
  <2>. QED
    BY <1>2, <1>3, <2>1
<1>6. CASE h = g /\ RampGrows(g)
  <2>1. ramp'[h] = ramp[h] + 1 /\ held'[h] = held[h]
    BY <1>1, <1>6 DEF RampGrows, locks, SlotTypes
  <2>. QED
    BY <1>2, <1>3, <2>1
<1>7. CASE h = g /\ ~Scan(g) /\ ~RampGrows(g)
  <2>1. pc[g] \in Leads \cup {"bgTaken"}
    BY <1>7 DEF QueuePlaced
  <2>2. UNCHANGED <<held, ramp>>
    <3>. USE DEF Leads, Collects, locks, local
    <3>1. ~Start(g) /\ ~StartWithout(g) /\ ~TakeWs(g) /\ ~NoRoom(g) /\ ~Enqueue(g) /\ ~LineUp(g) /\ ~TakeQueue(g)
      BY <2>1 DEF Start, StartWithout, TakeWs, NoRoom, Enqueue, LineUp, TakeQueue
    <3>2. ~LookToBackfill(g) /\ ~ScanToBackfill(g) /\ ~Backfill(g) /\ ~LookInBackground(g) /\ ~TakeInBackground(g)
      BY <2>1 DEF LookToBackfill, ScanToBackfill, Backfill, LookInBackground, TakeInBackground
    <3>3. ~Spawn(g) /\ ~Preempt(g) /\ ~OverCharge(g) /\ ~RunAgain(g) /\ ~Finish(g)
      BY <2>1 DEF Spawn, Preempt, OverCharge, RunAgain, Finish
    <3>4. ~GiveBack(g) /\ ~AdmitInBackground(g) /\ ~GiveUp(g)
      BY <1>1, <1>7 DEF GiveBack, AdmitInBackground, GiveUp, Leave
    <3>5. CASE Wait(g) \/ TakeLifeline(g) \/ TakeMain(g) \/ CheckTurn(g) \/ TakeRegister(g)
      BY <3>5 DEF Wait, TakeLifeline, TakeMain, CheckTurn, TakeRegister
    <3>6. CASE ScanExclusive(g) \/ Admit(g)
      BY <3>6 DEF ScanExclusive, Admit
    <3>. QED
      BY <1>7, <3>1, <3>2, <3>3, <3>4, <3>5, <3>6 DEF Step, Acquire
  <2>. QED
    BY <1>2, <1>3, <2>2
<1>. QED
  BY <1>4, <1>5, <1>6, <1>7

(* The guard that looks at a head remembers what that one has and lacks.   *)
LEMMA LookRemembers ==
  ASSUME AdmissionInv, AdmissionInv', QueuePlaced, NEW g \in Guard, Step(g), pc[g] = "queue", pc'[g] = "backfill"
  PROVE  /\ HeadUnmet \in Nat /\ view'[g].unmet = HeadUnmet
         /\ queue' = queue /\ queue \in Guard \ {g} /\ Reserved(queue)' = Reserved(queue)
<1>1. LookToBackfill(g)
  BY DEF AdmissionInv, Types, PlaceTypes, Step, Acquire, Start, StartWithout, TakeWs, Wait, NoRoom, Enqueue, TakeLifeline,
        LineUp, TakeQueue, ScanToBackfill, Backfill, TakeMain, CheckTurn, Scan, ScanExclusive,
        TakeRegister, Admit, GiveBack, LookInBackground, TakeInBackground, AdmitInBackground, RampGrows, GiveUp, Spawn,
        Preempt, OverCharge, RunAgain, Finish, Ended, Goto
<1>2. /\ HeadNeed > 0 /\ view \in [Guard -> Entry \cup {NoEntry}]
      /\ view' = [view EXCEPT ![g] = [unmet |-> HeadUnmet, need |-> HeadNeed]]
      /\ UNCHANGED <<held, ramp, queue>>
  BY <1>1 DEF LookToBackfill, locks, AdmissionInv, Types, HeadTypes
<1>3. [unmet |-> HeadUnmet, need |-> HeadNeed] \in Entry
  BY <1>2, HeadIsRead
<1>4. HeadUnmet \in Nat
  BY <1>3, GuardAssumption DEF Entry
<1>5. view'[g].unmet = HeadUnmet
  BY <1>2
<1>6. PICK q \in Guard : heads[q] # NoEntry
  BY <1>2 DEF HeadNeed
<1>7. queue = q
  BY <1>6 DEF AdmissionInv, MyOK, LocksOK, Leads
<1>8. queue # g
  BY DEF QueuePlaced, Leads, Collects
<1>9. Reserved(queue)' = Reserved(queue)
  BY <1>2 DEF Reserved
<1>. QED
  BY <1>2, <1>4, <1>5, <1>6, <1>7, <1>8, <1>9

(* Between the look and the attempt a guard keeps what it has read.        *)
LEMMA LookStays ==
  ASSUME AdmissionInv, NEW g \in Guard, NEW k \in Guard, Step(k),
         pc[g] \in {"backfill", "scanned"}, pc'[g] \in {"backfill", "scanned"}
  PROVE  view'[g] = view[g]
<1>1. CASE k # g
  BY <1>1, StepMoves, MovesLeaveOthers DEF Leaves
<1>2. CASE k = g
  <2>1. PlaceTypes
    BY DEF AdmissionInv, Types
  <2>2. CASE ScanToBackfill(g) \/ Backfill(g)
    BY <2>1, <2>2 DEF ScanToBackfill, Backfill, Goto, PlaceTypes
  <2>3. CASE ~ScanToBackfill(g) /\ ~Backfill(g)
    BY <1>2, <2>1, <2>3
    DEF PlaceTypes, Step, Acquire, Start, StartWithout, TakeWs, Wait, NoRoom, Enqueue, TakeLifeline,
        LineUp, TakeQueue, LookToBackfill, TakeMain, CheckTurn, Scan, ScanExclusive,
        TakeRegister, Admit, GiveBack, LookInBackground, TakeInBackground, AdmitInBackground, RampGrows, GiveUp, Spawn,
        Preempt, OverCharge, RunAgain, Finish, Ended, Goto, Waits, local
  <2>. QED
    BY <2>2, <2>3
<1>. QED
  BY <1>1, <1>2

LEMMA StepOwed ==
  ASSUME AdmissionInv, AdmissionInv', OwedInv, NEW k \in Guard, Step(k), Remembers
  PROVE  OwedInv'
<1>1. QueuePlaced'
  BY StepQueuePlaced DEF OwedInv
<1>2. ASSUME NEW g \in Guard PROVE owed'[g] \in Nat /\ OwedOK(g)'
  <2>1. CASE pc[g] = "queue" /\ pc'[g] = "backfill"
    <3>1. k = g
      BY <2>1, StepMoves DEF Moves, MovesPlace
    <3>2. /\ HeadUnmet \in Nat /\ view'[g].unmet = HeadUnmet
          /\ queue' = queue /\ queue \in Guard \ {g} /\ Reserved(queue)' = Reserved(queue)
      BY <2>1, <3>1, LookRemembers DEF OwedInv
    <3>3. owed'[g] = HeadUnmet + Reserved(queue)
      BY <2>1 DEF Remembers
    <3>4. Reserved(queue) \in Nat
      BY <3>2, ReservedIs
    <3>. QED
      BY <2>1, <3>2, <3>3, <3>4 DEF OwedOK
  <2>2. CASE ~(pc[g] = "queue" /\ pc'[g] = "backfill") /\ queue' = queue /\ pc'[g] \in {"backfill", "scanned"}
    <3>1. owed'[g] = owed[g] /\ owed[g] \in Nat /\ OwedOK(g)
      BY <2>2 DEF Remembers, OwedInv
    <3>2. CASE owed[g] > 0
      <4>1. pc[g] \in {"backfill", "scanned"} /\ queue \in Guard \ {g} /\ owed[g] <= view[g].unmet + Reserved(queue)
        BY <3>1, <3>2 DEF OwedOK
      <4>2. view'[g] = view[g]
        BY <2>2, <4>1, LookStays
      <4>3. \A h \in Guard : queue = h => Reserved(h)' >= Reserved(h)
        BY <2>2, ReservedGrows DEF OwedInv
      <4>4. \A h \in Guard : queue = h => Reserved(queue)' = Reserved(h)' /\ Reserved(queue) = Reserved(h)
        BY <2>2 DEF Reserved
      <4>5. view[g].unmet \in Nat
        BY <4>1, GuardAssumption DEF AdmissionInv, MyOK, PlaceOK, Entry
      <4>6. Reserved(queue) \in Nat /\ Reserved(queue)' \in Nat /\ Reserved(queue)' >= Reserved(queue)
        BY <4>1, <4>3, <4>4, ReservedIs, ReservedIsNext
      <4>7. owed'[g] <= view'[g].unmet + Reserved(queue)'
        BY <3>1, <4>1, <4>2, <4>5, <4>6
      <4>. QED
        BY <2>2, <3>1, <4>1, <4>7 DEF OwedOK
    <3>3. CASE ~(owed[g] > 0)
      BY <3>1, <3>3 DEF OwedOK
    <3>. QED
      BY <3>1, <3>2, <3>3
  <2>3. CASE ~(pc[g] = "queue" /\ pc'[g] = "backfill") /\ ~(queue' = queue /\ pc'[g] \in {"backfill", "scanned"})
    <3>1. owed'[g] = 0
      BY <2>3 DEF Remembers
    <3>. QED
      BY <3>1 DEF OwedOK
  <2>. QED
    BY <2>1, <2>2, <2>3
<1>3. owed' \in [Guard -> Nat]
  <2>1. owed' = [g \in Guard |-> owed'[g]]
    BY DEF Remembers
  <2>. QED
    BY <1>2, <2>1
<1>. QED
  BY <1>1, <1>2, <1>3 DEF OwedInv

LEMMA OwedHolds == Spec => []OwedInv
<1>1. Init => OwedInv
  <2>. SUFFICES ASSUME Init PROVE OwedInv
    OBVIOUS
  <2>1. owed \in [Guard -> Nat] /\ (\A g \in Guard : owed[g] = 0) /\ queue = NoGuard /\ NoGuard \notin Guard
    BY GuardAssumption DEF Init
  <2>. QED
    BY <2>1 DEF OwedInv, OwedOK, QueuePlaced
<1>2. AdmissionInv /\ AdmissionInv' /\ OwedInv /\ [Next]_vars => OwedInv'
  <2>1. ASSUME AdmissionInv, AdmissionInv', OwedInv, NEW k \in Guard, Step(k), Remembers PROVE OwedInv'
    BY <2>1, StepOwed
  <2>2. ASSUME OwedInv, UNCHANGED <<pc, locks, local>>, owed' \in [Guard -> Nat], \A g \in Guard : owed'[g] \in {owed[g], 0}
        PROVE  OwedInv'
    <3>1. UNCHANGED <<pc, queue, held, ramp, view>>
      BY <2>2 DEF locks, local
    <3>2. QueuePlaced'
      BY <2>2, <3>1 DEF OwedInv, QueuePlaced
    <3>3. ASSUME NEW g \in Guard PROVE OwedOK(g)'
      <4>1. OwedOK(g) /\ owed'[g] \in {owed[g], 0} /\ Reserved(queue)' = Reserved(queue)
        BY <2>2, <3>1 DEF OwedInv, Reserved
      <4>. QED
        BY <3>1, <4>1 DEF OwedOK
    <3>. QED
      BY <2>2, <3>2, <3>3 DEF OwedInv
  <2>3. ASSUME OwedInv, HoldoffEnds, Remembers PROVE OwedInv'
    <3>1. UNCHANGED <<pc, queue>>
      BY <2>3 DEF HoldoffEnds, locks
    <3>2. owed \in [Guard -> Nat] /\ \A g \in Guard : owed'[g] \in {owed[g], 0}
      BY <2>3, <3>1 DEF Remembers, OwedInv
    <3>3. owed' = [g \in Guard |-> owed'[g]]
      BY <2>3 DEF Remembers
    <3>4. owed' \in [Guard -> Nat]
      BY <3>2, <3>3
    <3>. QED
      BY <2>2, <2>3, <3>2, <3>4 DEF HoldoffEnds
  <2>4. ASSUME OwedInv, UNCHANGED vars PROVE OwedInv'
    <3>1. UNCHANGED <<pc, locks, local, owed>>
      BY <2>4 DEF vars, guards
    <3>. QED
      BY <2>2, <2>4, <3>1 DEF OwedInv
  <2>. QED
    BY <2>1, <2>3, <2>4 DEF Next, GuardsStep, Step
<1>. QED
  BY <1>1, <1>2, AdmissionHolds, PTL DEF Spec

-----------------------------------------------------------------------------
(* What the invariant says of the admitted workloads.                      *)

LEMMA InvType == AdmissionInv /\ OwedInv => TypeOK
<1>. SUFFICES ASSUME AdmissionInv, OwedInv PROVE TypeOK
  OBVIOUS
<1>0. PlaceTypes /\ SlotTypes /\ HeadTypes /\ LockTypes /\ ListTypes /\ SetTypes /\ Capacity \in Nat
  BY GuardAssumption DEF AdmissionInv, Types
<1>1. UNION {ToSet(s) : s \in {tickets, lifelines, line, running}} \subseteq Guard
  <2>1. \A s : Ordered(s) => ToSet(s) \subseteq Guard
    BY DEF Ordered, ToSet
  <2>. QED
    BY <1>0, <2>1 DEF ListTypes
<1>2. \A g \in Guard : heads[g] # NoEntry => 0 <= heads[g].unmet /\ heads[g].unmet <= heads[g].need
  <2>. SUFFICES ASSUME NEW g \in Guard, heads[g] # NoEntry
                PROVE  0 <= heads[g].unmet /\ heads[g].unmet <= heads[g].need
    OBVIOUS
  <2>1. heads[g] \in Entry
    BY <1>0 DEF HeadTypes
  <2>. QED
    BY <1>0, <2>1 DEF Entry
<1>3. UNION {ws, main, waiting, fresh, elastic, leaves, lifeline} \subseteq Guard
  BY <1>0 DEF LockTypes, SetTypes
<1>4. {ahead, past} \subseteq [Guard -> SUBSET Guard] /\ {queue, register} \subseteq Guard \cup {NoGuard}
  BY <1>0 DEF LockTypes, SetTypes
<1>. QED
  BY <1>0, <1>1, <1>2, <1>3, <1>4 DEF TypeOK, OwedInv, PlaceTypes, SlotTypes, LockTypes

LEMMA InvDeclared == AdmissionInv => DeclaredBound
<1>. SUFFICES ASSUME AdmissionInv PROVE DeclaredBound
  OBVIOUS
<1>. DEFINE up == {g \in Guard : pc[g] \in {"granted", "run"} /\ Lane(g) # "exclusive"}
            d == [g \in Guard |-> IF g \in Parts THEN weight[g] ELSE Declared(g)]
            e == [g \in Guard |-> IF g \in ToSet(running) THEN Over[g] ELSE 0]
<1>0. /\ InSlots(held, Guard) /\ Sum(held, Guard) \in Nat /\ Sum(held, Guard) <= Capacity
      /\ InSlots(Over, ToSet(running)) /\ \A g \in Guard : weight[g] \in 0..Capacity /\ Over[g] \in 0..Capacity
      /\ Excess \in Nat /\ 2 * Excess <= Capacity /\ Capacity \in Nat
  BY FreeIsNat, RegistriesTyped, SumsBounded DEF AdmissionInv, Bounds
<1>1. ASSUME NEW g \in up
      PROVE  d[g] \in 0..Capacity /\ d[g] <= held[g] + e[g]
  <2>1. held[g] = weight[g]
    BY DEF AdmissionInv, MyOK, LocksOK, Full, Admitted
  <2>2. /\ Declared(g) \in 1..Capacity
        /\ weight[g] \in {Charge(g), Declared(g)} /\ Charge(g) <= Declared(g)
        /\ g \in Elastic => Charge(g) = Declared(g)
    BY Asked DEF AdmissionInv, Types, PlaceTypes, SlotTypes
  <2>3. weight[g] \in 0..Capacity /\ Over[g] = Declared(g) - weight[g] /\ Over[g] \in 0..Capacity
    BY <1>0 DEF Over
  <2>4. g \in ToSet(running) <=> Overcommits(g)
    BY DEF AdmissionInv, MyOK, RegisteredOK
  <2>5. CASE g \in Parts
    BY <1>0, <2>1, <2>3, <2>5
  <2>6. CASE g \notin Parts /\ Overcommits(g)
    BY <1>0, <2>1, <2>2, <2>3, <2>4, <2>6
  <2>7. CASE g \notin Parts /\ ~Overcommits(g)
    <3>1. weight[g] = Declared(g)
      BY <1>0, <2>2, <2>3, <2>7 DEF Overcommits
    <3>. QED
      BY <1>0, <2>1, <2>2, <2>3, <2>4, <2>7, <3>1
  <2>. QED
    BY <2>5, <2>6, <2>7
<1>2. InSlots(d, up) /\ InSlots(held, up) /\ InSlots(e, up)
  BY <1>0, <1>1 DEF InSlots
<1>3. Sum(d, up) \in Nat /\ Sum(held, up) \in Nat /\ Sum(e, up) \in Nat
  <2>. HIDE DEF d, e, up
  <2>. QED
    BY <1>2, SumIsNat
<1>4. Sum(d, up) <= Sum(held, up) + Sum(e, up)
  <2>. HIDE DEF d, e
  <2>. QED
    BY <1>1, <1>2, SumSplits
<1>5. Sum(held, up) <= Sum(held, Guard)
  BY <1>0, <1>2, SumGrows DEF InSlots
<1>6. Sum(e, up) <= Excess
  <2>1. \A g \in up : e[g] = 0 \/ (g \in ToSet(running) /\ e[g] <= Over[g])
    BY <1>0
  <2>. HIDE DEF e, up
  <2>. QED
    BY <1>0, <1>2, <2>1, SumWithin, ExcessIsOver
<1>. HIDE DEF d, e, up
<1>7. 2 * Sum(d, up) <= 3 * Capacity
  BY <1>0, <1>3, <1>4, <1>5, <1>6
<1>. QED
  BY <1>7 DEF DeclaredBound, d, up

LEMMA InvBudget == AdmissionInv => BudgetKept
<1>. SUFFICES ASSUME AdmissionInv PROVE BudgetKept
  OBVIOUS
<1>1. ChargeHeld
  <2>1. Free >= 0
    BY FreeIsNat, GuardAssumption
  <2>2. ASSUME NEW g \in Guard, pc[g] \in {"granted", "run"}, Lane(g) # "exclusive"
        PROVE  held[g] = weight[g] /\ (weight[g] = Declared(g) \/ g \in ToSet(running) \/ g \in Parts)
    <3>1. held[g] = weight[g]
      BY <2>2 DEF AdmissionInv, MyOK, LocksOK, Full, Admitted
    <3>2. /\ Declared(g) \in Nat /\ weight[g] \in Nat
          /\ weight[g] \in {Charge(g), Declared(g)} /\ Charge(g) <= Declared(g)
          /\ g \in Elastic => Charge(g) = Declared(g)
      BY Asked DEF AdmissionInv, Types, PlaceTypes, SlotTypes
    <3>3. Overcommits(g) => g \in ToSet(running)
      BY <2>2 DEF AdmissionInv, MyOK, RegisteredOK
    <3>. QED
      BY <3>1, <3>2, <3>3 DEF Overcommits
  <2>. QED
    BY <2>1, <2>2 DEF ChargeHeld
<1>2. HeadHoldsQueue
  <2>. SUFFICES ASSUME NEW g \in Guard
                PROVE  /\ heads[g] # NoEntry => queue = g
                       /\ pc[g] \in Waits \ {"scanned", "bgTaken"} /\ held[g] > 0 => queue = g
    BY DEF HeadHoldsQueue
  <2>1. LocksOK(g) /\ held[g] \in Int
    BY GuardAssumption DEF AdmissionInv, MyOK, Types, SlotTypes
  <2>2. \A p \in Waits : p \notin Admitted
    BY DEF Waits, Admitted
  <2>. QED
    BY <2>1, <2>2 DEF LocksOK, Leads
<1>3. PartsHaveRoom
  <2>1. {g \in Elastic : pc[g] \in Admitted} = elastic
    BY DEF AdmissionInv, Types, SetTypes, MyOK, RegisteredOK, Elastic
  <2>2. \A g \in elastic : held[g] = weight[g]
    <3>. SUFFICES ASSUME NEW g \in elastic PROVE held[g] = weight[g]
      OBVIOUS
    <3>1. g \in Guard /\ g \in Elastic /\ pc[g] \in Admitted
      BY <2>1 DEF Elastic
    <3>2. Lane(g) # "exclusive"
      BY <3>1, Asked DEF AdmissionInv, Types, PlaceTypes
    <3>. QED
      BY <3>1, <3>2 DEF AdmissionInv, MyOK, LocksOK, Full
  <2>3. Sum(held, elastic) = Bases
    BY <2>2, SumSame DEF Bases
  <2>. QED
    BY <2>1, <2>3, SumsBounded DEF PartsHaveRoom
<1>. QED
  BY <1>1, <1>2, <1>3, InvDeclared DEF BudgetKept

LEMMA InvApart == AdmissionInv => WorkloadsApart
<1>. SUFFICES ASSUME AdmissionInv, NEW g \in Guard, NEW h \in Guard,
                     pc[g] \in Admitted, pc[h] \in Admitted, g # h
              PROVE  /\ Lane(g) # "exclusive"
                     /\ SameWs(g, h) =>
                          \/ ShareWs(g, h)
                          \/ \E e \in elastic : {g, h} \subseteq {e} \cup {p \in Parts : PartOf(p) = e}
  BY DEF WorkloadsApart
<1>. DEFINE base(k) == IF k \in Parts THEN PartOf(k) ELSE k
<1>1. g \in main /\ h \in main
  BY DEF AdmissionInv, MyOK, ApartOK, Full
<1>2. Lane(g) # "exclusive"
  BY <1>1 DEF AdmissionInv, Apart
<1>3. ASSUME NEW k \in Guard, pc[k] \in Admitted
      PROVE  /\ base(k) \in ws /\ cast[base(k)].ws = cast[k].ws /\ cast[base(k)].shared = cast[k].shared
             /\ k \in Parts => base(k) \in elastic
  <2>1. CASE k \notin Parts
    BY <1>3, <2>1 DEF AdmissionInv, MyOK, ApartOK, Full
  <2>2. CASE k \in Parts
    <3>1. /\ PartOf(k) \in Elastic /\ PartOf(k) \in Guard /\ PartOf(k) \notin Parts
          /\ cast[k].ws = cast[PartOf(k)].ws /\ cast[k].shared = cast[PartOf(k)].shared
      BY <2>2, Asked DEF AdmissionInv, Types, PlaceTypes, Elastic
    <3>2. pc[PartOf(k)] = "run"
      BY <1>3, <2>2 DEF AdmissionInv, MyOK, PartOK, Admitted
    <3>3. PartOf(k) \in ws /\ PartOf(k) \in elastic
      BY <3>1, <3>2 DEF AdmissionInv, MyOK, ApartOK, RegisteredOK, Full, Admitted
    <3>. QED
      BY <2>2, <3>1, <3>3
  <2>. QED
    BY <2>1, <2>2
<1>4. ASSUME SameWs(g, h), ~ShareWs(g, h) PROVE base(g) = base(h)
  <2>1. base(g) \in ws /\ base(h) \in ws
    BY <1>3
  <2>2. SameWs(base(g), base(h)) /\ ~ShareWs(base(g), base(h))
    BY <1>3, <1>4 DEF SameWs, ShareWs
  <2>. HIDE DEF base
  <2>. QED
    BY <2>1, <2>2 DEF AdmissionInv, Apart
<1>5. ASSUME base(g) = base(h) PROVE \E e \in elastic : {g, h} \subseteq {e} \cup {p \in Parts : PartOf(p) = e}
  BY <1>3, <1>5
<1>. QED
  BY <1>2, <1>4, <1>5

-----------------------------------------------------------------------------
(* The theorems.                                                           *)

(* Every variable keeps its type, for any guards, any budget and any requests *)
(* (Admission.acquire: the fields of the lock directory's entries).        *)
THEOREM TypesAreKept == Spec => []TypeOK
BY AdmissionHolds, OwedHolds, InvType, PTL

(* The budget is kept in all four senses: the declared limits of the running *)
(* workloads within 1.5 x, the charges held and within the budget, waiting *)
(* slots only in the hands of the head, and the room of the parts          *)
(* (within_bound, register, elastic_room).                                 *)
THEOREM BudgetIsKept == Spec => []BudgetKept
BY AdmissionHolds, InvBudget, PTL

(* No workload runs beside an exclusive one, nor two of one workspace unless *)
(* both share it or belong to one elastic workload (acquire: main, workspace). *)
THEOREM WorkloadsAreApart == Spec => []WorkloadsApart
BY AdmissionHolds, InvApart, PTL

(* No drain ticket is passed: they are admitted in order, and of the others *)
(* only a guard beyond its last look at the tickets (my_turn).             *)
THEOREM DrainsAreKept == Spec => DrainsKept
<1>1. ASSUME AdmissionInv, [Next]_vars, NEW g \in Guard, pc[g] # "granted", pc'[g] = "granted"
      PROVE  /\ lane[g] \in {"normal", "background"} => \A t \in ToSet(tickets) : g \in past[t]
             /\ g \in ToSet(tickets) => Head(tickets) = g
  <2>1. PICK k \in Guard : Step(k)
    BY <1>1 DEF Next, GuardsStep, Step, HoldoffEnds, vars, guards
  <2>2. k = g
    BY <1>1, <2>1, StepMoves DEF Moves, MovesPlace
  <2>3. pc[g] \in {"scan", "register", "scanned", "bgTaken"}
    BY <1>1, <2>1, <2>2
    DEF AdmissionInv, Types, PlaceTypes, Step, Acquire, Start, StartWithout, TakeWs, Wait, NoRoom, Enqueue, TakeLifeline,
        LineUp, TakeQueue, LookToBackfill, ScanToBackfill, Backfill, TakeMain, CheckTurn, Scan, ScanExclusive,
        TakeRegister, Admit, GiveBack, LookInBackground, TakeInBackground, AdmitInBackground, RampGrows, GiveUp, Spawn,
        Preempt, OverCharge, RunAgain, Finish, Ended, Entrance, Goto
  <2>4. g \in Beyond
    BY <2>3 DEF Beyond
  <2>5. g \in ToSet(tickets) => pc[g] \in {"scan", "register"}
    BY <1>1, <2>3 DEF AdmissionInv, MyOK, TicketsOK, Leads, Collects
  <2>. QED
    BY <1>1, <2>4, <2>5 DEF AdmissionInv, Drains
<1>2. AdmissionInv /\ [Next]_vars =>
        [\A g \in Guard :
           pc[g] # "granted" /\ pc'[g] = "granted" =>
             /\ lane[g] \in {"normal", "background"} => \A t \in ToSet(tickets) : g \in past[t]
             /\ g \in ToSet(tickets) => Head(tickets) = g]_vars
  BY <1>1
<1>. QED
  BY <1>2, AdmissionHolds, PTL DEF Spec, DrainsKept

(* What a head had reserved when a guard looked at it is the head's, in its *)
(* hands or free, when that guard runs ahead, for any steps of the head and *)
(* the others between the look and the admission; what the reservation grew *)
(* by since, or the next head's, is not spared (backfill).                 *)
THEOREM HeadsKeepPace == Spec => HeadKeepsPace
<1>1. ASSUME AdmissionInv, AdmissionInv', OwedInv, [Next]_vars, NEW g \in Guard,
             pc[g] = "scanned", pc'[g] = "granted", owed[g] > 0
      PROVE  (Reserved(queue) + Free)' >= owed[g]
  <2>1. PICK k \in Guard : Step(k)
    BY <1>1 DEF Next, GuardsStep, Step, HoldoffEnds, vars, guards
  <2>2. k = g
    BY <1>1, <2>1, StepMoves DEF Moves, MovesPlace
  <2>3. Backfill(g)
    BY <1>1, <2>1, <2>2
    DEF AdmissionInv, Types, PlaceTypes, Step, Acquire, Start, StartWithout, TakeWs, Wait, NoRoom, Enqueue, TakeLifeline,
        LineUp, TakeQueue, LookToBackfill, ScanToBackfill, Backfill, TakeMain, CheckTurn, Scan, ScanExclusive,
        TakeRegister, Admit, GiveBack, LookInBackground, TakeInBackground, AdmitInBackground, RampGrows, GiveUp, Spawn,
        Preempt, OverCharge, RunAgain, Finish, Ended, Goto, Waits
  <2>4. /\ held \in [Guard -> 0..Capacity] /\ weight[g] \in 0..Capacity /\ Capacity \in Nat
        /\ InSlots(held, Guard) /\ Free \in 0..Capacity /\ Free = Capacity - Sum(held, Guard) /\ Sum(held, Guard) \in Nat
        /\ view[g].unmet \in 0..Capacity
    BY <1>1, FreeIsNat, GuardAssumption, RegistriesTyped DEF AdmissionInv, Types, SlotTypes, MyOK, PlaceOK, Entry
  <2>5. held' = [held EXCEPT ![g] = weight[g]] /\ weight[g] + view[g].unmet <= held[g]
    BY <1>1, <2>3 DEF Backfill, Spare, Goto, AdmissionInv, Types, PlaceTypes
  <2>6. InSlots(held', Guard) /\ held'[g] = weight[g] /\ \A i \in Guard \ {g} : held'[i] = held[i]
    BY <2>4, <2>5 DEF InSlots
  <2>7. Sum(held', Guard) = Sum(held, Guard) - held[g] + weight[g]
    BY <2>4, <2>6, SumChanges
  <2>8. Free' = Capacity - Sum(held', Guard)
    BY DEF Free
  <2>9. held[g] \in 0..Capacity
    BY <2>4
  <2>10. Free' \in Nat /\ Free' >= view[g].unmet
    BY <2>4, <2>5, <2>7, <2>8, <2>9
  <2>11. queue \in Guard \ {g} /\ owed[g] \in Nat /\ owed[g] <= view[g].unmet + Reserved(queue)
    BY <1>1 DEF OwedInv, OwedOK
  <2>12. queue' = queue
    BY <2>3 DEF Backfill
  <2>13. \A h \in Guard : queue = h => Reserved(h)' >= Reserved(h)
    BY <1>1, <2>1, <2>12, ReservedGrows DEF OwedInv
  <2>14. \A h \in Guard : queue = h => Reserved(queue)' = Reserved(h)' /\ Reserved(queue) = Reserved(h)
    BY <2>12 DEF Reserved
  <2>15. Reserved(queue) \in Nat /\ Reserved(queue)' \in Nat /\ Reserved(queue)' >= Reserved(queue)
    BY <1>1, <2>11, <2>13, <2>14, ReservedIs, ReservedIsNext
  <2>16. (Reserved(queue) + Free)' = Reserved(queue)' + Free'
    OBVIOUS
  <2>17. view[g].unmet \in Nat
    BY <2>4
  <2>. QED
    BY <2>10, <2>11, <2>15, <2>16, <2>17
<1>2. AdmissionInv /\ AdmissionInv' /\ OwedInv /\ [Next]_vars =>
        [\A g \in Guard :
           pc[g] = "scanned" /\ pc'[g] = "granted" /\ owed[g] > 0 => (Reserved(queue) + Free)' >= owed[g]]_vars
  BY <1>1
<1>. QED
  BY <1>2, AdmissionHolds, OwedHolds, PTL DEF Spec, HeadKeepsPace

=============================================================================
