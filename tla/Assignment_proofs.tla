-------------------------- MODULE Assignment_proofs --------------------------
(* Proofs about Assignment for any members, rules, settings, sales groups    *)
(* and requests, with no bound on the batches and the changes.               *)
EXTENDS Assignment, FiniteSetTheorems, SequenceTheorems, WellFoundedInduction, TLAPS

-----------------------------------------------------------------------------
(* Facts about numbers, places and sequences. *)

(* Every set of naturals has a least one: what stands in for induction.      *)
LEMMA NatLeast ==
  ASSUME NEW S \in SUBSET Nat, S # {}
  PROVE  \E n \in S : \A m \in S : n <= m
<1> DEFINE Below == {0 .. n : n \in S}
<1>1. Below \subseteq FiniteSubsetsOf(Nat)
  <2>1. \A n \in S : IsFiniteSet(0 .. n) /\ 0 .. n \subseteq Nat
    BY FS_Interval
  <2>2. QED
    BY <2>1 DEF FiniteSubsetsOf
<1>2. Below # {} /\ IsWellFoundedOn(StrictSubsetOrdering(Nat), FiniteSubsetsOf(Nat))
  BY FS_StrictSubsetOrderingWellFounded
<1>3. PICK low \in Below : \A other \in Below : <<other, low>> \notin StrictSubsetOrdering(Nat)
  <2> HIDE DEF Below
  <2> QED
    BY <1>1, <1>2, WFMin
<1>4. PICK n \in S : low = 0 .. n
  BY <1>3
<1>5. ASSUME NEW m \in S, m < n
      PROVE  FALSE
  <2>1. 0 .. m \in Below /\ 0 .. m \subseteq 0 .. n /\ 0 .. m # 0 .. n
    BY <1>5
  <2>2. <<0 .. m, 0 .. n>> \in StrictSubsetOrdering(Nat)
    BY <2>1 DEF StrictSubsetOrdering
  <2>3. QED
    BY <2>1, <2>2, <1>3, <1>4
<1>6. QED
  BY <1>5

(* The next place of a deal of n is one of its places: the first after the   *)
(* last, and the one behind any other.                                      *)
LEMMA NextPlaceIs ==
  ASSUME NEW n \in Nat \ {0}, NEW position \in Nat \cup {-1}
  PROVE  /\ NextPlace(position, n) \in 0 .. n - 1
         /\ position = n - 1 => NextPlace(position, n) = 0
         /\ position < n - 1 => NextPlace(position, n) = position + 1
<1>1. (position + 1) % n \in 0 .. n - 1
  OBVIOUS
<1>2. ASSUME position = n - 1
      PROVE  (position + 1) % n = 0
  BY <1>2
<1>3. ASSUME position < n - 1
      PROVE  (position + 1) % n = position + 1
  BY <1>3
<1>4. QED
  BY <1>1, <1>2, <1>3 DEF NextPlace

(* What going through a sequence and keeping the members of a set leaves.    *)
Kept(s, E, n, left) ==
  left = [i \in 0 .. n |->
            IF i = 0 THEN <<>>
            ELSE IF s[i] \in E THEN Append(left[i - 1], s[i]) ELSE left[i - 1]]

LEMMA KeptExists ==
  ASSUME NEW S, NEW s \in Seq(S), NEW E
  PROVE  \E left : Kept(s, E, Len(s), left)
<1> DEFINE Without == {n \in 0 .. Len(s) : ~ \E left : Kept(s, E, n, left)}
<1>1. SUFFICES ASSUME Without # {}
               PROVE  FALSE
  <2>1. Len(s) \in Nat
    OBVIOUS
  <2>2. QED
    BY <2>1
<1>2. PICK n \in Without : \A m \in Without : n <= m
  <2>1. Without \in SUBSET Nat
    OBVIOUS
  <2>2. QED
    BY <1>1, <2>1, NatLeast
<1>3. n # 0
  <2>1. Kept(s, E, 0, [i \in 0 .. 0 |-> <<>>])
    BY DEF Kept
  <2>2. QED
    BY <1>2, <2>1
<1>4. PICK left : Kept(s, E, n - 1, left)
  <2>1. n - 1 \in 0 .. Len(s) /\ n - 1 \notin Without
    BY <1>2, <1>3
  <2>2. QED
    BY <2>1
<1> DEFINE more == [i \in 0 .. n |->
              IF i < n THEN left[i]
              ELSE IF s[n] \in E THEN Append(left[n - 1], s[n]) ELSE left[n - 1]]
<1>5. Kept(s, E, n, more)
  <2>1. n \in Nat \ {0}
    BY <1>2, <1>3
  <2>2. ASSUME NEW i \in 0 .. n
        PROVE  more[i] = IF i = 0 THEN <<>>
                         ELSE IF s[i] \in E THEN Append(more[i - 1], s[i]) ELSE more[i - 1]
    <3>1. CASE i < n
      <4>1. i \in 0 .. n - 1 /\ (i # 0 => i - 1 \in 0 .. n /\ i - 1 < n)
        BY <2>1, <3>1
      <4>2. left[i] = IF i = 0 THEN <<>>
                      ELSE IF s[i] \in E THEN Append(left[i - 1], s[i]) ELSE left[i - 1]
        BY <4>1, <1>4 DEF Kept
      <4>3. more[i] = left[i] /\ (i # 0 => more[i - 1] = left[i - 1])
        BY <4>1, <3>1
      <4>4. QED
        BY <4>2, <4>3
    <3>2. CASE i = n
      <4>1. n - 1 \in 0 .. n /\ n - 1 < n /\ ~ (n < n) /\ n # 0
        BY <2>1
      <4>2. more[n - 1] = left[n - 1]
        BY <4>1
      <4>3. more[n] = IF s[n] \in E THEN Append(left[n - 1], s[n]) ELSE left[n - 1]
        BY <4>1, <2>1
      <4>4. QED
        BY <4>1, <4>2, <4>3, <3>2
    <3>3. QED
      BY <3>1, <3>2, <2>1
  <2> HIDE DEF more
  <2>3. more = [i \in 0 .. n |-> more[i]]
    BY DEF more
  <2>4. QED
    BY <2>2, <2>3 DEF Kept
<1>6. QED
  BY <1>2, <1>5

LEMMA KeptTyped ==
  ASSUME NEW S, NEW s \in Seq(S), NEW E, NEW left, Kept(s, E, Len(s), left)
  PROVE  left[Len(s)] \in Seq(S \cap E)
<1> DEFINE Bad == {n \in 0 .. Len(s) : left[n] \notin Seq(S \cap E)}
<1>1. SUFFICES ASSUME Bad # {}
               PROVE  FALSE
  OBVIOUS
<1>2. PICK n \in Bad : \A m \in Bad : n <= m
  <2>1. Bad \in SUBSET Nat
    OBVIOUS
  <2>2. QED
    BY <1>1, <2>1, NatLeast
<1>3. n # 0
  BY <1>2 DEF Kept
<1>4. left[n - 1] \in Seq(S \cap E)
  <2>1. n - 1 \in 0 .. Len(s) /\ n - 1 \notin Bad
    BY <1>2, <1>3
  <2>2. QED
    BY <2>1
<1>5. s[n] \in S
  BY <1>2, <1>3
<1>6. left[n] = IF s[n] \in E THEN Append(left[n - 1], s[n]) ELSE left[n - 1]
  BY <1>2, <1>3 DEF Kept
<1>7. left[n] \in Seq(S \cap E)
  BY <1>4, <1>5, <1>6
<1>8. QED
  BY <1>2, <1>7

(* A deal is a sequence of eligible members.                                *)
LEMMA DealTyped ==
  ASSUME NEW s \in RuleRow, NEW inGroup \in Seq(Member), NEW eligible
  PROVE  /\ Deal(s, inGroup, eligible) \in Seq(Member \cap eligible)
         /\ Deal(s, inGroup, eligible) \in Seq(Member)
         /\ Len(Deal(s, inGroup, eligible)) \in Nat
<1> DEFINE named == Named(s, inGroup)
           left == CHOOSE f : Kept(named, eligible, Len(named), f)
<1>1. named \in Seq(Member)
  BY DEF Named, RuleRow
<1>2. Deal(s, inGroup, eligible) = left[Len(named)]
  BY DEF Deal, Kept
<1>3. Kept(named, eligible, Len(named), left)
  <2>1. \E f : Kept(named, eligible, Len(named), f)
    BY <1>1, KeptExists
  <2>2. QED
    BY <2>1
<1>4. left[Len(named)] \in Seq(Member \cap eligible)
  <2> HIDE DEF named, left
  <2> QED
    BY <1>1, <1>3, KeptTyped
<1>5. QED
  BY <1>2, <1>4

(* The first of some rules, by priority and then by id, is one of them.      *)
LEMMA FirstTyped ==
  ASSUME NEW rules \in [Rule -> RuleRow], NEW S \in SUBSET Rule
  PROVE  First(rules, S) \in S \cup {None}
<1>1. CASE S = {}
  BY <1>1 DEF First
<1>2. CASE S # {}
  <2> DEFINE P == {rules[k].priority : k \in S}
  <2>1. P \in SUBSET Nat /\ P # {} /\ S \in SUBSET Nat
    <3>1. \A k \in S : rules[k].priority \in Nat
      BY DEF RuleRow
    <3>2. P \in SUBSET Nat
      BY <3>1
    <3>3. P # {}
      BY <1>2
    <3>4. Rule \in SUBSET Nat
      BY AssignmentAssumption
    <3>5. QED
      BY <3>2, <3>3, <3>4
  <2>2. PICK p \in P : \A q \in P : p <= q
    BY <2>1, NatLeast
  <2> DEFINE T == {k \in S : rules[k].priority = p}
  <2>3. T \in SUBSET Nat /\ T # {}
    BY <2>1, <2>2
  <2>4. PICK k \in T : \A j \in T : k <= j
    BY <2>3, NatLeast
  <2>5. ASSUME NEW j \in S \ {k}
        PROVE  Before(rules, k, j)
    <3>1. rules[j].priority \in P /\ rules[k].priority = p /\ p \in Nat
      BY <2>1, <2>4
    <3>2. rules[j].priority \in Nat /\ p <= rules[j].priority
      BY <3>1, <2>1, <2>2
    <3>3. CASE rules[j].priority = p
      <4>1. j \in T /\ j \in Nat /\ k \in Nat /\ k <= j /\ j # k
        BY <3>3, <2>3, <2>4
      <4>2. QED
        BY <4>1, <3>1, <3>3 DEF Before
    <3>4. CASE rules[j].priority # p
      BY <3>1, <3>2, <3>4 DEF Before
    <3>5. QED
      BY <3>3, <3>4
  <2>6. \E x \in S : \A j \in S \ {x} : Before(rules, x, j)
    BY <2>4, <2>5
  <2>7. QED
    BY <1>2, <2>6 DEF First
<1>3. QED
  BY <1>1, <1>2

LEMMA MatchTyped ==
  ASSUME NEW rules \in [Rule -> RuleRow], NEW hits \in SUBSET Rule
  PROVE  Match(rules, hits) \in Rule \cup {None}
<1> DEFINE active == {k \in Rule : rules[k].active}
           catchAll == First(rules, {k \in active : rules[k].condition = "all"})
           matched == {k \in active \cap hits : rules[k].condition = "some"}
<1>1. catchAll \in Rule \cup {None}
  <2>1. {k \in active : rules[k].condition = "all"} \in SUBSET Rule
    OBVIOUS
  <2>2. QED
    BY <2>1, FirstTyped
<1>2. matched \cup ({catchAll} \ {None}) \in SUBSET Rule
  BY <1>1
<1>3. First(rules, matched \cup ({catchAll} \ {None})) \in Rule \cup {None}
  <2> HIDE DEF matched, catchAll
  <2> QED
    BY <1>2, FirstTyped
<1>4. QED
  BY <1>3 DEF Match

-----------------------------------------------------------------------------
(* Facts about going round a deal. *)

LEMMA InArcIs ==
  ASSUME NEW i \in Nat, NEW first \in Nat, NEW last \in Nat
  PROVE  /\ InArc(i, first, last) \in {0, 1}
         /\ InArc(i, first, last) = 1 <=>
              IF first <= last THEN first <= i /\ i <= last ELSE i <= last \/ first <= i
BY DEF InArc, Arc

(* An arc, and behind it another: together they are the arc from the first's *)
(* beginning to the second's end, and one whole round if they overlap.       *)
LEMMA ArcsJoinAt ==
  ASSUME NEW n \in Nat \ {0}, NEW first \in 0 .. n - 1, NEW middle \in 0 .. n - 1,
         NEW last \in 0 .. n - 1, NEW i \in 0 .. n - 1
  PROVE  InArc(i, first, middle) + InArc(i, NextPlace(middle, n), last)
           = InArc(last, first, middle) + InArc(i, first, last)
<1>1. PICK next \in 0 .. n - 1 :
        /\ next = NextPlace(middle, n)
        /\ middle = n - 1 => next = 0
        /\ middle < n - 1 => next = middle + 1
  BY NextPlaceIs
<1>2. PICK a, b, c, d \in {0, 1} :
        /\ InArc(i, first, middle) = a /\ InArc(i, next, last) = b
        /\ InArc(last, first, middle) = c /\ InArc(i, first, last) = d
  BY InArcIs
<1>3. /\ a = 1 <=> IF first <= middle THEN first <= i /\ i <= middle ELSE i <= middle \/ first <= i
      /\ b = 1 <=> IF next <= last THEN next <= i /\ i <= last ELSE i <= last \/ next <= i
      /\ c = 1 <=> IF first <= middle THEN first <= last /\ last <= middle
                   ELSE last <= middle \/ first <= last
      /\ d = 1 <=> IF first <= last THEN first <= i /\ i <= last ELSE i <= last \/ first <= i
  <2>1. i \in Nat /\ first \in Nat /\ middle \in Nat /\ last \in Nat /\ next \in Nat
    OBVIOUS
  <2>2. QED
    BY <1>2, <2>1, InArcIs
<1>4. a + b = c + d
  BY <1>1, <1>3
<1>5. QED
  BY <1>1, <1>2, <1>4

LEMMA ArcsJoin ==
  ASSUME NEW n \in Nat \ {0}, NEW first \in 0 .. n - 1, NEW middle \in 0 .. n - 1,
         NEW last \in 0 .. n - 1, NEW p \in 0 .. n - 1, NEW q \in 0 .. n - 1
  PROVE  InArc(p, first, middle) + InArc(p, NextPlace(middle, n), last) + InArc(q, first, last)
           = InArc(q, first, middle) + InArc(q, NextPlace(middle, n), last) + InArc(p, first, last)
<1>1. NextPlace(middle, n) \in 0 .. n - 1
  BY NextPlaceIs
<1>2. \A i \in 0 .. n - 1 : /\ InArc(i, first, middle) \in Int /\ InArc(i, first, last) \in Int
                            /\ InArc(i, NextPlace(middle, n), last) \in Int
                            /\ InArc(last, first, middle) \in Int
  BY DEF InArc
<1>3. \A i \in 0 .. n - 1 :
        InArc(i, first, middle) + InArc(i, NextPlace(middle, n), last)
          = InArc(last, first, middle) + InArc(i, first, last)
  BY ArcsJoinAt
<1>4. QED
  BY <1>2, <1>3

(* One turn more. *)
LEMMA ArcGrows ==
  ASSUME NEW n \in Nat \ {0}, NEW first \in 0 .. n - 1, NEW last \in 0 .. n - 1,
         NEW p \in 0 .. n - 1, NEW q \in 0 .. n - 1
  PROVE  LET next == NextPlace(last, n)
             one(i) == IF i = next THEN 1 ELSE 0
         IN InArc(p, first, last) + one(p) + InArc(q, first, next)
              = InArc(q, first, last) + one(q) + InArc(p, first, next)
<1> DEFINE next == NextPlace(last, n)
<1>1. next \in 0 .. n - 1
  BY NextPlaceIs
<1>2. \A i \in 0 .. n - 1 : InArc(i, next, next) = IF i = next THEN 1 ELSE 0
  <2> HIDE DEF next
  <2> QED
    BY <1>1 DEF InArc, Arc
<1>3. InArc(p, first, last) + InArc(p, next, next) + InArc(q, first, next)
        = InArc(q, first, last) + InArc(q, next, next) + InArc(p, first, next)
  BY <1>1, ArcsJoin
<1>4. QED
  BY <1>2, <1>3

(* Counts that differ by an arc level to the arc, or to nothing if the arc   *)
(* is the whole round.                                                      *)
LEMMA LevelArc ==
  ASSUME NEW n \in Nat \ {0}, NEW first \in 0 .. n - 1, NEW last \in 0 .. n - 1,
         NEW count \in [0 .. n - 1 -> Int],
         \A p, q \in 0 .. n - 1 :
           count[p] + InArc(q, first, last) = count[q] + InArc(p, first, last)
  PROVE  \/ Level(count) = [i \in 0 .. n - 1 |-> 0]
         \/ /\ Level(count) = [i \in 0 .. n - 1 |-> InArc(i, first, last)]
            /\ \E i \in 0 .. n - 1 : i \notin Arc(first, last)
<1> DEFINE low == Min(Range(count))
<1>1. Range(count) = {count[i] : i \in 0 .. n - 1}
  BY DEF Range
<1>2. \A i \in 0 .. n - 1 : InArc(i, first, last) \in {0, 1}
  BY DEF InArc
<1>3. ASSUME NEW b \in 0 .. n - 1, \A i \in 0 .. n - 1 : count[b] <= count[i]
      PROVE  Level(count) = [i \in 0 .. n - 1 |-> count[i] - count[b]]
  <2>1. count[b] \in Range(count) /\ \A y \in Range(count) : count[b] <= y
    BY <1>1, <1>3
  <2>2. low \in Range(count) /\ \A y \in Range(count) : low <= y
    BY <2>1 DEF Min
  <2> HIDE DEF low
  <2>3. low = count[b]
    <3>1. low \in Int /\ count[b] \in Int
      BY <2>2, <1>1
    <3>2. low <= count[b] /\ count[b] <= low
      BY <2>1, <2>2
    <3>3. QED
      BY <3>1, <3>2
  <2>4. DOMAIN count = 0 .. n - 1 /\ 0 .. n - 1 # {}
    OBVIOUS
  <2>5. Level(count) = [i \in DOMAIN count |-> count[i] - low]
    BY <2>4 DEF Level, low
  <2>6. QED
    BY <2>3, <2>4, <2>5
<1>4. CASE \E i \in 0 .. n - 1 : i \notin Arc(first, last)
  <2>1. PICK b \in 0 .. n - 1 : b \notin Arc(first, last)
    BY <1>4
  <2>2. InArc(b, first, last) = 0
    BY <2>1 DEF InArc
  <2>3. \A i \in 0 .. n - 1 : count[i] = count[b] + InArc(i, first, last)
    BY <2>2
  <2>4. ASSUME NEW i \in 0 .. n - 1
        PROVE  count[b] <= count[i] /\ count[i] - count[b] = InArc(i, first, last)
    <3>1. count[i] = count[b] + InArc(i, first, last) /\ InArc(i, first, last) \in {0, 1}
      BY <2>3, <1>2
    <3>2. count[i] \in Int /\ count[b] \in Int
      OBVIOUS
    <3>3. QED
      BY <3>1, <3>2
  <2>5. QED
    BY <2>4, <1>3, <1>4
<1>5. CASE \A i \in 0 .. n - 1 : i \in Arc(first, last)
  <2>1. \A i \in 0 .. n - 1 : InArc(i, first, last) = 1
    BY <1>5 DEF InArc
  <2>2. \A i \in 0 .. n - 1 : count[0] <= count[i] /\ count[i] - count[0] = 0
    BY <2>1
  <2>3. QED
    BY <2>2, <1>3
<1>6. QED
  BY <1>4, <1>5

(* Counts that are all the same level to nothing.                           *)
LEMMA LevelFlat ==
  ASSUME NEW n \in Nat, NEW count \in [0 .. n - 1 -> Int],
         \A p, q \in 0 .. n - 1 : count[p] = count[q]
  PROVE  Level(count) = [i \in 0 .. n - 1 |-> 0]
<1>1. CASE n = 0
  <2>1. DOMAIN count = {} /\ 0 .. n - 1 = {}
    BY <1>1
  <2>2. QED
    BY <2>1 DEF Level
<1>2. CASE n # 0
  <2>1. \A i \in 0 .. n - 1 : InArc(i, 0, n - 1) = 1
    BY <1>2 DEF InArc, Arc
  <2>2. \A i \in 0 .. n - 1 : i \in Arc(0, n - 1)
    BY <1>2 DEF Arc
  <2>3. n \in Nat \ {0} /\ 0 \in 0 .. n - 1 /\ n - 1 \in 0 .. n - 1
    BY <1>2
  <2>4. \A p, q \in 0 .. n - 1 : count[p] + InArc(q, 0, n - 1) = count[q] + InArc(p, 0, n - 1)
    BY <2>1
  <2>5. QED
    BY <2>2, <2>3, <2>4, LevelArc
<1>3. QED
  BY <1>1, <1>2

(* A turn taken is one more turn at its rule and its place.                  *)
LEMMA TallyNat ==
  ASSUME NEW turns \in Seq(Turn), NEW k, NEW p
  PROVE  Tally(turns, k, p) \in Nat
<1>1. IsFiniteSet(DOMAIN turns)
  BY FS_Interval
<1>2. IsFiniteSet({j \in TurnsAt(turns, k) : turns[j].place = p})
  BY <1>1, FS_Subset DEF TurnsAt
<1>3. QED
  BY <1>2, FS_CardinalityType DEF Tally

Took(turns, turn, k, more) ==
  /\ more[Len(turns) + 1] = turn
  /\ \A j \in TurnsAt(turns, k) : more[j] = turns[j]
  /\ TurnsAt(more, k) =
       IF turn.rule = k THEN TurnsAt(turns, k) \cup {Len(turns) + 1} ELSE TurnsAt(turns, k)
  /\ \A p : Tally(more, k, p) =
              IF turn.rule = k /\ turn.place = p THEN Tally(turns, k, p) + 1
              ELSE Tally(turns, k, p)

LEMMA TurnTaken ==
  ASSUME NEW turns \in Seq(Turn), NEW turn \in Turn, NEW k, NEW more, more = Append(turns, turn)
  PROVE  Took(turns, turn, k, more)
<1> DEFINE n == Len(turns) + 1
<1>1. /\ more \in Seq(Turn) /\ Len(more) = n /\ DOMAIN more = DOMAIN turns \cup {n}
      /\ n \notin DOMAIN turns /\ more[n] = turn /\ \A j \in DOMAIN turns : more[j] = turns[j]
  OBVIOUS
<1> HIDE DEF n
<1>2. TurnsAt(more, k) = IF turn.rule = k THEN TurnsAt(turns, k) \cup {n} ELSE TurnsAt(turns, k)
  BY <1>1 DEF TurnsAt
<1>3. ASSUME NEW p
      PROVE  Tally(more, k, p) =
               IF turn.rule = k /\ turn.place = p THEN Tally(turns, k, p) + 1 ELSE Tally(turns, k, p)
  <2> DEFINE old == {j \in TurnsAt(turns, k) : turns[j].place = p}
             new == {j \in TurnsAt(more, k) : more[j].place = p}
  <2>1. IsFiniteSet(old) /\ Cardinality(old) \in Nat
    <3>1. IsFiniteSet(DOMAIN turns) /\ old \subseteq DOMAIN turns
      BY FS_Interval DEF TurnsAt
    <3>2. QED
      BY <3>1, FS_Subset, FS_CardinalityType
  <2>2. n \notin old
    BY <1>1 DEF TurnsAt
  <2>3. new = IF turn.rule = k /\ turn.place = p THEN old \cup {n} ELSE old
    BY <1>1, <1>2 DEF TurnsAt
  <2>4. Cardinality(old \cup {n}) = Cardinality(old) + 1
    BY <2>1, <2>2, FS_AddElement
  <2>5. Tally(turns, k, p) = Cardinality(old) /\ Tally(more, k, p) = Cardinality(new)
    BY DEF Tally
  <2> HIDE DEF old, new
  <2>6. QED
    BY <2>1, <2>3, <2>4, <2>5
<1>4. QED
  BY <1>1, <1>2, <1>3 DEF TurnsAt, Took, n

-----------------------------------------------------------------------------
(* The steps. *)

LEMMA NoTxnTyped ==
  /\ NoTxn \in TxnRow
  /\ \A working : Reachable(NoTxn, working)
  /\ \A position : \A k \in Rule : NoTxn.pos[k] = None /\ Dealt(NoTxn, k, position)
<1>1. NoTxn \in TxnRow
  BY AssignmentAssumption DEF NoTxn, TxnRow
<1>2. \A working : Reachable(NoTxn, working)
  BY DEF Reachable, NoTxn
<1>3. \A k : TurnsAt(NoTxn.turns, k) = {}
  BY DEF NoTxn, TurnsAt
<1>4. \A k \in Rule : NoTxn.pos[k] = None
  BY DEF NoTxn
<1>5. QED
  BY <1>1, <1>2, <1>3, <1>4 DEF Dealt

LEMMA InitHolds == Init => AssignmentInv
<1> SUFFICES ASSUME Init
             PROVE  AssignmentInv
  OBVIOUS
<1>1. rule \in [Rule -> RuleRow]
  <2>1. \A k \in Rule : /\ FirstRules[k].condition \in {"all", "some", "broken"}
                        /\ FirstRules[k].strategy \in {"list", "group", "direct", "nobody"}
                        /\ FirstRules[k].deal \in Seq(Member)
    BY AssignmentAssumption
  <2>2. QED
    BY <2>1 DEF Init, RuleRow
<1>2. ShapeInv
  BY <1>1, NoTxnTyped DEF Init, ShapeInv
<1>3. LockInv
  <2>1. \A r \in Request : r # None
    BY AssignmentAssumption
  <2>2. None # -1
    BY AssignmentAssumption
  <2>3. QED
    BY <2>1, <2>2, NoTxnTyped DEF Init, LockInv
<1>4. SeenInv /\ TurnsInv
  BY NoTxnTyped DEF Init, SeenInv, TurnsInv
<1>5. ServedInv
  BY DEF Init, ServedInv, Even, Unserved
<1>6. QED
  BY <1>2, <1>3, <1>4, <1>5 DEF AssignmentInv

(* A request's row written, and nothing of the others. *)
LEMMA RowSet ==
  ASSUME ShapeInv, NEW r \in Request, NEW t \in TxnRow, txn' = [txn EXCEPT ![r] = t]
  PROVE  /\ txn' \in [Request -> TxnRow] /\ txn'[r] = t
         /\ \A q \in Request \ {r} : txn'[q] = txn[q]
BY DEF ShapeInv

(* A step of a request that takes no turn and no lock. *)
LEMMA QuietKeeps ==
  ASSUME AssignmentInv, NEW r \in Request, NEW t \in TxnRow, txn' = [txn EXCEPT ![r] = t],
         UNCHANGED <<rule, group, roster, cursor, lock, served>>,
         t.turns = txn[r].turns, t.pos = txn[r].pos, Reachable(t, roster),
         \A k \in Rule : t.pos[k] = -1 => t.at = "lock" /\ t.rule = k
  PROVE  AssignmentInv'
<1>1. /\ txn' \in [Request -> TxnRow] /\ txn'[r] = t
      /\ \A q \in Request \ {r} : txn'[q] = txn[q]
  BY RowSet DEF AssignmentInv
<1>2. ShapeInv'
  BY <1>1 DEF AssignmentInv, ShapeInv
<1>3. LockInv'
  BY <1>1 DEF AssignmentInv, LockInv
<1>4. SeenInv'
  BY <1>1 DEF AssignmentInv, SeenInv
<1>5. TurnsInv'
  <2>1. \A k \in Rule : Dealt(t, k, cursor[k])
    <3>1. \A k \in Rule : Dealt(txn[r], k, cursor[k])
      BY DEF AssignmentInv, TurnsInv
    <3>2. QED
      BY <3>1 DEF Dealt
  <2>2. QED
    BY <1>1, <2>1 DEF AssignmentInv, TurnsInv
<1>6. ServedInv'
  BY DEF AssignmentInv, ServedInv
<1>7. QED
  BY <1>2, <1>3, <1>4, <1>5, <1>6 DEF AssignmentInv

(* A request that ends without a commit. *)
LEMMA RolledBackKeeps ==
  ASSUME AssignmentInv, NEW r \in Request, RolledBack(r)
  PROVE  AssignmentInv'
<1>1. /\ UNCHANGED <<rule, group, roster, cursor, served>>
      /\ lock' = [k \in Rule |-> IF lock[k] = r THEN None ELSE lock[k]]
      /\ txn' = [txn EXCEPT ![r] = NoTxn]
  BY DEF RolledBack, Released
<1>2. /\ txn' \in [Request -> TxnRow] /\ txn'[r] = NoTxn
      /\ \A q \in Request \ {r} : txn'[q] = txn[q]
  BY <1>1, NoTxnTyped, RowSet DEF AssignmentInv
<1>3. ShapeInv'
  BY <1>1, <1>2 DEF AssignmentInv, ShapeInv
<1>4. LockInv'
  <2>1. None \notin Request /\ None # -1
    BY AssignmentAssumption
  <2>2. ASSUME NEW q \in Request, NEW k \in Rule
        PROVE  /\ lock'[k] = q <=> txn'[q].pos[k] # None
               /\ txn'[q].pos[k] = -1 => cursor'[k] = None /\ txn'[q].at = "lock" /\ txn'[q].rule = k
    <3>1. CASE q = r
      BY <3>1, <2>1, <1>1, <1>2, NoTxnTyped
    <3>2. CASE q # r
      BY <3>2, <2>1, <1>1, <1>2 DEF AssignmentInv, LockInv
    <3>3. QED
      BY <3>1, <3>2
  <2>3. QED
    BY <2>2 DEF LockInv
<1>5. SeenInv' /\ TurnsInv'
  BY <1>1, <1>2, NoTxnTyped DEF AssignmentInv, SeenInv, TurnsInv
<1>6. ServedInv'
  BY <1>1 DEF AssignmentInv, ServedInv
<1>7. QED
  BY <1>3, <1>4, <1>5, <1>6 DEF AssignmentInv

LEMMA StartKeeps ==
  ASSUME AssignmentInv, NEW r \in Request, NEW kind \in {"single", "batch"}, Start(r, kind)
  PROVE  AssignmentInv'
<1> DEFINE t == [NoTxn EXCEPT !.open = TRUE, !.kind = kind, !.seen = roster,
                              !.left = IF kind = "single" THEN 1 ELSE MaxBatch]
<1>1. /\ ~txn[r].open /\ txn' = [txn EXCEPT ![r] = t]
      /\ UNCHANGED <<rule, group, roster, cursor, lock, served>>
  BY DEF Start
<1>2. txn[r] = NoTxn
  BY <1>1 DEF AssignmentInv, SeenInv, Reachable
<1>3. /\ t.open = TRUE /\ t.kind = kind /\ t.seen = roster /\ t.at = "route"
      /\ t.roster = None /\ t.given = {} /\ t.turns = NoTxn.turns /\ t.pos = NoTxn.pos
  BY DEF NoTxn
<1>4. t \in TxnRow
  <2>1. MaxBatch \in Nat \ {0} /\ (IF kind = "single" THEN 1 ELSE MaxBatch) \in 0 .. MaxBatch
    BY AssignmentAssumption
  <2>2. roster \in SUBSET Member
    BY DEF AssignmentInv, ShapeInv
  <2>3. QED
    BY <2>1, <2>2, NoTxnTyped DEF NoTxn, TxnRow
<1>5. Reachable(t, roster)
  BY <1>3 DEF Reachable
<1>6. \A k \in Rule : t.pos[k] # -1
  <2>1. None # -1
    BY AssignmentAssumption
  <2> HIDE DEF t
  <2>2. QED
    BY <1>3, <2>1, NoTxnTyped
<1>7. QED
  <2> HIDE DEF t
  <2> QED
    BY <1>1, <1>2, <1>3, <1>4, <1>5, <1>6, QuietKeeps

(* A lead that has its outcome. *)
LEMMA DecidedKeeps ==
  ASSUME NEW t \in TxnRow, t.open, t.left > 0, NEW m \in Member \cup {None},
         m # None => m \in t.seen, NEW working \in SUBSET t.seen,
         t.roster # None => t.roster \subseteq t.seen, t.given \subseteq t.seen
  PROVE  /\ Decided(t, m) \in TxnRow /\ Reachable(Decided(t, m), working)
         /\ Decided(t, m).turns = t.turns /\ Decided(t, m).pos = t.pos
<1> DEFINE d == Decided(t, m)
<1>1. /\ d.open = t.open /\ d.kind = t.kind /\ d.left = t.left - 1 /\ d.at = "route"
      /\ d.rules = t.rules /\ d.roster = t.roster /\ d.rule = None /\ d.deal = <<>>
      /\ d.pos = t.pos /\ d.turns = t.turns /\ d.given = t.given \cup ({m} \ {None})
      /\ d.seen = t.seen
  BY DEF Decided, TxnRow
<1>2. d \in TxnRow
  <2>1. t.left - 1 \in 0 .. MaxBatch /\ <<>> \in Seq(Member) /\ d.given \in SUBSET Member
    BY <1>1, AssignmentAssumption DEF TxnRow
  <2>2. QED
    BY <2>1, <1>1 DEF Decided, TxnRow
<1>3. Reachable(d, working)
  <2> HIDE DEF d
  <2> QED
    BY <1>1 DEF Reachable
<1>4. QED
  BY <1>1, <1>2, <1>3

LEMMA RouteKeeps ==
  ASSUME AssignmentInv, NEW r \in Request, NEW hits \in SUBSET Rule, Route(r, hits)
  PROVE  AssignmentInv'
<1> DEFINE t == [txn[r] EXCEPT !.rules = IF @ = None THEN rule ELSE @]
           k == Match(t.rules, hits)
           u == [t EXCEPT !.roster = IF @ = None THEN roster ELSE @, !.rule = k]
           strategy == IF Compiles(t.rules) THEN StrategyOf(t.rules, k) ELSE "broken"
           deal == Deal(t.rules[k], group, u.roster)
<1>1. /\ txn[r].open /\ txn[r].left > 0 /\ txn[r].at = "route"
      /\ UNCHANGED <<rule, group, roster, cursor, lock, served>>
      /\ \/ txn' = [txn EXCEPT ![r] = Decided(t, None)]
         \/ /\ strategy = "direct"
            /\ \E named \in Range(t.rules[k].deal) :
                 txn' = [txn EXCEPT ![r] =
                           Decided(u, IF named \in Range(deal) THEN named ELSE None)]
         \/ /\ strategy \in {"list", "group"}
            /\ txn' = [txn EXCEPT ![r] =
                         IF deal = <<>> THEN Decided(u, None)
                         ELSE [u EXCEPT !.deal = deal, !.at = "insert"]]
  BY DEF Route
<1>2. txn[r] \in TxnRow /\ rule \in [Rule -> RuleRow] /\ roster \in SUBSET Member
  BY DEF AssignmentInv, ShapeInv
<1>3. t.rules \in [Rule -> RuleRow]
  BY <1>2 DEF TxnRow
<1>4. /\ t \in TxnRow /\ t.open = txn[r].open /\ t.left = txn[r].left /\ t.at = txn[r].at
      /\ t.roster = txn[r].roster /\ t.given = txn[r].given /\ t.seen = txn[r].seen
      /\ t.turns = txn[r].turns /\ t.pos = txn[r].pos
  BY <1>2 DEF TxnRow
<1>5. k \in Rule \cup {None}
  <2> HIDE DEF t
  <2> QED
    BY <1>3, MatchTyped
<1>6. /\ roster \subseteq t.seen /\ t.given \subseteq t.seen
      /\ t.roster # None => t.roster \subseteq t.seen
  BY <1>1, <1>4 DEF AssignmentInv, SeenInv, Reachable
<1> HIDE DEF t, k
<1>7. /\ u.open = t.open /\ u.left = t.left /\ u.at = t.at /\ u.rule = k
      /\ u.roster = IF t.roster = None THEN roster ELSE t.roster
      /\ u.given = t.given /\ u.seen = t.seen /\ u.turns = t.turns /\ u.pos = t.pos
  BY <1>4 DEF TxnRow
<1>8. u \in TxnRow
  <2> DEFINE known == IF t.roster = None THEN roster ELSE t.roster
  <2>1. known \in {None} \cup SUBSET Member
    BY <1>2, <1>4 DEF TxnRow
  <2>2. u = [t EXCEPT !.roster = known, !.rule = k]
    OBVIOUS
  <2> HIDE DEF u, known
  <2>3. QED
    BY <2>1, <2>2, <1>4, <1>5 DEF TxnRow
<1>9. u.roster \subseteq u.seen
  BY <1>6, <1>7
<1>10. \A j \in Rule : txn[r].pos[j] # -1
  BY <1>1 DEF AssignmentInv, LockInv
<1> HIDE DEF u
<1>11. ASSUME NEW v \in TxnRow, txn' = [txn EXCEPT ![r] = v], Reachable(v, roster),
              v.turns = txn[r].turns, v.pos = txn[r].pos
       PROVE  AssignmentInv'
  <2>1. UNCHANGED <<rule, group, roster, cursor, lock, served>>
    BY <1>1
  <2>2. \A j \in Rule : v.pos[j] = -1 => v.at = "lock" /\ v.rule = j
    BY <1>10, <1>11
  <2>3. QED
    BY <2>1, <2>2, <1>11, QuietKeeps
<1>12. CASE txn' = [txn EXCEPT ![r] = Decided(t, None)]
  <2>1. /\ Decided(t, None) \in TxnRow /\ Reachable(Decided(t, None), roster)
        /\ Decided(t, None).turns = t.turns /\ Decided(t, None).pos = t.pos
    BY <1>1, <1>4, <1>6, DecidedKeeps
  <2>2. QED
    BY <2>1, <1>4, <1>12, <1>11
<1>13. ASSUME NEW m \in Member \cup {None}, m # None => m \in u.seen,
              txn' = [txn EXCEPT ![r] = Decided(u, m)]
       PROVE  AssignmentInv'
  <2>1. /\ Decided(u, m) \in TxnRow /\ Reachable(Decided(u, m), roster)
        /\ Decided(u, m).turns = u.turns /\ Decided(u, m).pos = u.pos
    BY <1>1, <1>4, <1>6, <1>7, <1>8, <1>9, <1>13, DecidedKeeps
  <2>2. QED
    BY <2>1, <1>4, <1>7, <1>13, <1>11
<1>14. ASSUME strategy \in {"direct", "list", "group"}
       PROVE  /\ k \in Rule /\ deal \in Seq(Member)
              /\ \A i \in DOMAIN deal : deal[i] \in Member /\ deal[i] \in u.seen
  <2>1. k \in Rule
    BY <1>5, <1>14 DEF StrategyOf
  <2>2. t.rules[k] \in RuleRow /\ group \in Seq(Member)
    BY <2>1, <1>3, AssignmentAssumption DEF AssignmentInv, ShapeInv
  <2>3. deal \in Seq(Member \cap u.roster) /\ deal \in Seq(Member)
    BY <2>2, DealTyped
  <2> HIDE DEF deal
  <2>4. \A i \in DOMAIN deal : deal[i] \in Member \cap u.roster
    BY <2>3
  <2>5. QED
    BY <2>1, <2>3, <2>4, <1>9
<1>15. ASSUME strategy = "direct", NEW named \in Range(t.rules[k].deal),
              txn' = [txn EXCEPT ![r] = Decided(u, IF named \in Range(deal) THEN named ELSE None)]
       PROVE  AssignmentInv'
  <2> DEFINE m == IF named \in Range(deal) THEN named ELSE None
  <2>1. m \in Member \cup {None} /\ (m # None => m \in u.seen)
    BY <1>14, <1>15 DEF Range
  <2>2. txn' = [txn EXCEPT ![r] = Decided(u, m)]
    BY <1>15
  <2> HIDE DEF m
  <2>3. QED
    BY <2>1, <2>2, <1>13
<1>16. ASSUME strategy \in {"list", "group"}, deal # <<>>,
              txn' = [txn EXCEPT ![r] = [u EXCEPT !.deal = deal, !.at = "insert"]]
       PROVE  AssignmentInv'
  <2> DEFINE v == [u EXCEPT !.deal = deal, !.at = "insert"]
  <2>1. /\ k \in Rule /\ deal \in Seq(Member) /\ \A i \in DOMAIN deal : deal[i] \in u.seen
    BY <1>14, <1>16
  <2> HIDE DEF deal
  <2>2. /\ v \in TxnRow /\ v.open = u.open /\ v.left = u.left /\ v.at = "insert" /\ v.deal = deal
        /\ v.rule = k /\ v.roster = u.roster /\ v.given = u.given /\ v.seen = u.seen
        /\ v.turns = u.turns /\ v.pos = u.pos
    BY <2>1, <1>7, <1>8 DEF TxnRow
  <2> HIDE DEF v
  <2>3. Reachable(v, roster)
    BY <2>1, <2>2, <1>1, <1>4, <1>6, <1>7, <1>9, <1>16 DEF Reachable
  <2>4. txn' = [txn EXCEPT ![r] = v]
    BY <1>16 DEF v
  <2>5. QED
    BY <2>2, <2>3, <2>4, <1>4, <1>7, <1>11
<1>17. ASSUME deal = <<>>, txn' = [txn EXCEPT ![r] = Decided(u, None)]
       PROVE  AssignmentInv'
  BY <1>17, <1>13
<1>18. QED
  BY <1>1, <1>12, <1>15, <1>16, <1>17

(* What one turn adds to two counts that differ by an arc.                   *)
LEMMA Combined ==
  ASSUME NEW a \in Int, NEW b \in Int, NEW x \in Int, NEW y \in Int, NEW z \in Int, NEW w \in Int,
         NEW d \in Int, NEW e \in Int, a + y = b + x, x + d + w = y + e + z
  PROVE  (a + d) + w = (b + e) + z
OBVIOUS

(* A turn at one rule is none at another ... *)
LEMMA DealtElsewhere ==
  ASSUME NEW t \in TxnRow, NEW v \in TxnRow, NEW k \in Rule, NEW j \in Rule \ {k}, NEW position,
         NEW turn \in Turn, turn.rule = k, v.turns = Append(t.turns, turn),
         v.pos[j] = t.pos[j], Dealt(t, j, position)
  PROVE  Dealt(v, j, position)
<1>1. t.turns \in Seq(Turn)
  BY DEF TxnRow
<1>2. /\ TurnsAt(v.turns, j) = TurnsAt(t.turns, j)
      /\ \A h \in TurnsAt(t.turns, j) : v.turns[h] = t.turns[h]
      /\ \A p : Tally(v.turns, j, p) = Tally(t.turns, j, p)
  <2>1. Took(t.turns, turn, j, v.turns)
    BY <1>1, TurnTaken
  <2>2. QED
    BY <2>1 DEF Took
<1>3. \A deal, first, last :
        GoneRound(t.turns, j, deal, first, last) => GoneRound(v.turns, j, deal, first, last)
  BY <1>2 DEF GoneRound
<1>4. ASSUME NEW h \in TurnsAt(v.turns, j)
      PROVE  LET deal == v.turns[h].deal
             IN /\ v.pos[j] \in Nat /\ deal # <<>>
                /\ (\A i \in TurnsAt(v.turns, j) : v.turns[i].deal = deal) =>
                     GoneRound(v.turns, j, deal, FirstPlace(position, Len(deal)), v.pos[j])
  <2>1. h \in TurnsAt(t.turns, j) /\ v.turns[h] = t.turns[h]
    BY <1>2
  <2>2. LET deal == t.turns[h].deal
        IN /\ t.pos[j] \in Nat /\ deal # <<>>
           /\ (\A i \in TurnsAt(t.turns, j) : t.turns[i].deal = deal) =>
                GoneRound(t.turns, j, deal, FirstPlace(position, Len(deal)), t.pos[j])
    BY <2>1 DEF Dealt
  <2>3. QED
    BY <2>1, <2>2, <1>2, <1>3
<1>5. QED
  BY <1>2, <1>4 DEF Dealt

(* ... and at its own it goes on from where the request is. *)
LEMMA DealtGrows ==
  ASSUME NEW t \in TxnRow, NEW v \in TxnRow, NEW k \in Rule, NEW position \in {None} \cup Nat,
         NEW deal \in Seq(Member), deal # <<>>, NEW place,
         place = NextPlace(IF t.pos[k] = None THEN position ELSE t.pos[k], Len(deal)),
         v.turns = Append(t.turns, [rule |-> k, place |-> place, deal |-> deal]),
         v.pos[k] = place, t.pos[k] = -1 => position = None,
         ~ (position = None /\ t.pos[k] = None), Dealt(t, k, position)
  PROVE  Dealt(v, k, position)
<1> DEFINE n == Len(deal)
           turn == [rule |-> k, place |-> place, deal |-> deal]
           first == FirstPlace(position, n)
           N == Len(t.turns) + 1
<1>1. n \in Nat \ {0} /\ Places(deal) = 0 .. n - 1
  BY DEF Places
<1>2. None # -1 /\ None \notin Nat
  BY AssignmentAssumption
<1>3. t.pos[k] \in {None, -1} \cup Nat /\ t.turns \in Seq(Turn)
  BY DEF TxnRow
<1> HIDE DEF n
<1>4. first \in 0 .. n - 1
  <2>1. (IF position = None THEN -1 ELSE position) \in Nat \cup {-1}
    OBVIOUS
  <2>2. QED
    BY <1>1, <2>1, NextPlaceIs DEF FirstPlace
<1>5. place \in 0 .. n - 1
  <2>1. (IF t.pos[k] = None THEN position ELSE t.pos[k]) \in Nat \cup {-1}
    BY <1>3
  <2>2. QED
    BY <1>1, <2>1, NextPlaceIs DEF n
<1>6. turn \in Turn /\ turn.rule = k /\ turn.place = place /\ turn.deal = deal
  BY <1>5 DEF Turn
<1> HIDE DEF turn
<1>7. /\ \A j \in TurnsAt(t.turns, k) : v.turns[j] = t.turns[j]
      /\ v.turns[N] = turn /\ TurnsAt(v.turns, k) = TurnsAt(t.turns, k) \cup {N}
      /\ \A p : Tally(v.turns, k, p) =
                  IF place = p THEN Tally(t.turns, k, p) + 1 ELSE Tally(t.turns, k, p)
  <2>1. v.turns = Append(t.turns, turn)
    BY DEF turn
  <2>2. Took(t.turns, turn, k, v.turns)
    BY <1>3, <1>6, <2>1, TurnTaken
  <2>3. QED
    BY <2>2, <1>6 DEF Took
<1>8. \A p : Tally(t.turns, k, p) \in Nat
  BY <1>3, TallyNat
<1>9. place \in Nat /\ \A j \in TurnsAt(v.turns, k) : v.turns[j].deal # <<>>
  <2>1. place \in Nat
    BY <1>1, <1>5
  <2>2. \A j \in TurnsAt(t.turns, k) : v.turns[j].deal # <<>>
    BY <1>7 DEF Dealt
  <2>3. QED
    BY <2>1, <2>2, <1>6, <1>7
<1>10. ASSUME \A h \in TurnsAt(v.turns, k) : v.turns[h].deal = deal
       PROVE  GoneRound(v.turns, k, deal, first, place)
  <2>1. CASE TurnsAt(t.turns, k) = {}
    <3>1. \A p : Tally(t.turns, k, p) = 0
      BY <2>1, FS_EmptySet DEF Tally
    <3>2. t.pos[k] \in {None, -1}
      BY <2>1 DEF Dealt
    <3>3. first = place
      BY <3>2, <1>2 DEF FirstPlace, n
    <3>4. \A p \in 0 .. n - 1 : InArc(p, place, place) = IF place = p THEN 1 ELSE 0
      BY <1>1, <1>5 DEF InArc, Arc
    <3> HIDE DEF first
    <3>5. \A p \in 0 .. n - 1 : Tally(v.turns, k, p) = InArc(p, first, place)
      BY <1>7, <3>1, <3>3, <3>4
    <3>6. \A p \in 0 .. n - 1 : InArc(p, first, place) \in Int
      BY DEF InArc
    <3>7. QED
      BY <1>1, <1>5, <3>5, <3>6 DEF GoneRound
  <2>2. CASE TurnsAt(t.turns, k) # {}
    <3>1. PICK j \in TurnsAt(t.turns, k) : TRUE
      BY <2>2
    <3>2. \A h \in TurnsAt(t.turns, k) : t.turns[h].deal = deal
      BY <1>7, <1>10
    <3>3. t.pos[k] \in Nat /\ GoneRound(t.turns, k, deal, first, t.pos[k])
      BY <3>1, <3>2 DEF Dealt, n
    <3> HIDE DEF first
    <3>4. t.pos[k] \in 0 .. n - 1 /\ place = NextPlace(t.pos[k], n)
      BY <1>1, <1>2, <3>3 DEF GoneRound, n
    <3>5. ASSUME NEW p \in 0 .. n - 1, NEW q \in 0 .. n - 1
          PROVE  Tally(v.turns, k, p) + InArc(q, first, place)
                   = Tally(v.turns, k, q) + InArc(p, first, place)
      <4>1. Tally(t.turns, k, p) + InArc(q, first, t.pos[k])
              = Tally(t.turns, k, q) + InArc(p, first, t.pos[k])
        BY <1>1, <3>3 DEF GoneRound
      <4>2. InArc(p, first, t.pos[k]) + (IF place = p THEN 1 ELSE 0) + InArc(q, first, place)
              = InArc(q, first, t.pos[k]) + (IF place = q THEN 1 ELSE 0) + InArc(p, first, place)
        BY <1>1, <1>4, <3>4, ArcGrows
      <4>3. /\ InArc(p, first, t.pos[k]) \in Int /\ InArc(q, first, t.pos[k]) \in Int
            /\ InArc(p, first, place) \in Int /\ InArc(q, first, place) \in Int
        BY DEF InArc
      <4>4. /\ Tally(t.turns, k, p) \in Nat /\ Tally(t.turns, k, q) \in Nat
            /\ Tally(v.turns, k, p) = IF place = p THEN Tally(t.turns, k, p) + 1
                                      ELSE Tally(t.turns, k, p)
            /\ Tally(v.turns, k, q) = IF place = q THEN Tally(t.turns, k, q) + 1
                                      ELSE Tally(t.turns, k, q)
        BY <1>7, <1>8
      <4>5. /\ Tally(v.turns, k, p) = Tally(t.turns, k, p) + (IF place = p THEN 1 ELSE 0)
            /\ Tally(v.turns, k, q) = Tally(t.turns, k, q) + (IF place = q THEN 1 ELSE 0)
        BY <4>4
      <4> DEFINE a == Tally(t.turns, k, p)
                 b == Tally(t.turns, k, q)
                 x == InArc(p, first, t.pos[k])
                 y == InArc(q, first, t.pos[k])
                 z == InArc(p, first, place)
                 w == InArc(q, first, place)
                 d == IF place = p THEN 1 ELSE 0
                 e == IF place = q THEN 1 ELSE 0
      <4>6. /\ a \in Int /\ b \in Int /\ x \in Int /\ y \in Int /\ z \in Int /\ w \in Int
            /\ d \in Int /\ e \in Int
        BY <4>3, <4>4
      <4>7. a + y = b + x /\ x + d + w = y + e + z
        BY <4>1, <4>2
      <4>8. Tally(v.turns, k, p) = a + d /\ Tally(v.turns, k, q) = b + e
        BY <4>5
      <4> HIDE DEF a, b, x, y, z, w, d, e
      <4>9. (a + d) + w = (b + e) + z
        BY <4>6, <4>7, Combined
      <4>10. QED
        BY <4>8, <4>9 DEF z, w
    <3>6. QED
      BY <1>1, <1>5, <3>5 DEF GoneRound
  <2>3. QED
    BY <2>1, <2>2
<1>11. \A j \in TurnsAt(v.turns, k) :
         (\A h \in TurnsAt(v.turns, k) : v.turns[h].deal = v.turns[j].deal) => v.turns[j].deal = deal
  BY <1>6, <1>7
<1>12. TurnsAt(v.turns, k) # {}
  BY <1>7
<1>13. QED
  BY <1>9, <1>10, <1>11, <1>12 DEF Dealt, n

LEMMA InsertKeeps ==
  ASSUME AssignmentInv, NEW r \in Request, Insert(r)
  PROVE  AssignmentInv'
<1> DEFINE k == txn[r].rule
           missing == cursor[k] = None /\ txn[r].pos[k] = None
           t == [txn[r] EXCEPT !.at = "lock", !.pos[k] = IF missing THEN -1 ELSE @]
<1>1. /\ txn[r].at = "insert" /\ FreeFor(r, k)
      /\ lock' = [lock EXCEPT ![k] = IF missing THEN r ELSE @]
      /\ UNCHANGED <<rule, group, roster, cursor, served>>
  BY DEF Insert
<1>2. txn[r] \in TxnRow /\ txn \in [Request -> TxnRow]
  BY DEF AssignmentInv, ShapeInv
<1>3. Reachable(txn[r], roster) /\ k \in Rule
  BY <1>1 DEF AssignmentInv, SeenInv, Reachable
<1>4. txn' = [txn EXCEPT ![r] = t]
  BY <1>2 DEF Insert
<1>5. \A j \in Rule : txn[r].pos[j] # -1
  BY <1>1 DEF AssignmentInv, LockInv
<1>6. /\ t \in TxnRow /\ t.open = txn[r].open /\ t.left = txn[r].left /\ t.at = "lock"
      /\ t.roster = txn[r].roster /\ t.rule = k /\ t.deal = txn[r].deal
      /\ t.turns = txn[r].turns /\ t.given = txn[r].given /\ t.seen = txn[r].seen
      /\ t.pos = [txn[r].pos EXCEPT ![k] = IF missing THEN -1 ELSE txn[r].pos[k]]
  BY <1>2, <1>3 DEF TxnRow
<1> HIDE DEF t
<1>7. Reachable(t, roster)
  BY <1>1, <1>3, <1>6 DEF Reachable
<1>8. CASE ~missing
  <2>1. t.pos = txn[r].pos
    BY <1>2, <1>6, <1>8 DEF TxnRow
  <2>2. UNCHANGED lock
    BY <1>1, <1>8 DEF AssignmentInv, ShapeInv
  <2>3. /\ UNCHANGED <<rule, group, roster, cursor, lock, served>>
        /\ \A j \in Rule : t.pos[j] = -1 => t.at = "lock" /\ t.rule = j
    BY <2>1, <2>2, <1>1, <1>5
  <2> HIDE DEF k, missing
  <2>4. QED
    BY <2>1, <2>3, <1>4, <1>6, <1>7, QuietKeeps
<1>9. CASE missing
  <2>1. None \notin Request /\ None # -1 /\ None \notin Nat
    BY AssignmentAssumption
  <2>2. lock[k] = None
    BY <2>1, <1>1, <1>3, <1>9 DEF FreeFor, AssignmentInv, LockInv
  <2>3. /\ t.pos[k] = -1 /\ \A j \in Rule \ {k} : t.pos[j] = txn[r].pos[j]
        /\ lock'[k] = r /\ \A j \in Rule \ {k} : lock'[j] = lock[j]
    BY <1>1, <1>2, <1>3, <1>6, <1>9 DEF TxnRow, AssignmentInv, ShapeInv
  <2>4. /\ txn' \in [Request -> TxnRow] /\ txn'[r] = t
        /\ \A q \in Request \ {r} : txn'[q] = txn[q]
    BY <1>4, <1>6, RowSet DEF AssignmentInv
  <2>5. ShapeInv'
    BY <2>4, <1>1, <1>3 DEF AssignmentInv, ShapeInv
  <2>6. LockInv'
    <3>1. ASSUME NEW q \in Request, NEW j \in Rule
          PROVE  /\ lock'[j] = q <=> txn'[q].pos[j] # None
                 /\ txn'[q].pos[j] = -1 =>
                      cursor'[j] = None /\ txn'[q].at = "lock" /\ txn'[q].rule = j
      <4>1. /\ lock[j] = q <=> txn[q].pos[j] # None
            /\ txn[q].pos[j] = -1 => cursor[j] = None /\ txn[q].at = "lock" /\ txn[q].rule = j
        BY DEF AssignmentInv, LockInv
      <4>2. CASE q = r /\ j = k
        BY <4>2, <2>1, <2>3, <2>4, <1>1, <1>6, <1>9
      <4>3. CASE q = r /\ j # k
        BY <4>1, <4>3, <2>3, <2>4, <1>5
      <4>4. CASE q # r
        BY <4>1, <4>4, <2>1, <2>2, <2>3, <2>4, <1>1
      <4>5. QED
        BY <4>2, <4>3, <4>4
    <3>2. QED
      BY <3>1 DEF LockInv
  <2>7. SeenInv'
    BY <2>4, <1>1, <1>7 DEF AssignmentInv, SeenInv
  <2>8. TurnsInv'
    <3>1. ASSUME NEW j \in Rule
          PROVE  Dealt(t, j, cursor[j])
      <4>1. Dealt(txn[r], j, cursor[j])
        BY DEF AssignmentInv, TurnsInv
      <4>2. CASE j = k
        <5>1. TurnsAt(txn[r].turns, k) = {}
          BY <4>1, <4>2, <2>1, <1>9 DEF Dealt
        <5>2. QED
          BY <4>2, <5>1, <2>3, <1>6 DEF Dealt
      <4>3. CASE j # k
        BY <4>1, <4>3, <2>3, <1>6 DEF Dealt
      <4>4. QED
        BY <4>2, <4>3
    <3>2. QED
      BY <3>1, <2>4, <1>1 DEF AssignmentInv, TurnsInv
  <2>9. ServedInv'
    BY <1>1 DEF AssignmentInv, ServedInv
  <2>10. QED
    BY <2>5, <2>6, <2>7, <2>8, <2>9 DEF AssignmentInv
<1>10. QED
  BY <1>8, <1>9

LEMMA LockKeeps ==
  ASSUME AssignmentInv, NEW r \in Request, Lock(r)
  PROVE  AssignmentInv'
<1> DEFINE t == txn[r]
           k == t.rule
           from == IF t.pos[k] = None THEN cursor[k] ELSE t.pos[k]
           place == NextPlace(from, Len(t.deal))
           turn == [rule |-> k, place |-> place, deal |-> t.deal]
           m == t.deal[place + 1]
           v == [Decided(t, m) EXCEPT !.pos[k] = place, !.turns = Append(@, turn)]
<1>1. /\ t.open /\ t.at = "lock" /\ FreeFor(r, k) /\ ~RowGone(r)
      /\ lock' = [lock EXCEPT ![k] = r] /\ txn' = [txn EXCEPT ![r] = v]
      /\ UNCHANGED <<rule, group, roster, cursor, served>>
  BY DEF Lock, MayLock
<1>2. t \in TxnRow /\ txn \in [Request -> TxnRow] /\ cursor \in [Rule -> {None} \cup Nat]
  BY DEF AssignmentInv, ShapeInv
<1>3. /\ Reachable(t, roster) /\ k \in Rule /\ t.left > 0 /\ t.deal \in Seq(Member) /\ t.deal # <<>>
      /\ \A i \in DOMAIN t.deal : t.deal[i] \in t.seen
  <2>1. Reachable(t, roster)
    BY DEF AssignmentInv, SeenInv
  <2>2. t.deal \in Seq(Member)
    BY <1>2 DEF TxnRow
  <2>3. QED
    BY <2>1, <2>2, <1>1 DEF Reachable
<1>4. None \notin Request /\ None # -1 /\ None \notin Nat
  BY AssignmentAssumption
<1>5. \A j \in Rule : /\ lock[j] = r <=> t.pos[j] # None
                      /\ t.pos[j] = -1 => cursor[j] = None /\ j = k
  BY DEF AssignmentInv, LockInv
<1>6. from \in Nat \cup {-1} /\ ~ (cursor[k] = None /\ t.pos[k] = None)
  <2>1. t.pos[k] \in {None, -1} \cup Nat /\ cursor[k] \in {None} \cup Nat
    BY <1>2, <1>3 DEF TxnRow
  <2>2. QED
    BY <2>1, <1>1 DEF RowGone
<1>7. place \in 0 .. Len(t.deal) - 1 /\ Len(t.deal) \in Nat \ {0}
  <2>1. Len(t.deal) \in Nat \ {0}
    BY <1>3
  <2>2. QED
    BY <2>1, <1>6, NextPlaceIs
<1>8. m \in Member /\ m \in t.seen /\ m \in Member \cup {None}
  <2>1. place + 1 \in DOMAIN t.deal
    BY <1>3, <1>7
  <2>2. QED
    BY <2>1, <1>3
<1>9. turn \in Turn
  BY <1>3, <1>7 DEF Turn
<1>10. /\ Decided(t, m) \in TxnRow /\ Reachable(Decided(t, m), roster)
       /\ Decided(t, m).turns = t.turns /\ Decided(t, m).pos = t.pos
       /\ Decided(t, m).at = "route" /\ Decided(t, m).open /\ roster \subseteq t.seen
  <2>1. roster \subseteq t.seen /\ t.given \subseteq t.seen
        /\ (t.roster # None => t.roster \subseteq t.seen)
    BY <1>1, <1>3 DEF Reachable
  <2>2. Decided(t, m).at = "route" /\ Decided(t, m).open
    BY <1>1, <1>2 DEF Decided, TxnRow
  <2> HIDE DEF t, m
  <2>3. QED
    BY <2>1, <2>2, <1>1, <1>2, <1>3, <1>8, DecidedKeeps
<1> DEFINE d == Decided(t, m)
<1>11. /\ v \in TxnRow /\ v.turns = Append(t.turns, turn) /\ v.open = d.open /\ v.at = d.at
       /\ v.roster = d.roster /\ v.given = d.given /\ v.seen = d.seen
       /\ v.pos[k] = place /\ \A j \in Rule \ {k} : v.pos[j] = t.pos[j]
       /\ v.left = d.left /\ v.rule = d.rule /\ v.deal = d.deal
  <2>1. d \in TxnRow /\ d.turns = t.turns /\ d.pos = t.pos
    BY <1>10
  <2>2. place \in Nat
    BY <1>7
  <2> HIDE DEF d, turn, place
  <2>3. v = [d EXCEPT !.pos[k] = place, !.turns = Append(@, turn)]
    BY DEF d
  <2> HIDE DEF v, t, k
  <2>4. /\ v.turns = Append(t.turns, turn) /\ v.open = d.open /\ v.at = d.at
        /\ v.roster = d.roster /\ v.given = d.given /\ v.seen = d.seen
        /\ v.left = d.left /\ v.rule = d.rule /\ v.deal = d.deal
        /\ v.pos = [t.pos EXCEPT ![k] = place]
    BY <2>1, <2>3 DEF TxnRow
  <2>5. t.pos \in [Rule -> {None, -1} \cup Nat] /\ t.turns \in Seq(Turn)
    BY <1>2 DEF TxnRow
  <2>6. v.pos \in [Rule -> {None, -1} \cup Nat] /\ v.turns \in Seq(Turn)
    <3>1. v.pos \in [Rule -> {None, -1} \cup Nat]
      BY <2>2, <2>4, <2>5
    <3>2. v.turns \in Seq(Turn)
      BY <2>4, <2>5, <1>9
    <3>3. QED
      BY <3>1, <3>2
  <2>7. v \in TxnRow
    BY <2>1, <2>3, <2>4, <2>6 DEF TxnRow
  <2>8. QED
    BY <2>4, <2>5, <2>7, <1>3
<1>12. place \in Nat
  BY <1>7
<1>13. Reachable(v, roster)
  <2> HIDE DEF v, d
  <2>1. Reachable(d, roster) /\ d.open /\ d.at = "route"
    BY <1>10 DEF d
  <2>2. QED
    BY <2>1, <1>11 DEF Reachable
<1>14. \A j \in Rule : Dealt(t, j, cursor[j])
  BY DEF AssignmentInv, TurnsInv
<1>15. /\ txn' \in [Request -> TxnRow] /\ txn'[r] = v
       /\ \A q \in Request \ {r} : txn'[q] = txn[q]
  <2> HIDE DEF v
  <2>1. QED
    BY <1>1, <1>11, RowSet DEF AssignmentInv
<1>16. \A j \in Rule : Dealt(v, j, cursor[j])
  <2>1. cursor[k] \in {None} \cup Nat /\ (t.pos[k] = -1 => cursor[k] = None) /\ Dealt(t, k, cursor[k])
    BY <1>2, <1>3, <1>5, <1>14
  <2>2. /\ v.turns = Append(t.turns, [rule |-> k, place |-> place, deal |-> t.deal])
        /\ place = NextPlace(IF t.pos[k] = None THEN cursor[k] ELSE t.pos[k], Len(t.deal))
    BY <1>11
  <2> HIDE DEF v, place
  <2>3. Dealt(v, k, cursor[k])
    <3>1. /\ v \in TxnRow /\ t \in TxnRow /\ k \in Rule /\ t.deal \in Seq(Member) /\ t.deal # <<>>
          /\ v.pos[k] = place /\ ~ (cursor[k] = None /\ t.pos[k] = None)
      BY <1>2, <1>3, <1>6, <1>11
    <3> HIDE DEF t, k, turn, m, d
    <3>2. QED
      BY <2>1, <2>2, <3>1, DealtGrows
  <2>4. ASSUME NEW j \in Rule \ {k}
        PROVE  Dealt(v, j, cursor[j])
    <3>1. turn.rule = k /\ v.turns = Append(t.turns, turn) /\ v.pos[j] = t.pos[j]
      BY <1>11
    <3>2. Dealt(t, j, cursor[j])
      BY <1>14
    <3> HIDE DEF turn, t
    <3>3. QED
      BY <3>1, <3>2, <1>2, <1>3, <1>9, <1>11, DealtElsewhere
  <2>5. QED
    BY <2>3, <2>4
<1> HIDE DEF v, place, m, turn, d
<1>17. ShapeInv'
  BY <1>1, <1>3, <1>15 DEF AssignmentInv, ShapeInv
<1>18. LockInv'
  <2>1. lock'[k] = r /\ \A j \in Rule \ {k} : lock'[j] = lock[j]
    BY <1>1, <1>3 DEF AssignmentInv, ShapeInv
  <2>2. ASSUME NEW q \in Request, NEW j \in Rule
        PROVE  /\ lock'[j] = q <=> txn'[q].pos[j] # None
               /\ txn'[q].pos[j] = -1 =>
                    cursor'[j] = None /\ txn'[q].at = "lock" /\ txn'[q].rule = j
    <3>1. /\ lock[j] = q <=> txn[q].pos[j] # None
          /\ txn[q].pos[j] = -1 => cursor[j] = None /\ txn[q].at = "lock" /\ txn[q].rule = j
      BY DEF AssignmentInv, LockInv
    <3>2. CASE q = r /\ j = k
      <4>1. txn'[q].pos[j] = place /\ place # None /\ place # -1
        BY <3>2, <1>4, <1>11, <1>12, <1>15
      <4>2. QED
        BY <4>1, <3>2, <2>1
    <3>3. CASE q = r /\ j # k
      BY <3>1, <3>3, <2>1, <1>5, <1>11, <1>15
    <3>4. CASE q # r
      <4>1. lock'[j] = q <=> lock[j] = q
        BY <3>4, <2>1, <1>1, <1>4 DEF FreeFor
      <4>2. QED
        BY <4>1, <3>1, <3>4, <1>1, <1>15
    <3>5. QED
      BY <3>2, <3>3, <3>4
  <2>3. QED
    BY <2>2 DEF LockInv
<1>19. SeenInv' /\ TurnsInv'
  BY <1>1, <1>13, <1>15, <1>16 DEF AssignmentInv, SeenInv, TurnsInv
<1>20. ServedInv'
  BY <1>1 DEF AssignmentInv, ServedInv
<1>21. QED
  BY <1>17, <1>18, <1>19, <1>20 DEF AssignmentInv

(* Counts that differ by an arc are even once they are levelled.             *)
LEMMA LevelEven ==
  ASSUME NEW n \in Nat \ {0}, NEW first \in 0 .. n - 1, NEW last \in 0 .. n - 1,
         NEW count \in [0 .. n - 1 -> Int],
         \A p, q \in 0 .. n - 1 :
           count[p] + InArc(q, first, last) = count[q] + InArc(p, first, last)
  PROVE  Even(Level(count), 0 .. n - 1, last)
BY LevelArc DEF Even

(* A committed request's turns keep the counts even: without one nothing     *)
(* changes, turns from another deal start them afresh, and turns from this   *)
(* deal go on from the cursor, where the turns before them ended.            *)
LEMMA CountedEven ==
  ASSUME ShapeInv, NEW k \in Rule, NEW t \in TxnRow, t.pos[k] # -1, Dealt(t, k, cursor[k]),
         NEW count, Even(count, Places(Deal(rule[k], group, roster)), cursor[k])
  PROVE  Even(Counted(count, t.turns, k), Places(Deal(rule[k], group, roster)),
              IF t.pos[k] = None THEN cursor[k] ELSE t.pos[k])
<1> DEFINE deal == Deal(rule[k], group, roster)
           n == Len(deal)
           turns == t.turns
           total == [i \in 0 .. n - 1 |-> count[i] + Tally(turns, k, i)]
<1>1. n \in Nat /\ deal \in Seq(Member) /\ Places(deal) = 0 .. n - 1
  <2>1. rule[k] \in RuleRow /\ group \in Seq(Member)
    BY AssignmentAssumption DEF ShapeInv
  <2>2. deal \in Seq(Member)
    BY <2>1, DealTyped
  <2> HIDE DEF deal
  <2>3. QED
    BY <2>2 DEF Places
<1>2. /\ None \notin Int /\ cursor[k] \in {None} \cup Nat
      /\ t.pos[k] \in {None} \cup Nat /\ turns \in Seq(Turn)
  BY AssignmentAssumption DEF ShapeInv, TxnRow
<1>3. \A p : Tally(turns, k, p) \in Nat
  BY <1>2, TallyNat
<1>4. Counted(count, turns, k) =
        IF \E j \in TurnsAt(turns, k) : turns[j].deal # deal
        THEN [i \in 0 .. n - 1 |-> 0] ELSE Level(total)
  BY <1>1 DEF Counted
<1>5. /\ count \in [0 .. n - 1 -> Int] /\ total \in [0 .. n - 1 -> Int]
      /\ \A i \in 0 .. n - 1 : total[i] = count[i] + Tally(turns, k, i)
  <2>1. count \in [0 .. n - 1 -> Int]
    BY <1>1 DEF Even, InArc
  <2>2. QED
    BY <2>1, <1>3
<1>6. \/ \A i \in 0 .. n - 1 : count[i] = 0
      \/ /\ cursor[k] \in 0 .. n - 1
         /\ \E first \in 0 .. n - 1 : \A i \in 0 .. n - 1 : count[i] = InArc(i, first, cursor[k])
  BY <1>1 DEF Even
<1> HIDE DEF deal, n, turns, total
<1>7. \A i, first, last : InArc(i, first, last) \in Int
  BY DEF InArc
<1>8. CASE \E j \in TurnsAt(turns, k) : turns[j].deal # deal
  <2>1. Even(Counted(count, turns, k), 0 .. n - 1, IF t.pos[k] = None THEN cursor[k] ELSE t.pos[k])
    BY <1>4, <1>8 DEF Even
  <2>2. QED
    BY <2>1, <1>1 DEF deal, turns
<1>9. CASE TurnsAt(turns, k) = {}
  <2>1. t.pos[k] = None
    BY <1>2, <1>9 DEF Dealt, turns
  <2>2. \A i \in 0 .. n - 1 : total[i] = count[i]
    <3>1. \A i : Tally(turns, k, i) = 0
      BY <1>9, FS_EmptySet DEF Tally
    <3>2. QED
      BY <3>1, <1>5
  <2>3. Even(Level(total), 0 .. n - 1, cursor[k])
    <3>1. CASE \A i \in 0 .. n - 1 : count[i] = 0
      <4>1. \A p, q \in 0 .. n - 1 : total[p] = total[q]
        BY <3>1, <2>2
      <4>2. Level(total) = [i \in 0 .. n - 1 |-> 0]
        BY <4>1, <1>1, <1>5, LevelFlat
      <4>3. QED
        BY <4>2 DEF Even
    <3>2. ASSUME cursor[k] \in 0 .. n - 1, NEW first \in 0 .. n - 1,
                 \A i \in 0 .. n - 1 : count[i] = InArc(i, first, cursor[k])
          PROVE  Even(Level(total), 0 .. n - 1, cursor[k])
      <4>1. \A p, q \in 0 .. n - 1 :
              total[p] + InArc(q, first, cursor[k]) = total[q] + InArc(p, first, cursor[k])
        <5>1. ASSUME NEW p \in 0 .. n - 1, NEW q \in 0 .. n - 1
              PROVE  total[p] + InArc(q, first, cursor[k]) = total[q] + InArc(p, first, cursor[k])
          <6>1. total[p] = InArc(p, first, cursor[k]) /\ total[q] = InArc(q, first, cursor[k])
            BY <3>2, <2>2
          <6>2. total[p] \in Int /\ total[q] \in Int
            BY <1>5
          <6>3. QED
            BY <6>1, <6>2
        <5>2. QED
          BY <5>1
      <4>2. n \in Nat \ {0}
        BY <1>1, <3>2
      <4>3. QED
        BY <4>1, <4>2, <3>2, <1>5, LevelEven
    <3>3. QED
      BY <3>1, <3>2, <1>6
  <2>4. QED
    BY <2>1, <2>3, <1>1, <1>4, <1>9 DEF deal, turns
<1>10. CASE TurnsAt(turns, k) # {} /\ \A j \in TurnsAt(turns, k) : turns[j].deal = deal
  <2> DEFINE last == t.pos[k]
             next == FirstPlace(cursor[k], n)
  <2>1. /\ last \in Nat /\ deal # <<>> /\ GoneRound(turns, k, deal, next, last)
    BY <1>10 DEF Dealt, turns, n
  <2>2. n \in Nat \ {0}
    BY <2>1, <1>1 DEF n
  <2>3. last \in 0 .. n - 1
    BY <2>1, <1>1 DEF GoneRound
  <2>4. next \in 0 .. n - 1
    <3>1. (IF cursor[k] = None THEN -1 ELSE cursor[k]) \in Nat \cup {-1}
      BY <1>2
    <3>2. QED
      BY <3>1, <2>2, NextPlaceIs DEF FirstPlace
  <2>5. \A p, q \in 0 .. n - 1 :
          Tally(turns, k, p) + InArc(q, next, last) = Tally(turns, k, q) + InArc(p, next, last)
    BY <2>1, <1>1 DEF GoneRound
  <2>6. Even(Level(total), 0 .. n - 1, last)
    <3> HIDE DEF last
    <3>1. CASE \A i \in 0 .. n - 1 : count[i] = 0
      <4> HIDE DEF next
      <4>1. \A i \in 0 .. n - 1 : total[i] = Tally(turns, k, i)
        BY <3>1, <1>3, <1>5
      <4>2. \A p, q \in 0 .. n - 1 :
              total[p] + InArc(q, next, last) = total[q] + InArc(p, next, last)
        BY <4>1, <2>5
      <4>3. QED
        BY <4>2, <2>2, <2>3, <2>4, <1>5, LevelEven
    <3>2. ASSUME cursor[k] \in 0 .. n - 1, NEW first \in 0 .. n - 1,
                 \A i \in 0 .. n - 1 : count[i] = InArc(i, first, cursor[k])
          PROVE  Even(Level(total), 0 .. n - 1, last)
      <4>1. next = NextPlace(cursor[k], n)
        BY <3>2, <1>2 DEF FirstPlace
      <4> HIDE DEF next
      <4>2. ASSUME NEW p \in 0 .. n - 1, NEW q \in 0 .. n - 1
            PROVE  total[p] + InArc(q, first, last) = total[q] + InArc(p, first, last)
        <5>1. InArc(p, first, cursor[k]) + InArc(p, next, last) + InArc(q, first, last)
                = InArc(q, first, cursor[k]) + InArc(q, next, last) + InArc(p, first, last)
          BY <4>1, <3>2, <2>2, <2>3, ArcsJoin
        <5>2. Tally(turns, k, p) + InArc(q, next, last) = Tally(turns, k, q) + InArc(p, next, last)
          BY <2>5
        <5>3. /\ total[p] = InArc(p, first, cursor[k]) + Tally(turns, k, p)
              /\ total[q] = InArc(q, first, cursor[k]) + Tally(turns, k, q)
          BY <3>2, <1>5
        <5> DEFINE a == InArc(p, first, cursor[k])
                   b == InArc(q, first, cursor[k])
                   c == InArc(p, next, last)
                   d == InArc(q, next, last)
                   e == InArc(p, first, last)
                   f == InArc(q, first, last)
                   x == Tally(turns, k, p)
                   y == Tally(turns, k, q)
        <5>4. /\ a \in Int /\ b \in Int /\ c \in Int /\ d \in Int /\ e \in Int /\ f \in Int
              /\ x \in Int /\ y \in Int
          BY <1>3, <1>7
        <5>5. /\ a + c + f = b + d + e /\ x + d = y + c
              /\ total[p] = a + x /\ total[q] = b + y
          BY <5>1, <5>2, <5>3
        <5> HIDE DEF a, b, c, d, e, f, x, y
        <5>6. (a + x) + f = (b + y) + e
          BY <5>4, <5>5
        <5>7. QED
          BY <5>5, <5>6 DEF e, f
      <4>3. QED
        BY <4>2, <3>2, <2>2, <2>3, <1>5, LevelEven
    <3>3. QED
      BY <3>1, <3>2, <1>6
  <2>7. t.pos[k] # None
    BY <2>1, <1>2
  <2>8. QED
    BY <2>6, <2>7, <1>1, <1>4, <1>10 DEF deal, turns
<1>11. QED
  BY <1>8, <1>9, <1>10

LEMMA CommitKeeps ==
  ASSUME AssignmentInv, NEW r \in Request, Commit(r)
  PROVE  AssignmentInv'
<1> DEFINE t == txn[r]
<1>1. /\ t.open /\ t.left = 0
      /\ cursor' = [k \in Rule |-> IF t.pos[k] = None THEN cursor[k] ELSE t.pos[k]]
      /\ lock' = [k \in Rule |-> IF lock[k] = r THEN None ELSE lock[k]]
      /\ txn' = [txn EXCEPT ![r] = NoTxn]
      /\ served' = [k \in Rule |-> Counted(served[k], t.turns, k)]
      /\ UNCHANGED <<rule, group, roster>>
  BY DEF Commit, Released
<1>2. /\ txn' \in [Request -> TxnRow] /\ txn'[r] = NoTxn
      /\ \A q \in Request \ {r} : txn'[q] = txn[q]
  BY <1>1, NoTxnTyped, RowSet DEF AssignmentInv
<1>3. None \notin Request /\ None # -1 /\ None \notin Nat
  BY AssignmentAssumption
<1>4. t \in TxnRow /\ t.at = "route"
  BY <1>1 DEF AssignmentInv, ShapeInv, SeenInv, Reachable
<1>5. \A k \in Rule : t.pos[k] # -1 /\ (t.pos[k] # None <=> lock[k] = r)
  BY <1>4 DEF AssignmentInv, LockInv
<1>6. ShapeInv'
  <2>1. \A k \in Rule : t.pos[k] \in {None} \cup Nat
    BY <1>4, <1>5 DEF TxnRow
  <2>2. cursor' \in [Rule -> {None} \cup Nat]
    BY <2>1, <1>1 DEF AssignmentInv, ShapeInv
  <2>3. QED
    BY <2>2, <1>1, <1>2 DEF AssignmentInv, ShapeInv
<1>7. \A q \in Request \ {r}, k \in Rule :
        \/ cursor'[k] = cursor[k]
        \/ txn[q].pos[k] = None
  BY <1>1, <1>5 DEF AssignmentInv, LockInv
<1>8. LockInv'
  <2>1. ASSUME NEW q \in Request, NEW k \in Rule
        PROVE  /\ lock'[k] = q <=> txn'[q].pos[k] # None
               /\ txn'[q].pos[k] = -1 => cursor'[k] = None /\ txn'[q].at = "lock" /\ txn'[q].rule = k
    <3>1. CASE q = r
      BY <3>1, <1>1, <1>2, <1>3, NoTxnTyped
    <3>2. CASE q # r
      BY <3>2, <1>1, <1>2, <1>3, <1>7 DEF AssignmentInv, LockInv
    <3>3. QED
      BY <3>1, <3>2
  <2>2. QED
    BY <2>1 DEF LockInv
<1>9. SeenInv'
  BY <1>1, <1>2, NoTxnTyped DEF AssignmentInv, SeenInv
<1>10. TurnsInv'
  <2>1. ASSUME NEW q \in Request \ {r}, NEW k \in Rule
        PROVE  Dealt(txn[q], k, cursor'[k])
    <3>1. Dealt(txn[q], k, cursor[k])
      BY DEF AssignmentInv, TurnsInv
    <3>2. CASE txn[q].pos[k] = None
      <4>1. TurnsAt(txn[q].turns, k) = {}
        BY <3>1, <3>2, <1>3 DEF Dealt
      <4>2. QED
        BY <3>2, <4>1 DEF Dealt
    <3>3. QED
      BY <3>1, <3>2, <1>7
  <2>2. QED
    BY <2>1, <1>2, NoTxnTyped DEF TurnsInv
<1>11. ServedInv'
  <2>1. ASSUME NEW k \in Rule
        PROVE  Even(served'[k], Places(Deal(rule[k], group, roster)), cursor'[k])
    <3>1. Dealt(t, k, cursor[k]) /\ t.pos[k] # -1
      BY <1>5 DEF AssignmentInv, TurnsInv
    <3>2. Even(served[k], Places(Deal(rule[k], group, roster)), cursor[k])
      BY DEF AssignmentInv, ServedInv
    <3>3. ShapeInv
      BY DEF AssignmentInv
    <3>4. served'[k] = Counted(served[k], t.turns, k)
          /\ cursor'[k] = IF t.pos[k] = None THEN cursor[k] ELSE t.pos[k]
      BY <1>1
    <3> HIDE DEF t
    <3>5. Even(Counted(served[k], t.turns, k), Places(Deal(rule[k], group, roster)),
               IF t.pos[k] = None THEN cursor[k] ELSE t.pos[k])
      BY <3>1, <3>2, <3>3, <1>4, CountedEven
    <3>6. QED
      BY <3>4, <3>5
  <2>2. QED
    BY <2>1, <1>1 DEF ServedInv
<1>12. QED
  BY <1>6, <1>8, <1>9, <1>10, <1>11 DEF AssignmentInv

-----------------------------------------------------------------------------
(* The settings screen. *)

(* A change of the settings: it starts the counts afresh, and takes the      *)
(* cursor of no rule a request has a turn at.                               *)
Resettled ==
  /\ UNCHANGED lock /\ served' = Unserved(rule', group', roster')
  /\ \A r \in Request : /\ txn'[r].pos = txn[r].pos /\ txn'[r].turns = txn[r].turns
                        /\ txn'[r].at = txn[r].at /\ txn'[r].rule = txn[r].rule
  /\ \A k \in Rule : \/ cursor'[k] = cursor[k]
                     \/ cursor'[k] = None /\ lock[k] = None

LEMMA ChangedKeeps ==
  ASSUME AssignmentInv, ShapeInv', SeenInv', Resettled
  PROVE  AssignmentInv'
<1>1. None \notin Request /\ None # -1 /\ None \notin Nat
  BY AssignmentAssumption
<1>2. LockInv'
  BY DEF AssignmentInv, LockInv, Resettled
<1>3. TurnsInv'
  <2>1. ASSUME NEW r \in Request, NEW k \in Rule
        PROVE  Dealt(txn'[r], k, cursor'[k])
    <3>1. Dealt(txn[r], k, cursor[k])
      BY DEF AssignmentInv, TurnsInv
    <3>2. CASE cursor'[k] = cursor[k]
      BY <3>1, <3>2 DEF Dealt, Resettled
    <3>3. CASE lock[k] = None
      <4>1. txn[r].pos[k] = None
        BY <3>3, <1>1 DEF AssignmentInv, LockInv
      <4>2. TurnsAt(txn[r].turns, k) = {}
        BY <3>1, <4>1, <1>1 DEF Dealt
      <4>3. QED
        BY <4>1, <4>2 DEF Dealt, Resettled
    <3>4. QED
      BY <3>2, <3>3 DEF Resettled
  <2>2. QED
    BY <2>1 DEF TurnsInv
<1>4. ServedInv'
  BY DEF ServedInv, Even, Unserved, Resettled
<1>5. QED
  BY <1>2, <1>3, <1>4 DEF AssignmentInv

LEMMA ConfigureKeeps ==
  ASSUME AssignmentInv, NEW k \in Rule, NEW s \in Setting, Configure(k, s)
  PROVE  AssignmentInv'
<1>1. /\ cursor[k] # None => lock[k] = None
      /\ rule' = [rule EXCEPT ![k] = SetTo(rule[k], s)] /\ cursor' = [cursor EXCEPT ![k] = None]
      /\ UNCHANGED <<group, roster, lock, txn>> /\ served' = Unserved(rule', group', roster')
  BY DEF Configure, Changed
<1>2. SetTo(rule[k], s) \in RuleRow
  <2>1. /\ s.condition \in {"all", "some", "broken"} /\ s.deal \in Seq(Member)
        /\ s.strategy \in {"list", "group", "direct", "nobody"}
    BY AssignmentAssumption
  <2>2. rule[k] \in RuleRow
    BY DEF AssignmentInv, ShapeInv
  <2>3. QED
    BY <2>1, <2>2 DEF SetTo, RuleRow
<1>3. ShapeInv'
  BY <1>1, <1>2 DEF AssignmentInv, ShapeInv
<1>4. SeenInv'
  BY <1>1 DEF AssignmentInv, SeenInv
<1>5. \A j \in Rule : cursor'[j] = cursor[j] \/ (cursor'[j] = None /\ lock[j] = None)
  <2>1. cursor \in [Rule -> {None} \cup Nat]
    BY DEF AssignmentInv, ShapeInv
  <2>2. QED
    BY <2>1, <1>1
<1>6. Resettled
  BY <1>1, <1>5 DEF Resettled
<1>7. QED
  BY <1>3, <1>4, <1>6, ChangedKeeps

LEMMA AdjustKeeps ==
  ASSUME AssignmentInv, NEW k \in Rule, NEW active \in BOOLEAN, NEW p \in 0 .. 1, NEW s \in Setting,
         Adjust(k, active, p, s.condition)
  PROVE  AssignmentInv'
<1> DEFINE row == [rule[k] EXCEPT !.active = active, !.priority = p, !.condition = s.condition]
<1>1. rule \in [Rule -> RuleRow]
  BY DEF AssignmentInv, ShapeInv
<1>2. /\ rule' = [rule EXCEPT ![k] = row] /\ UNCHANGED <<group, roster, cursor, lock, txn>>
      /\ served' = Unserved(rule', group', roster')
  BY <1>1 DEF Adjust, Changed
<1>3. row \in RuleRow
  <2>1. s.condition \in {"all", "some", "broken"} /\ p \in Nat
    BY AssignmentAssumption
  <2>2. QED
    BY <1>1, <2>1 DEF RuleRow
<1> HIDE DEF row
<1>4. ShapeInv'
  BY <1>2, <1>3 DEF AssignmentInv, ShapeInv
<1>5. SeenInv'
  BY <1>2 DEF AssignmentInv, SeenInv
<1>6. Resettled
  BY <1>2 DEF Resettled
<1>7. QED
  BY <1>4, <1>5, <1>6, ChangedKeeps

LEMMA RegroupKeeps ==
  ASSUME AssignmentInv, NEW members \in Group, Regroup(members)
  PROVE  AssignmentInv'
<1>1. /\ group' = members /\ UNCHANGED <<rule, roster, cursor, lock, txn>>
      /\ served' = Unserved(rule', group', roster')
  BY DEF Regroup, Changed
<1>2. ShapeInv'
  BY <1>1 DEF AssignmentInv, ShapeInv
<1>3. SeenInv'
  BY <1>1 DEF AssignmentInv, SeenInv
<1>4. Resettled
  BY <1>1 DEF Resettled
<1>5. QED
  BY <1>2, <1>3, <1>4, ChangedKeeps

LEMMA RosterKeeps ==
  ASSUME AssignmentInv, NEW m \in Member, Roster(m)
  PROVE  AssignmentInv'
<1> DEFINE sees(r) == [txn[r] EXCEPT
                         !.seen = IF txn[r].open THEN txn[r].seen \cup roster' ELSE txn[r].seen]
<1>1. /\ roster' = (IF m \in roster THEN roster \ {m} ELSE roster \cup {m})
      /\ UNCHANGED <<rule, group, cursor, lock>>
      /\ served' = Unserved(rule', group', roster')
      /\ txn' = [r \in Request |-> sees(r)]
  BY DEF Roster, Changed
<1>2. roster' \in SUBSET Member
  BY <1>1 DEF AssignmentInv, ShapeInv
<1>3. ASSUME NEW r \in Request
      PROVE  /\ sees(r) \in TxnRow /\ Reachable(sees(r), roster')
             /\ sees(r).pos = txn[r].pos /\ sees(r).turns = txn[r].turns
             /\ sees(r).at = txn[r].at /\ sees(r).rule = txn[r].rule
  <2> DEFINE t == txn[r]
             u == sees(r)
  <2>1. t \in TxnRow /\ Reachable(t, roster)
    BY DEF AssignmentInv, ShapeInv, SeenInv
  <2>2. /\ u \in TxnRow /\ u.pos = t.pos /\ u.turns = t.turns /\ u.at = t.at /\ u.rule = t.rule
        /\ u.seen = IF t.open THEN t.seen \cup roster' ELSE t.seen
        /\ u.open = t.open /\ u.roster = t.roster /\ u.given = t.given /\ u.left = t.left
        /\ u.deal = t.deal
    BY <2>1, <1>2 DEF TxnRow
  <2>3. ~ t.open => u = t
    BY <2>1 DEF TxnRow
  <2> HIDE DEF u, t
  <2>4. Reachable(u, roster')
    BY <2>1, <2>2, <2>3 DEF Reachable
  <2>5. QED
    BY <2>2, <2>4 DEF u, t
<1> HIDE DEF sees
<1>4. ShapeInv'
  BY <1>1, <1>2, <1>3 DEF AssignmentInv, ShapeInv
<1>5. SeenInv'
  BY <1>1, <1>3 DEF SeenInv
<1>6. Resettled
  BY <1>1, <1>3 DEF Resettled
<1>7. QED
  BY <1>4, <1>5, <1>6, ChangedKeeps

-----------------------------------------------------------------------------
(* The invariant, and what follows from it. *)

LEMMA NextKeeps == AssignmentInv /\ [Next]_vars => AssignmentInv'
<1> SUFFICES ASSUME AssignmentInv, [Next]_vars
             PROVE  AssignmentInv'
  OBVIOUS
<1>1. CASE UNCHANGED vars
  BY <1>1 DEF vars, AssignmentInv, ShapeInv, LockInv, SeenInv, TurnsInv, ServedInv
<1>2. ASSUME NEW r \in Request,
             \/ \E kind \in {"single", "batch"} : Start(r, kind)
             \/ \E hits \in SUBSET Rule : Route(r, hits)
             \/ Insert(r) \/ Lock(r) \/ Commit(r) \/ Abort(r) \/ Fail(r)
      PROVE  AssignmentInv'
  <2>1. CASE \E kind \in {"single", "batch"} : Start(r, kind)
    BY <2>1, StartKeeps
  <2>2. CASE \E hits \in SUBSET Rule : Route(r, hits)
    BY <2>2, RouteKeeps
  <2>3. CASE Insert(r)
    BY <2>3, InsertKeeps
  <2>4. CASE Lock(r)
    BY <2>4, LockKeeps
  <2>5. CASE Commit(r)
    BY <2>5, CommitKeeps
  <2>6. CASE Abort(r) \/ Fail(r)
    <3>1. RolledBack(r)
      BY <2>6 DEF Abort, Fail
    <3>2. QED
      BY <3>1, RolledBackKeeps
  <2>7. QED
    BY <1>2, <2>1, <2>2, <2>3, <2>4, <2>5, <2>6
<1>3. ASSUME NEW k \in Rule, NEW s \in Setting, Configure(k, s)
      PROVE  AssignmentInv'
  BY <1>3, ConfigureKeeps
<1>4. ASSUME NEW k \in Rule, NEW active \in BOOLEAN, NEW p \in 0 .. 1, NEW s \in Setting,
             Adjust(k, active, p, s.condition)
      PROVE  AssignmentInv'
  BY <1>4, AdjustKeeps
<1>5. ASSUME NEW members \in Group, Regroup(members)
      PROVE  AssignmentInv'
  BY <1>5, RegroupKeeps
<1>6. ASSUME NEW m \in Member, Roster(m)
      PROVE  AssignmentInv'
  BY <1>6, RosterKeeps
<1>7. QED
  BY <1>1, <1>2, <1>3, <1>4, <1>5, <1>6 DEF Next

(* Requests hold exactly the rows they have moved, have seen everybody they *)
(* may give a lead to, and go round a deal from where its cursor stands: in *)
(* every state, for any number of members, rules and overlapping requests.  *)
THEOREM AssignmentInvariant == Spec => []AssignmentInv
<1>1. Init => AssignmentInv
  BY InitHolds
<1>2. AssignmentInv /\ [Next]_vars => AssignmentInv'
  BY NextKeeps
<1>3. QED
  BY <1>1, <1>2, PTL DEF Spec

(* Every value has its type, and a request holds the row of exactly those   *)
(* cursors it has moved or created.                                         *)
THEOREM TypesHold == Spec => []TypeOK
<1>1. AssignmentInv => TypeOK
  <2> SUFFICES ASSUME AssignmentInv
               PROVE  TypeOK
    OBVIOUS
  <2>1. ASSUME NEW k \in Rule
        PROVE  /\ rule[k].deal \in Seq(Member) /\ cursor[k] \in Nat \cup {None}
               /\ lock[k] \in Request \cup {None}
               /\ DOMAIN served[k] = Places(Deal(rule[k], group, roster))
    <3>1. rule[k] \in RuleRow /\ cursor[k] \in {None} \cup Nat /\ lock[k] \in {None} \cup Request
      BY DEF AssignmentInv, ShapeInv
    <3>2. Even(served[k], Places(Deal(rule[k], group, roster)), cursor[k])
      BY DEF AssignmentInv, ServedInv
    <3>3. QED
      BY <3>1, <3>2 DEF Even, RuleRow
  <2>2. ASSUME NEW r \in Request
        PROVE  /\ txn[r].left \in 0 .. MaxBatch /\ txn[r].at \in {"route", "insert", "lock"}
               /\ LocksOf(r) = {k \in Rule : txn[r].pos[k] # None}
    <3>1. txn[r] \in TxnRow
      BY DEF AssignmentInv, ShapeInv
    <3>2. LocksOf(r) = {k \in Rule : txn[r].pos[k] # None}
      BY DEF AssignmentInv, LockInv, LocksOf
    <3>3. QED
      BY <3>1, <3>2 DEF TxnRow
  <2>3. group \in Group /\ roster \subseteq Member
    BY DEF AssignmentInv, ShapeInv
  <2>4. QED
    BY <2>1, <2>2, <2>3 DEF TypeOK
<1>2. QED
  BY <1>1, AssignmentInvariant, PTL

(* "Both hand the lead to the fifth rep, and the sixth rep gets nothing":   *)
(* under the locks on the cursors no place of a deal gets two turns more    *)
(* than another, whatever requests overlap, fail or roll back.              *)
THEOREM FairTurns == Spec => []FairShare
<1>1. AssignmentInv => FairShare
  <2> SUFFICES ASSUME AssignmentInv, NEW k \in Rule,
                      NEW i \in DOMAIN served[k], NEW j \in DOMAIN served[k]
               PROVE  served[k][i] <= served[k][j] + 1
    BY DEF FairShare
  <2>1. Even(served[k], Places(Deal(rule[k], group, roster)), cursor[k])
    BY DEF AssignmentInv, ServedInv
  <2>2. served[k][i] \in {0, 1} /\ served[k][j] \in {0, 1}
    BY <2>1 DEF Even, InArc
  <2>3. QED
    BY <2>2
<1>2. QED
  BY <1>1, AssignmentInvariant, PTL

(* "An unlicensed member cannot log in at all, so assigning to one buries   *)
(* the lead": a lead only goes to somebody who could take it at some moment *)
(* of the request.                                                          *)
THEOREM LeadsReachSomebody == Spec => []NobodyUnreachable
<1>1. AssignmentInv => NobodyUnreachable
  BY DEF AssignmentInv, SeenInv, Reachable, NobodyUnreachable
<1>2. QED
  BY <1>1, AssignmentInvariant, PTL
=============================================================================
