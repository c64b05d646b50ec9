---------------------------- MODULE UsageRelay_proofs ----------------------------
(***************************************************************************)
(* Proofs about UsageRelay, for any rows, replicas, batch sizes, stream    *)
(* lengths and faults.                                                     *)
(***************************************************************************)
EXTENDS UsageRelay, FiniteSetTheorems, SequenceTheorems, WellFoundedInduction, TLAPS

-----------------------------------------------------------------------------
(* ORDER BY id LIMIT n, and the entries of an XREADGROUP: FirstById lists  *)
(* an initial segment of the set in order.                                 *)

\* A set of naturals has a least member.
LEMMA Least == ASSUME NEW T, T \subseteq Nat, T # {} PROVE \E x \in T : \A y \in T : x <= y
  <1>1. PICK x \in T : \A y \in T : ~ (<<y, x>> \in OpToRel(<, Nat))
    BY WFMin, NatLessThanWellFounded
  <1>2. ASSUME NEW y \in T PROVE x <= y
    <2>1. ~ (<<y, x>> \in OpToRel(<, Nat))
      BY <1>1
    <2> QED BY <2>1 DEF OpToRel
  <1> QED BY <1>2

Before(S, x) == {y \in S : y < x}
Rank(S, x) == Cardinality(Before(S, x))

\* The rank of a member is a natural number, and grows with it.
LEMMA RankGrows ==
  ASSUME NEW S, S \subseteq Nat, IsFiniteSet(S), NEW x \in S
  PROVE  /\ Rank(S, x) \in Nat /\ Rank(S, x) < Cardinality(S)
         /\ \A y \in S : y < x => Rank(S, y) < Rank(S, x)
  <1>1. ASSUME NEW y \in S PROVE IsFiniteSet(Before(S, y)) /\ Rank(S, y) \in Nat
    <2>1. Before(S, y) \in SUBSET S
      BY DEF Before
    <2> QED BY <2>1, FS_Subset, FS_CardinalityType DEF Rank
  <1>2. ASSUME NEW y \in S, NEW U \in SUBSET S, y \in U, Before(S, y) \subseteq U
        PROVE  Rank(S, y) < Cardinality(U)
    <2>1. y \notin Before(S, y)
      BY DEF Before
    <2>2. Cardinality(Before(S, y) \cup {y}) = Rank(S, y) + 1
      BY <1>1, <2>1, FS_AddElement DEF Rank
    <2>3. Before(S, y) \cup {y} \in SUBSET U /\ IsFiniteSet(U) /\ Cardinality(U) \in Nat
      BY <1>2, FS_Subset, FS_CardinalityType
    <2>4. Cardinality(Before(S, y) \cup {y}) <= Cardinality(U)
      BY <2>3, FS_Subset
    <2> QED BY <1>1, <2>2, <2>3, <2>4
  <1>3. Rank(S, x) < Cardinality(S)
    <2>1. Before(S, x) \subseteq S
      BY DEF Before
    <2> QED BY <1>2, <2>1
  <1>4. ASSUME NEW y \in S, y < x PROVE Rank(S, y) < Rank(S, x)
    <2>1. y \in Before(S, x) /\ Before(S, x) \in SUBSET S
      BY <1>4 DEF Before
    <2>2. ASSUME NEW z \in S, z < y PROVE z < x
      <3>1. x \in Nat /\ y \in Nat /\ z \in Nat
        OBVIOUS
      <3> QED BY <1>4, <2>2, <3>1
    <2>3. Before(S, y) \subseteq Before(S, x)
      BY <2>2 DEF Before
    <2> QED BY <1>2, <2>1, <2>3 DEF Rank
  <1> QED BY <1>1, <1>3, <1>4

\* No two members have the same rank.
LEMMA RankTells ==
  ASSUME NEW S, S \subseteq Nat, IsFiniteSet(S), NEW x \in S, NEW y \in S, Rank(S, x) = Rank(S, y)
  PROVE  x = y
  <1>1. ~(x < y)
    <2>1. x < y => Rank(S, x) < Rank(S, y)
      BY RankGrows
    <2>2. Rank(S, y) \in Nat
      BY RankGrows
    <2> QED BY <2>1, <2>2
  <1>2. ~(y < x)
    <2>1. y < x => Rank(S, y) < Rank(S, x)
      BY RankGrows
    <2>2. Rank(S, y) \in Nat
      BY RankGrows
    <2> QED BY <2>1, <2>2
  <1>3. x \in Nat /\ y \in Nat
    OBVIOUS
  <1> QED BY <1>1, <1>2, <1>3

\* The first m members.
Initial(S, A, m) == A \in SUBSET S /\ Cardinality(A) = m /\ \A x \in A, y \in S : y < x => y \in A

\* Every rank below the cardinality is taken: were k the least that is not,
\* the member after those ranked below k would have it.
LEMMA RankTaken ==
  ASSUME NEW S, S \subseteq Nat, IsFiniteSet(S), NEW k \in Nat, k < Cardinality(S)
  PROVE  \E x \in S : Rank(S, x) = k
  <1> DEFINE T == {m \in Nat : m < Cardinality(S) /\ \A x \in S : Rank(S, x) # m}
  <1>0. Cardinality(S) \in Nat
    BY FS_CardinalityType
  <1> SUFFICES ASSUME T # {} PROVE FALSE
    OBVIOUS
  <1>1. PICK m \in T : \A l \in T : m <= l
    <2>1. T \subseteq Nat
      OBVIOUS
    <2> HIDE DEF T
    <2> QED BY <2>1, Least
  <1>2. PICK A : Initial(S, A, m)
    <2>1. CASE m = 0
      <3>1. Initial(S, {}, m)
        BY <2>1, FS_EmptySet DEF Initial
      <3> QED BY <3>1
    <2>2. CASE m # 0
      <3>1. m - 1 \in Nat /\ m - 1 < Cardinality(S) /\ m - 1 \notin T
        BY <1>0, <1>1, <2>2
      <3>2. PICK x \in S : Rank(S, x) = m - 1
        BY <3>1
      <3> DEFINE B == Before(S, x) \cup {x}
      <3>3. x \notin Before(S, x) /\ Before(S, x) \in SUBSET S
        BY DEF Before
      <3>4. Cardinality(B) = m
        BY <1>1, <3>2, <3>3, FS_Subset, FS_AddElement DEF Rank
      <3>5. B \in SUBSET S /\ \A y \in S : y \in Nat
        BY <3>3
      <3>6. \A u \in B, y \in S : y < u => y \in B
        BY <3>5 DEF Before
      <3>7. Initial(S, B, m)
        BY <3>4, <3>5, <3>6 DEF Initial
      <3> QED BY <3>7
    <2> QED BY <2>1, <2>2
  <1>3. S \ A # {}
    <2>1. m \in Nat /\ m < Cardinality(S)
      BY <1>1
    <2>2. A # S
      BY <1>0, <1>2, <2>1 DEF Initial
    <2> QED BY <1>2, <2>2 DEF Initial
  <1>4. PICK z \in S \ A : \A y \in S \ A : z <= y
    BY <1>3, Least
  <1>5. Before(S, z) = A
    <2>0. A \subseteq S /\ z \in S /\ z \notin A /\ \A y \in S : y \in Nat
      BY <1>2, <1>4 DEF Initial
    <2>1. ASSUME NEW y \in S, y < z PROVE y \in A
      BY <1>4, <2>0, <2>1
    <2>2. ASSUME NEW y \in A PROVE y < z
      <3>1. ~ (z < y)
        BY <1>2, <2>0 DEF Initial
      <3> QED BY <2>0, <3>1
    <2> QED BY <2>0, <2>1, <2>2 DEF Before
  <1>6. Rank(S, z) = m
    BY <1>2, <1>5 DEF Initial, Rank
  <1> QED BY <1>1, <1>4, <1>6

\* The first n members of a finite set of naturals, in order and without gaps.
LEMMA FirstByIdIs ==
  ASSUME NEW S, S \subseteq Nat, IsFiniteSet(S), NEW n \in Nat \ {0}
  PROVE  /\ FirstById(S, n) \in Seq(S)
         /\ \A i, j \in 1 .. Len(FirstById(S, n)) : i < j => FirstById(S, n)[i] < FirstById(S, n)[j]
         /\ \A x \in S, j \in 1 .. Len(FirstById(S, n)) :
              x <= FirstById(S, n)[j] => \E i \in 1 .. Len(FirstById(S, n)) : x = FirstById(S, n)[i]
  <1> DEFINE m == IF Cardinality(S) < n THEN Cardinality(S) ELSE n
             q == FirstById(S, n)
  <1>0. Cardinality(S) \in Nat /\ m \in Nat /\ m <= Cardinality(S)
    BY FS_CardinalityType
  <1>1. ASSUME NEW k \in 1 .. m
        PROVE  (CHOOSE x \in S : Rank(S, x) = k - 1) \in S
               /\ Rank(S, CHOOSE x \in S : Rank(S, x) = k - 1) = k - 1
    <2>1. k - 1 \in Nat /\ k - 1 < Cardinality(S)
      BY <1>0
    <2>2. \E x \in S : Rank(S, x) = k - 1
      BY <2>1, RankTaken
    <2> QED BY <2>2
  <1>2. q = [k \in 1 .. m |-> CHOOSE x \in S : Rank(S, x) = k - 1]
    BY DEF FirstById, Rank, Before
  <1> HIDE DEF m, q
  <1>3. q \in [1 .. m -> S] /\ \A k \in 1 .. m : Rank(S, q[k]) = k - 1
    BY <1>1, <1>2
  <1>4. q \in Seq(S) /\ Len(q) = m
    BY <1>0, <1>3, SeqDef, LenProperties
  <1>5. ASSUME NEW i \in 1 .. m, NEW j \in 1 .. m, i < j PROVE q[i] < q[j]
    <2>1. q[i] \in S /\ q[j] \in S /\ Rank(S, q[i]) < Rank(S, q[j])
      BY <1>0, <1>3, <1>5
    <2>2. q[j] < q[i] => Rank(S, q[j]) < Rank(S, q[i])
      BY <2>1, RankGrows
    <2>3. Rank(S, q[i]) \in Nat /\ Rank(S, q[j]) \in Nat
      BY <2>1, RankGrows
    <2>4. q[i] # q[j] /\ ~(q[j] < q[i])
      BY <2>1, <2>2, <2>3
    <2>5. q[i] \in Nat /\ q[j] \in Nat
      BY <2>1
    <2> QED BY <2>4, <2>5
  <1>6. ASSUME NEW x \in S, NEW j \in 1 .. m, x <= q[j] PROVE \E i \in 1 .. m : x = q[i]
    <2>1. q[j] \in S /\ Rank(S, q[j]) = j - 1 /\ Rank(S, x) \in Nat
      BY <1>3, RankGrows
    <2>2. Rank(S, x) <= j - 1
      <3>0. x \in Nat /\ q[j] \in Nat
        BY <2>1
      <3>1. x = q[j] \/ x < q[j]
        BY <1>6, <3>0
      <3>2. x < q[j] => Rank(S, x) < Rank(S, q[j])
        BY <2>1, RankGrows
      <3>3. Rank(S, q[j]) = j - 1 /\ j \in Int
        BY <1>0, <2>1
      <3> QED BY <2>1, <3>1, <3>2, <3>3
    <2> DEFINE i == Rank(S, x) + 1
    <2>3. i \in 1 .. m
      BY <1>0, <2>1, <2>2
    <2>4. q[i] \in S /\ Rank(S, q[i]) = Rank(S, x)
      BY <1>3, <2>1, <2>3
    <2>6. x = q[i]
      BY <2>4, RankTells
    <2> QED BY <2>3, <2>6
  <1> QED BY <1>4, <1>5, <1>6 DEF q

-----------------------------------------------------------------------------
(* The relay's batches.  A batch is the sequence of rows still to send and *)
(* the set of those sent; the rows of both are locked.                     *)

Distinct(q) == \A i, j \in 1 .. Len(q) : q[i] = q[j] => i = j
Locks(b) == ToSet(b.todo) \cup b.sent

Good(b) ==
  /\ b \in Batch /\ Distinct(b.todo)
  /\ ToSet(b.todo) \cap b.sent = {}
  /\ b.half => b.todo # <<>> /\ Head(b.todo) \in Tagged

\* The head of a sequence and the rest of it.
LEMMA HeadAndTail ==
  ASSUME NEW S, NEW q \in Seq(S), q # <<>>
  PROVE  /\ Head(q) \in S /\ Tail(q) \in Seq(S) /\ Head(q) = q[1]
         /\ ToSet(q) = {Head(q)} \cup ToSet(Tail(q))
         /\ Distinct(q) => Distinct(Tail(q)) /\ Head(q) \notin ToSet(Tail(q))
  <1>1. /\ Head(q) \in S /\ Tail(q) \in Seq(S) /\ Head(q) = q[1]
        /\ Len(q) \in Nat \ {0} /\ Len(Tail(q)) = Len(q) - 1
        /\ \A i \in 1 .. Len(Tail(q)) : Tail(q)[i] = q[i + 1]
    BY HeadTailProperties, EmptySeq
  <1>2. DOMAIN q = 1 .. Len(q) /\ DOMAIN Tail(q) = 1 .. Len(Tail(q))
    BY <1>1, LenProperties
  <1>3. ToSet(q) = {Head(q)} \cup ToSet(Tail(q))
    <2>1. ASSUME NEW i \in 1 .. Len(q) PROVE q[i] \in {Head(q)} \cup ToSet(Tail(q))
      <3>1. CASE i = 1
        BY <1>1, <3>1
      <3>2. CASE i # 1
        <4>1. i - 1 \in 1 .. Len(Tail(q)) /\ (i - 1) + 1 = i
          BY <1>1, <3>2
        <4>2. Tail(q)[i - 1] = q[i]
          BY <1>1, <4>1
        <4> QED BY <1>2, <4>1, <4>2 DEF ToSet
      <3> QED BY <3>1, <3>2
    <2>2. ASSUME NEW i \in 1 .. Len(Tail(q)) PROVE Tail(q)[i] \in ToSet(q)
      <3>1. i + 1 \in 1 .. Len(q) /\ Tail(q)[i] = q[i + 1]
        BY <1>1
      <3> QED BY <1>2, <3>1 DEF ToSet
    <2>3. Head(q) \in ToSet(q)
      <3>1. 1 \in 1 .. Len(q)
        BY <1>1
      <3> QED BY <1>1, <1>2, <3>1 DEF ToSet
    <2> QED BY <1>2, <2>1, <2>2, <2>3 DEF ToSet
  <1>4. ASSUME Distinct(q) PROVE Distinct(Tail(q)) /\ Head(q) \notin ToSet(Tail(q))
    <2>1. ASSUME NEW i \in 1 .. Len(Tail(q)), NEW j \in 1 .. Len(Tail(q)), Tail(q)[i] = Tail(q)[j]
          PROVE  i = j
      <3>1. i + 1 \in 1 .. Len(q) /\ j + 1 \in 1 .. Len(q) /\ q[i + 1] = q[j + 1]
        BY <1>1, <2>1
      <3>2. i + 1 = j + 1
        BY <1>4, <3>1 DEF Distinct
      <3> QED BY <3>2
    <2>2. ASSUME NEW i \in 1 .. Len(Tail(q)) PROVE Tail(q)[i] # Head(q)
      <3>1. i + 1 \in 1 .. Len(q) /\ 1 \in 1 .. Len(q) /\ i + 1 # 1 /\ Tail(q)[i] = q[i + 1]
        BY <1>1
      <3>2. q[i + 1] # q[1]
        BY <1>4, <3>1 DEF Distinct
      <3> QED BY <1>1, <3>1, <3>2
    <2> QED BY <1>2, <2>1, <2>2 DEF Distinct, ToSet
  <1> QED BY <1>1, <1>3, <1>4

\* The members of a sequence.
LEMMA ToSetType ==
  ASSUME NEW S, NEW q \in Seq(S)
  PROVE  ToSet(q) \subseteq S /\ ToSet(<<>>) = {}
  <1>1. DOMAIN q = 1 .. Len(q) /\ q \in [1 .. Len(q) -> S]
    BY LenProperties
  <1> QED BY <1>1 DEF ToSet

\* The idle relay locks nothing.
LEMMA IdleIs == Good(Idle) /\ Locks(Idle) = {} /\ Idle.sent = {} /\ ~Idle.half /\ Idle.todo = <<>>
  <1>1. <<>> \in Seq(Rows) /\ ToSet(<<>>) = {} /\ Len(<<>>) = 0
    BY EmptySeq, ToSetType
  <1>2. Distinct(<<>>)
    BY <1>1 DEF Distinct
  <1> QED BY <1>1, <1>2 DEF Good, Locks, Idle, Batch

\* Sending the head keeps the locks.
LEMMA MarkedIs ==
  ASSUME NEW b, Good(b), b.todo # <<>>
  PROVE  /\ Good(Marked(b)) /\ Locks(Marked(b)) = Locks(b)
         /\ Marked(b).sent = b.sent \cup {Head(b.todo)} /\ ~Marked(b).half
         /\ Head(b.todo) \in Locks(b) /\ Head(b.todo) \notin b.sent /\ Head(b.todo) \in Rows
  <1> DEFINE q == b.todo
             h == Head(b.todo)
             m == Marked(b)
  <1>1. /\ q \in Seq(Rows) /\ b.sent \in SUBSET Rows /\ Distinct(q) /\ q # <<>>
        /\ ToSet(q) \cap b.sent = {}
    BY DEF Good, Batch
  <1>2. /\ h \in Rows /\ Tail(q) \in Seq(Rows) /\ ToSet(q) = {h} \cup ToSet(Tail(q))
        /\ Distinct(Tail(q)) /\ h \notin ToSet(Tail(q))
    BY <1>1, HeadAndTail
  <1>3. m.todo = Tail(q) /\ m.sent = b.sent \cup {h} /\ ~m.half /\ m \in Batch
    BY <1>1, <1>2 DEF Marked, Batch
  <1> HIDE DEF m, q, h
  <1>4. Good(m)
    BY <1>1, <1>2, <1>3 DEF Good
  <1>5. Locks(m) = Locks(b)
    BY <1>2, <1>3 DEF Locks, q
  <1>6. h \in Locks(b) /\ h \notin b.sent
    BY <1>1, <1>2 DEF Locks, q
  <1> QED BY <1>2, <1>3, <1>4, <1>5, <1>6 DEF m, q, h

\* So does sending one half of it.
LEMMA HalfIs ==
  ASSUME NEW b, Good(b), b.todo # <<>>, Head(b.todo) \in Tagged
  PROVE  LET m == [b EXCEPT !.half = TRUE] IN
         /\ Good(m) /\ Locks(m) = Locks(b) /\ m.sent = b.sent /\ m.half /\ m.todo = b.todo
  <1> DEFINE m == [b EXCEPT !.half = TRUE]
  <1>1. m \in Batch /\ m.sent = b.sent /\ m.half /\ m.todo = b.todo
    BY DEF Good, Batch
  <1> HIDE DEF m
  <1>2. Good(m) /\ Locks(m) = Locks(b)
    BY <1>1 DEF Good, Locks
  <1> QED BY <1>1, <1>2 DEF m

\* A new batch takes rows that can be selected.
LEMMA BegunIs ==
  LET m == [Idle EXCEPT !.todo = FirstById(Selectable, BatchSize)] IN
  Good(m) /\ Locks(m) \subseteq Selectable /\ m.sent = {} /\ ~m.half
  <1> DEFINE q == FirstById(Selectable, BatchSize)
             m == [Idle EXCEPT !.todo = q]
  <1>1. Selectable \subseteq Nat /\ Selectable \in SUBSET Rows /\ BatchSize \in Nat \ {0}
    BY RowIds, Sizes DEF Selectable
  <1>2. IsFiniteSet(Selectable)
    BY <1>1, RowIds, FS_Subset
  <1>3. /\ q \in Seq(Selectable)
        /\ \A i, j \in 1 .. Len(q) : i < j => q[i] < q[j]
    BY <1>1, <1>2, FirstByIdIs
  <1> HIDE DEF q
  <1>4. q \in Seq(Rows) /\ ToSet(q) \subseteq Selectable
    BY <1>1, <1>3, SeqMonotonic, ToSetType
  <1>5. Distinct(q)
    <2> SUFFICES ASSUME NEW i \in 1 .. Len(q), NEW j \in 1 .. Len(q), q[i] = q[j] PROVE i = j
      BY DEF Distinct
    <2>0. Len(q) \in Nat
      BY <1>3, LenProperties
    <2>1. q[i] \in Selectable /\ q[j] \in Selectable
      BY <1>3, ElementOfSeq
    <2>3. i \in Int /\ j \in Int
      BY <2>0
    <2>4. q[i] \in Nat /\ q[j] \in Nat
      BY <1>1, <2>1
    <2>2. ~(i < j) /\ ~(j < i)
      BY <1>3, <2>4
    <2> QED BY <2>2, <2>3
  <1>6. m.todo = q /\ m.sent = {} /\ ~m.half /\ m \in Batch
    BY <1>4 DEF Idle, Batch
  <1> HIDE DEF m
  <1>7. Good(m) /\ Locks(m) \subseteq Selectable
    BY <1>4, <1>5, <1>6 DEF Good, Locks
  <1> QED BY <1>6, <1>7 DEF m, q

\* What the relays keep: their batches are disjoint, and lock waiting rows.
Status == {"absent", "waiting", "published", "purged"}
Apart == \A w, v \in Relays : w # v => Locks(relay[w]) \cap Locks(relay[v]) = {}
Batches ==
  /\ outbox \in [Rows -> Status]
  /\ relay \in [Relays -> Batch]
  /\ \A w \in Relays : Good(relay[w]) /\ \A r \in Locks(relay[w]) : outbox[r] = "waiting"
  /\ Apart

\* The locks of a good batch are rows.
LEMMA LocksAreRows == ASSUME NEW b, Good(b) PROVE b \in Batch /\ Locks(b) \subseteq Rows
  <1>1. b.todo \in Seq(Rows) /\ b.sent \subseteq Rows /\ b \in Batch
    BY DEF Good, Batch
  <1>2. ToSet(b.todo) \subseteq Rows
    BY <1>1, ToSetType
  <1> QED BY <1>1, <1>2 DEF Locks

\* A step that changes one batch, and takes only rows that can be selected.
LEMMA BatchOne ==
  ASSUME Batches, NEW w \in Relays, NEW b, Good(b), Locks(b) \subseteq Locks(relay[w]) \cup Selectable,
         relay' = [relay EXCEPT ![w] = b], outbox' = outbox
  PROVE  Batches'
  <1>1. b \in Batch
    BY LocksAreRows
  <1>2. relay' \in [Relays -> Batch] /\ relay'[w] = b /\ \A v \in Relays \ {w} : relay'[v] = relay[v]
    BY <1>1 DEF Batches
  <1>3. ASSUME NEW r \in Selectable
        PROVE  outbox[r] = "waiting" /\ \A v \in Relays : r \notin Locks(relay[v])
    BY <1>3 DEF Selectable, Locked, LockedBy, Locks
  <1>4. \A r \in Locks(b) : outbox[r] = "waiting" /\ \A v \in Relays \ {w} : r \notin Locks(relay[v])
    BY <1>3 DEF Batches, Apart
  <1>5. \A v \in Relays : Good(relay'[v]) /\ \A r \in Locks(relay'[v]) : outbox[r] = "waiting"
    <2> TAKE v \in Relays
    <2>1. CASE v = w
      BY <1>2, <1>4, <2>1
    <2>2. CASE v # w
      BY <1>2, <2>2 DEF Batches
    <2> QED BY <2>1, <2>2
  <1>6. \A u, v \in Relays : u # v => Locks(relay'[u]) \cap Locks(relay'[v]) = {}
    <2> TAKE u, v \in Relays
    <2> HAVE u # v
    <2>1. CASE u = w
      BY <1>2, <1>4, <2>1
    <2>2. CASE v = w
      BY <1>2, <1>4, <2>2
    <2>3. CASE u # w /\ v # w
      BY <1>2, <2>3 DEF Batches, Apart
    <2> QED BY <2>1, <2>2, <2>3
  <1>7. outbox' \in [Rows -> Status]
    BY DEF Batches
  <1>8. Apart'
    BY <1>6 DEF Apart
  <1>9. \A v \in Relays : Good(relay[v])' /\ \A r \in Locks(relay[v])' : outbox'[r] = "waiting"
    BY <1>5 DEF Good, Locks
  <1> QED BY <1>2, <1>7, <1>8, <1>9 DEF Batches

\* The other steps that change the outbox leave the locked rows of the
\* batches that remain alone.
LEMMA BatchesHold ==
  ASSUME Batches, outbox' \in [Rows -> Status],
         \A w \in Relays : relay'[w] = relay[w] \/ relay'[w] = Idle,
         relay' \in [Relays -> Batch],
         \A w \in Relays : relay'[w] = relay[w] =>
           \A r \in Locks(relay[w]) : outbox'[r] = outbox[r]
  PROVE  Batches'
  <1>1. ASSUME NEW w \in Relays
        PROVE  /\ Good(relay'[w]) /\ Locks(relay'[w]) \subseteq Locks(relay[w])
               /\ \A r \in Locks(relay'[w]) : outbox'[r] = "waiting"
    <2>1. CASE relay'[w] = relay[w]
      BY <2>1 DEF Batches
    <2>2. CASE relay'[w] = Idle
      BY <2>2, IdleIs
    <2> QED BY <2>1, <2>2
  <1>2. \A u, v \in Relays : u # v => Locks(relay'[u]) \cap Locks(relay'[v]) = {}
    BY <1>1 DEF Batches, Apart
  <1>3. Apart'
    BY <1>2 DEF Apart
  <1>4. \A v \in Relays : Good(relay[v])' /\ \A r \in Locks(relay[v])' : outbox'[r] = "waiting"
    BY <1>1 DEF Good, Locks
  <1> QED BY <1>3, <1>4 DEF Batches

\* The five steps of a relay.
LEMMA BatchesRelay ==
  ASSUME Batches, NEW w \in Relays, RelayStep(w) \/ Abort(w)
  PROVE  Batches'
  <1> DEFINE b == relay[w]
  <1>1. Good(b) /\ b \in Batch
    BY LocksAreRows DEF Batches
  <1>2. ASSUME DrainBegin(w) PROVE Batches'
    <2> DEFINE m == [Idle EXCEPT !.todo = FirstById(Selectable, BatchSize)]
    <2>1. relay[w] = Idle /\ outbox' = outbox
      BY <1>2 DEF DrainBegin
    <2>2. relay' = [relay EXCEPT ![w] = m]
      BY <1>2, <2>1 DEF DrainBegin
    <2>3. Good(m) /\ Locks(m) \subseteq Selectable
      BY BegunIs
    <2> HIDE DEF m
    <2> QED BY <2>1, <2>2, <2>3, BatchOne
  <1>3. ASSUME SendUsage(w) PROVE Batches'
    <2>1. b.todo # <<>> /\ outbox' = outbox
      BY <1>3 DEF SendUsage
    <2>2. CASE Head(b.todo) \in Tagged
      <3> DEFINE m == [b EXCEPT !.half = TRUE]
      <3>1. relay' = [relay EXCEPT ![w] = m]
        BY <1>3, <2>2 DEF SendUsage
      <3>2. Good(m) /\ Locks(m) = Locks(b)
        BY <1>1, <2>1, <2>2, HalfIs
      <3> HIDE DEF m
      <3> QED BY <2>1, <3>1, <3>2, BatchOne
    <2>3. CASE Head(b.todo) \notin Tagged
      <3>1. relay' = [relay EXCEPT ![w] = Marked(b)]
        BY <1>3, <2>3 DEF SendUsage
      <3>2. Good(Marked(b)) /\ Locks(Marked(b)) = Locks(b)
        BY <1>1, <2>1, MarkedIs
      <3> QED BY <2>1, <3>1, <3>2, BatchOne
    <2> QED BY <2>2, <2>3
  <1>4. ASSUME SendCampaign(w) PROVE Batches'
    <2>1. b.half /\ outbox' = outbox /\ relay' = [relay EXCEPT ![w] = Marked(b)]
      BY <1>4 DEF SendCampaign
    <2>2. Good(Marked(b)) /\ Locks(Marked(b)) = Locks(b)
      BY <1>1, <2>1, MarkedIs DEF Good
    <2> QED BY <2>1, <2>2, BatchOne
  <1>5. ASSUME Commit(w) PROVE Batches'
    <2>1. /\ outbox' = [r \in Rows |-> IF r \in b.sent THEN "published" ELSE outbox[r]]
          /\ relay' = [relay EXCEPT ![w] = Idle]
      BY <1>5 DEF Commit
    <2>2. outbox' \in [Rows -> Status]
      BY <2>1 DEF Batches, Status
    <2>3. relay' \in [Relays -> Batch] /\ relay'[w] = Idle /\ \A v \in Relays \ {w} : relay'[v] = relay[v]
      BY <2>1, IdleIs, LocksAreRows DEF Batches
    <2>4. ASSUME NEW v \in Relays, relay'[v] = relay[v], NEW r \in Locks(relay[v]) PROVE outbox'[r] = outbox[r]
      <3>1. Locks(relay[v]) \subseteq Rows
        BY LocksAreRows DEF Batches
      <3>2. CASE v = w
        BY <2>3, <2>4, <3>2, IdleIs
      <3>3. CASE v # w
        <4>1. r \notin Locks(b)
          BY <3>3 DEF Batches, Apart
        <4>2. r \notin b.sent
          BY <4>1 DEF Locks
        <4> QED BY <2>1, <3>1, <4>2
      <3> QED BY <3>2, <3>3
    <2> QED BY <2>2, <2>3, <2>4, BatchesHold
  <1>6. ASSUME Abort(w) PROVE Batches'
    <2>1. outbox' = outbox /\ relay' = [relay EXCEPT ![w] = Idle]
      BY <1>6 DEF Abort, AfterAbort
    <2> QED BY <2>1, IdleIs, BatchOne
  <1> QED BY <1>2, <1>3, <1>4, <1>5, <1>6 DEF RelayStep

\* The outbox and the readers.
LEMMA BatchesStep ==
  ASSUME Batches, [Next]_vars
  PROVE  Batches'
  <1>0. \A w \in Relays : Good(relay[w]) /\ Locks(relay[w]) \subseteq Rows
    BY LocksAreRows DEF Batches
  <1>1. ASSUME NEW r \in Rows, Emit(r) PROVE Batches'
    <2>1. outbox[r] = "absent" /\ outbox' = [outbox EXCEPT ![r] = "waiting"] /\ relay' = relay
      BY <1>1 DEF Emit
    <2>2. outbox' \in [Rows -> Status] /\ \A x \in Rows \ {r} : outbox'[x] = outbox[x]
      BY <2>1 DEF Batches, Status
    <2>3. \A w \in Relays : \A x \in Locks(relay[w]) : outbox'[x] = outbox[x]
      BY <1>0, <2>1, <2>2 DEF Batches
    <2> QED BY <2>1, <2>2, <2>3, BatchesHold DEF Batches
  <1>2. ASSUME NEW r \in Rows, Purge(r) PROVE Batches'
    <2>1. outbox[r] = "published" /\ outbox' = [outbox EXCEPT ![r] = "purged"] /\ relay' = relay
      BY <1>2 DEF Purge
    <2>2. outbox' \in [Rows -> Status] /\ \A x \in Rows \ {r} : outbox'[x] = outbox[x]
      BY <2>1 DEF Batches, Status
    <2>3. \A w \in Relays : \A x \in Locks(relay[w]) : outbox'[x] = outbox[x]
      BY <1>0, <2>1, <2>2 DEF Batches
    <2> QED BY <2>1, <2>2, <2>3, BatchesHold DEF Batches
  <1>3. ASSUME UNCHANGED <<outbox, relay>> PROVE Batches'
    BY <1>3, BatchesHold DEF Batches
  <1>4. ASSUME NEW s \in Streams, NEW c \in ReadersOf(s), ReaderStep(s, c) \/ ReaderFault(s, c)
        PROVE  UNCHANGED <<outbox, relay>>
    <2>1. ASSUME ReaderStep(s, c) PROVE UNCHANGED <<outbox, relay>>
      BY <2>1 DEF ReaderStep, Start, Read, DrainPending, Write, Ack
    <2>2. ASSUME ReaderFault(s, c) PROVE UNCHANGED <<outbox, relay>>
      BY <2>2 DEF ReaderFault, StartFails, AckFails, Restart, WriteFails
    <2> QED BY <1>4, <2>1, <2>2
  <1>5. CASE UNCHANGED vars
    BY <1>3, <1>5 DEF vars
  <1> QED BY <1>1, <1>2, <1>3, <1>4, <1>5, BatchesRelay DEF Next

-----------------------------------------------------------------------------
(* The streams, and what a step of the system does to them.                *)

Log ==
  /\ stream \in [Streams -> Seq(Rows)]
  /\ trimmed \in [Streams -> Nat]
  /\ \A s \in Streams :
       /\ stream[s] \in Seq(RowsOf(s)) /\ trimmed[s] <= Len(stream[s])
       /\ \A i \in 1 .. Len(stream[s]) : outbox[stream[s][i]] # "absent"

\* The streams only grow, and only the trimmed prefix does.
Grows(s) ==
  /\ Len(stream[s]) \in Nat /\ Len(stream'[s]) \in Nat /\ Len(stream[s]) <= Len(stream'[s])
  /\ \A i \in 1 .. Len(stream[s]) : stream'[s][i] = stream[s][i]
  /\ trimmed[s] \in Nat /\ trimmed'[s] \in Nat /\ trimmed[s] <= trimmed'[s]

\* A stream gets one more entry.
Gets(s, r) ==
  /\ Len(stream'[s]) = Len(stream[s]) + 1
  /\ stream'[s][Len(stream[s]) + 1] = r
  /\ \A z \in Streams \ {s} : stream'[z] = stream[z] /\ trimmed'[z] = trimmed[z]

\* Rows of either stream.
LEMMA RowsOfAre == \A s \in Streams : RowsOf(s) \subseteq Rows
  BY RowIds DEF RowsOf

LEMMA AddedIs ==
  ASSUME Log, NEW s \in Streams, NEW r \in RowsOf(s), Added(s, r),
         \A x \in Rows : outbox[x] # "absent" => outbox'[x] # "absent", outbox[r] # "absent"
  PROVE  Log' /\ Gets(s, r) /\ \A z \in Streams : Grows(z)
  <1> DEFINE n == Len(stream[s])
  <1>0. r \in Rows /\ RowsOf(s) \subseteq Rows
    BY RowsOfAre
  <1>1. /\ stream[s] \in Seq(RowsOf(s)) /\ stream[s] \in Seq(Rows) /\ n \in Nat
        /\ stream \in [Streams -> Seq(Rows)]
    BY LenProperties DEF Log
  <1>2. /\ Append(stream[s], r) \in Seq(RowsOf(s)) /\ Append(stream[s], r) \in Seq(Rows)
        /\ Len(Append(stream[s], r)) = n + 1
        /\ \A i \in 1 .. n : Append(stream[s], r)[i] = stream[s][i]
        /\ Append(stream[s], r)[n + 1] = r
    <2>1. Append(stream[s], r) \in Seq(Rows)
      BY <1>0, <1>1, AppendProperties
    <2> QED BY <1>1, <2>1, AppendProperties
  <1>3. /\ stream'[s] = Append(stream[s], r) /\ stream' \in [Streams -> Seq(Rows)]
        /\ \A z \in Streams \ {s} : stream'[z] = stream[z]
    BY <1>1, <1>2 DEF Added
  <1>4. PICK cut \in trimmed[s] .. n + 1 : trimmed' = [trimmed EXCEPT ![s] = cut]
    BY DEF Added
  <1>5. /\ trimmed' \in [Streams -> Nat] /\ trimmed'[s] = cut /\ trimmed[s] <= cut /\ cut <= n + 1
        /\ \A z \in Streams \ {s} : trimmed'[z] = trimmed[z]
    <2>1. trimmed \in [Streams -> Nat] /\ trimmed[s] \in Nat
      BY DEF Log
    <2>2. cut \in Nat /\ trimmed[s] <= cut /\ cut <= n + 1
      BY <1>1, <1>4, <2>1
    <2> QED BY <1>4, <2>1, <2>2
  <1>6. Gets(s, r)
    BY <1>2, <1>3, <1>5 DEF Gets
  <1>7. ASSUME NEW z \in Streams PROVE Grows(z)
    <2>1. trimmed[z] \in Nat /\ trimmed'[z] \in Nat /\ Len(stream[z]) \in Nat
      BY <1>5, LenProperties DEF Log
    <2>2. CASE z = s
      BY <1>1, <1>2, <1>3, <1>5, <2>1, <2>2 DEF Grows
    <2>3. CASE z # s
      BY <1>3, <1>5, <2>1, <2>3 DEF Grows
    <2> QED BY <2>2, <2>3
  <1>8. ASSUME NEW z \in Streams
        PROVE  /\ stream'[z] \in Seq(RowsOf(z)) /\ trimmed'[z] <= Len(stream'[z])
               /\ \A i \in 1 .. Len(stream'[z]) : outbox'[stream'[z][i]] # "absent"
    <2>1. CASE z = s
      <3>1. ASSUME NEW i \in 1 .. n + 1 PROVE outbox'[stream'[z][i]] # "absent"
        <4>1. CASE i = n + 1
          BY <1>0, <1>2, <1>3, <2>1, <4>1
        <4>2. CASE i # n + 1
          <5>1. i \in 1 .. n
            BY <1>1, <4>2
          <5>2. stream'[z][i] = stream[s][i] /\ stream[s][i] \in Rows /\ outbox[stream[s][i]] # "absent"
            BY <1>1, <1>2, <1>3, <2>1, <5>1, ElementOfSeq DEF Log
          <5> QED BY <5>2
        <4> QED BY <4>1, <4>2
      <3> QED BY <1>2, <1>3, <1>5, <2>1, <3>1
    <2>2. CASE z # s
      <3>1. stream'[z] = stream[z] /\ trimmed'[z] = trimmed[z]
        BY <1>3, <1>5, <2>2
      <3>2. ASSUME NEW i \in 1 .. Len(stream[z]) PROVE outbox'[stream[z][i]] # "absent"
        <4>1. stream[z] \in Seq(Rows) /\ outbox[stream[z][i]] # "absent"
          BY DEF Log
        <4>2. stream[z][i] \in Rows
          BY <4>1, ElementOfSeq
        <4> QED BY <4>1, <4>2
      <3> QED BY <3>1, <3>2 DEF Log
    <2> QED BY <2>1, <2>2
  <1> QED BY <1>3, <1>5, <1>6, <1>7, <1>8 DEF Log

\* The steps that leave the streams alone.
LEMMA LogStays ==
  ASSUME Log, stream' = stream, trimmed' = trimmed,
         \A x \in Rows : outbox[x] # "absent" => outbox'[x] # "absent"
  PROVE  Log' /\ \A z \in Streams : Grows(z)
  <1>1. ASSUME NEW z \in Streams PROVE Grows(z)
    <2>1. trimmed[z] \in Nat /\ Len(stream[z]) \in Nat
      BY LenProperties DEF Log
    <2> QED BY <2>1 DEF Grows
  <1>2. ASSUME NEW z \in Streams, NEW i \in 1 .. Len(stream[z]) PROVE outbox'[stream[z][i]] # "absent"
    <2>1. stream[z] \in Seq(Rows) /\ outbox[stream[z][i]] # "absent"
      BY DEF Log
    <2>2. stream[z][i] \in Rows
      BY <2>1, ElementOfSeq
    <2> QED BY <2>1, <2>2
  <1> QED BY <1>1, <1>2 DEF Log

\* A row never becomes absent again.
LEMMA OutboxGrows ==
  ASSUME Batches, [Next]_vars, NEW x \in Rows, outbox[x] # "absent"
  PROVE  outbox'[x] # "absent"
  <1>1. ASSUME NEW r \in Rows, Emit(r) PROVE outbox'[x] # "absent"
    BY <1>1 DEF Emit, Batches
  <1>2. ASSUME NEW r \in Rows, Purge(r) PROVE outbox'[x] # "absent"
    BY <1>2 DEF Purge, Batches
  <1>3. ASSUME outbox' = outbox PROVE outbox'[x] # "absent"
    BY <1>3
  <1>4. ASSUME NEW w \in Relays, Commit(w) PROVE outbox'[x] # "absent"
    BY <1>4 DEF Commit
  <1>5. ASSUME NEW w \in Relays, DrainBegin(w) \/ SendUsage(w) \/ SendCampaign(w) \/ Abort(w)
        PROVE  outbox' = outbox
    BY <1>5 DEF DrainBegin, SendUsage, SendCampaign, Abort, AfterAbort
  <1>6. ASSUME NEW s \in Streams, NEW c \in ReadersOf(s), ReaderStep(s, c) PROVE outbox' = outbox
    BY <1>6 DEF ReaderStep, Start, Read, DrainPending, Write, Ack
  <1>7. ASSUME NEW s \in Streams, NEW c \in ReadersOf(s), ReaderFault(s, c) PROVE outbox' = outbox
    BY <1>7 DEF ReaderFault, StartFails, AckFails, Restart, WriteFails
  <1>8. CASE UNCHANGED vars
    BY <1>3, <1>8 DEF vars
  <1> QED BY <1>1, <1>2, <1>3, <1>4, <1>5, <1>6, <1>7, <1>8 DEF Next, RelayStep

\* What a relay sends is the head of its batch, a waiting row of that stream.
LEMMA HeadIsSent ==
  ASSUME Batches, NEW w \in Relays, relay[w].todo # <<>>
  PROVE  LET h == Head(relay[w].todo) IN
         /\ Good(relay[w]) /\ h \in Rows /\ outbox[h] = "waiting" /\ h \in RowsOf("usage")
         /\ h \notin relay[w].sent /\ h \in Locks(relay[w])
         /\ relay[w].half => h \in RowsOf("campaign")
  <1>1. Good(relay[w])
    BY DEF Batches
  <1>2. /\ Head(relay[w].todo) \in Locks(relay[w]) /\ Head(relay[w].todo) \in Rows
        /\ Head(relay[w].todo) \notin relay[w].sent
    BY <1>1, MarkedIs
  <1> QED BY <1>1, <1>2 DEF Batches, RowsOf, Good

\* Steps of the outbox and of the relays leave the readers alone, and add at
\* most one entry, of a waiting row, to one stream.
Carriage ==
  /\ UNCHANGED <<delivered, pending, reader, host, recorded>>
  /\ \/ UNCHANGED <<stream, trimmed>>
     \/ \E s \in Streams : \E h \in RowsOf(s) : outbox[h] = "waiting" /\ Added(s, h) /\ outbox' = outbox

LEMMA CarriageSteps ==
  ASSUME Batches
  PROVE  /\ \A r \in Rows : Emit(r) \/ Purge(r) => Carriage
         /\ \A w \in Relays : RelayStep(w) \/ Abort(w) => Carriage
  <1>1. ASSUME NEW r \in Rows, Emit(r) \/ Purge(r) PROVE Carriage
    BY <1>1 DEF Emit, Purge, Carriage, redis
  <1>2. ASSUME NEW w \in Relays, DrainBegin(w) \/ Commit(w) \/ Abort(w) PROVE Carriage
    BY <1>2 DEF DrainBegin, Commit, Abort, Carriage, redis
  <1>3. ASSUME NEW w \in Relays, SendUsage(w) PROVE Carriage
    <2>1. /\ relay[w].todo # <<>> /\ Added("usage", Head(relay[w].todo))
          /\ UNCHANGED <<outbox, reader, host, recorded>>
      BY <1>3 DEF SendUsage
    <2>2. UNCHANGED <<delivered, pending>>
      BY <2>1 DEF Added
    <2>3. "usage" \in Streams
      BY DEF Streams
    <2> QED BY <2>1, <2>2, <2>3, HeadIsSent DEF Carriage
  <1>4. ASSUME NEW w \in Relays, SendCampaign(w) PROVE Carriage
    <2>1. /\ relay[w].half /\ Added("campaign", Head(relay[w].todo))
          /\ UNCHANGED <<outbox, reader, host, recorded>>
      BY <1>4 DEF SendCampaign
    <2>2. UNCHANGED <<delivered, pending>>
      BY <2>1 DEF Added
    <2>3. "campaign" \in Streams /\ relay[w].todo # <<>>
      BY <2>1 DEF Streams, Batches, Good
    <2> QED BY <2>1, <2>2, <2>3, HeadIsSent DEF Carriage
  <1> QED BY <1>1, <1>2, <1>3, <1>4 DEF RelayStep

LEMMA LogStep ==
  ASSUME Batches, Log, [Next]_vars
  PROVE  Log' /\ \A z \in Streams : Grows(z)
  <1>0. \A x \in Rows : outbox[x] # "absent" => outbox'[x] # "absent"
    BY OutboxGrows
  <1>1. ASSUME Carriage PROVE Log' /\ \A z \in Streams : Grows(z)
    <2>1. CASE UNCHANGED <<stream, trimmed>>
      BY <1>0, <2>1, LogStays
    <2>2. ASSUME NEW s \in Streams, NEW h \in RowsOf(s), outbox[h] = "waiting", Added(s, h)
          PROVE  Log' /\ \A z \in Streams : Grows(z)
      BY <1>0, <2>2, AddedIs
    <2> QED BY <1>1, <2>1, <2>2 DEF Carriage
  <1>2. ASSUME UNCHANGED <<stream, trimmed>> PROVE Log' /\ \A z \in Streams : Grows(z)
    BY <1>0, <1>2, LogStays
  <1>3. ASSUME NEW s \in Streams, NEW c \in ReadersOf(s), ReaderStep(s, c) PROVE UNCHANGED <<stream, trimmed>>
    BY <1>3 DEF ReaderStep, Start, Read, DrainPending, Write, Ack, redis
  <1>4. ASSUME NEW s \in Streams, NEW c \in ReadersOf(s), ReaderFault(s, c) PROVE UNCHANGED <<stream, trimmed>>
    BY <1>4 DEF ReaderFault, StartFails, AckFails, Restart, WriteFails, redis
  <1>5. CASE UNCHANGED vars
    BY <1>2, <1>5 DEF vars, redis
  <1> QED BY <1>1, <1>2, <1>3, <1>4, <1>5, CarriageSteps DEF Next

-----------------------------------------------------------------------------
(* How often a row enters a stream.  A row is sent when its entry is in    *)
(* the stream on behalf of a batch that can still commit, or has: one      *)
(* entry stands for that, and any other is left by an aborted batch.       *)

Carries(b, s, r) == r \in b.sent \/ (s = "usage" /\ b.half /\ Head(b.todo) = r)
Sent(s, r) == outbox[r] \in {"published", "purged"} \/ \E w \in Relays : Carries(relay[w], s, r)
Elsewhere(w, s, r) ==
  outbox[r] \in {"published", "purged"} \/ \E v \in Relays \ {w} : Carries(relay[v], s, r)

\* What a step means for one row of one stream.
Sends(s, r) ==
  /\ stream'[s] = Append(stream[s], r) /\ faults' = faults
  /\ ~ Sent(s, r) /\ Sent(s, r)'
Passes(s, r) ==
  /\ \E x \in RowsOf(s) : x # r /\ stream'[s] = Append(stream[s], x)
  /\ faults' = faults
  /\ Sent(s, r)' <=> Sent(s, r)
Rests(s, r) ==
  /\ stream'[s] = stream[s]
  /\ Sent(s, r)' => Sent(s, r)
  /\ faults' = faults \/ faults' = faults + 1
  /\ Sent(s, r) /\ faults' = faults => Sent(s, r)'

LEMMA CarriesLocks ==
  ASSUME NEW b, Good(b), NEW s, NEW r, Carries(b, s, r)
  PROVE  r \in Locks(b)
  <1>1. CASE r \in b.sent
    BY <1>1 DEF Locks
  <1>2. CASE b.half /\ Head(b.todo) = r
    BY <1>2, MarkedIs DEF Good
  <1> QED BY <1>1, <1>2 DEF Carries

\* One batch changes.
LEMMA SentOf ==
  ASSUME Batches, NEW w \in Relays, NEW b, NEW s, NEW r,
         relay' = [relay EXCEPT ![w] = b], outbox'[r] = outbox[r]
  PROVE  /\ Sent(s, r) <=> Elsewhere(w, s, r) \/ Carries(relay[w], s, r)
         /\ Sent(s, r)' <=> Elsewhere(w, s, r) \/ Carries(b, s, r)
  <1>1. relay'[w] = b /\ \A v \in Relays \ {w} : relay'[v] = relay[v]
    BY DEF Batches
  <1>2. Sent(s, r) <=> Elsewhere(w, s, r) \/ Carries(relay[w], s, r)
    BY DEF Sent, Elsewhere
  <1>3. Sent(s, r)' <=> outbox'[r] \in {"published", "purged"} \/ \E v \in Relays : Carries(relay'[v], s, r)
    BY DEF Sent, Carries
  <1>4. (\E v \in Relays : Carries(relay'[v], s, r))
          <=> Carries(b, s, r) \/ \E v \in Relays \ {w} : Carries(relay[v], s, r)
    BY <1>1
  <1> QED BY <1>2, <1>3, <1>4 DEF Elsewhere

\* A locked row is carried by no other batch, and not published.
LEMMA NotElsewhere ==
  ASSUME Batches, NEW w \in Relays, NEW s, NEW r \in Locks(relay[w])
  PROVE  ~ Elsewhere(w, s, r)
  <1>1. outbox[r] = "waiting"
    BY DEF Batches
  <1>2. ASSUME NEW v \in Relays \ {w}, Carries(relay[v], s, r) PROVE FALSE
    <2>1. r \in Locks(relay[v])
      BY <1>2, CarriesLocks DEF Batches
    <2> QED BY <2>1 DEF Batches, Apart
  <1> QED BY <1>1, <1>2 DEF Elsewhere

LEMMA SendSteps ==
  ASSUME Batches, Log, NEW w \in Relays, SendUsage(w) \/ SendCampaign(w),
         NEW s \in Streams, NEW r \in RowsOf(s)
  PROVE  Sends(s, r) \/ Passes(s, r) \/ Rests(s, r)
  <1> DEFINE b == relay[w]
             h == Head(b.todo)
  <1>1. b.todo # <<>> /\ outbox' = outbox /\ faults' = faults /\ Good(b)
    BY DEF SendUsage, SendCampaign, Batches, Good
  <1>2. h \in Rows /\ h \notin b.sent /\ h \in Locks(b)
    BY <1>1, HeadIsSent
  <1>3. ~ Elsewhere(w, s, h)
    BY <1>2, NotElsewhere
  <1>4. ASSUME NEW z \in Streams, NEW x, Added(z, x)
        PROVE  stream'[z] = Append(stream[z], x) /\ (s # z => stream'[s] = stream[s])
    BY <1>4 DEF Added, Log
  <1>5. ASSUME SendUsage(w) PROVE Sends(s, r) \/ Passes(s, r) \/ Rests(s, r)
    <2>1. ~ b.half /\ Added("usage", h)
      BY <1>5 DEF SendUsage
    <2>2. CASE h \in Tagged
      <3> DEFINE m == [b EXCEPT !.half = TRUE]
      <3>1. relay' = [relay EXCEPT ![w] = m]
        BY <1>5, <2>2 DEF SendUsage
      <3>2. m.sent = b.sent /\ m.half /\ m.todo = b.todo
        BY <1>1, <2>2, HalfIs
      <3> HIDE DEF m
      <3>3. /\ Sent(s, r) <=> Elsewhere(w, s, r) \/ Carries(b, s, r)
            /\ Sent(s, r)' <=> Elsewhere(w, s, r) \/ Carries(m, s, r)
        BY <1>1, <3>1, SentOf
      <3>4. /\ Carries(b, s, r) <=> r \in b.sent
            /\ Carries(m, s, r) <=> r \in b.sent \/ (s = "usage" /\ r = h)
        BY <2>1, <3>2 DEF Carries
      <3>5. CASE s = "usage" /\ r = h
        <4>1. stream'[s] = Append(stream[s], r)
          BY <1>4, <2>1, <3>5
        <4> QED BY <1>1, <1>2, <1>3, <3>3, <3>4, <3>5, <4>1 DEF Sends
      <3>6. CASE s = "usage" /\ r # h
        <4>1. stream'[s] = Append(stream[s], h) /\ h \in RowsOf(s)
          BY <1>1, <1>4, <2>1, <3>6, HeadIsSent
        <4> QED BY <1>1, <3>3, <3>4, <3>6, <4>1 DEF Passes
      <3>7. CASE s # "usage"
        <4>1. stream'[s] = stream[s]
          BY <1>4, <2>1, <3>7 DEF Streams
        <4> QED BY <1>1, <3>3, <3>4, <3>7, <4>1 DEF Rests
      <3> QED BY <3>5, <3>6, <3>7
    <2>3. CASE h \notin Tagged
      <3>1. relay' = [relay EXCEPT ![w] = Marked(b)]
        BY <1>5, <2>3 DEF SendUsage
      <3>2. Marked(b).sent = b.sent \cup {h} /\ ~ Marked(b).half
        BY <1>1, MarkedIs
      <3>3. /\ Sent(s, r) <=> Elsewhere(w, s, r) \/ Carries(b, s, r)
            /\ Sent(s, r)' <=> Elsewhere(w, s, r) \/ Carries(Marked(b), s, r)
        BY <1>1, <3>1, SentOf
      <3>4. /\ Carries(b, s, r) <=> r \in b.sent
            /\ Carries(Marked(b), s, r) <=> r \in b.sent \/ r = h
        BY <2>1, <3>2 DEF Carries
      <3>5. CASE s = "usage" /\ r = h
        <4>1. stream'[s] = Append(stream[s], r)
          BY <1>4, <2>1, <3>5
        <4> QED BY <1>1, <1>2, <1>3, <3>3, <3>4, <3>5, <4>1 DEF Sends
      <3>6. CASE s = "usage" /\ r # h
        <4>1. stream'[s] = Append(stream[s], h) /\ h \in RowsOf(s)
          BY <1>1, <1>4, <2>1, <3>6, HeadIsSent
        <4> QED BY <1>1, <3>3, <3>4, <3>6, <4>1 DEF Passes
      <3>7. CASE s # "usage"
        <4>1. stream'[s] = stream[s] /\ r # h
          BY <1>4, <2>1, <2>3, <3>7 DEF Streams, RowsOf
        <4> QED BY <1>1, <3>3, <3>4, <3>7, <4>1 DEF Rests
      <3> QED BY <3>5, <3>6, <3>7
    <2> QED BY <2>2, <2>3
  <1>6. ASSUME SendCampaign(w) PROVE Sends(s, r) \/ Passes(s, r) \/ Rests(s, r)
    <2>1. b.half /\ Added("campaign", h) /\ relay' = [relay EXCEPT ![w] = Marked(b)]
      BY <1>6 DEF SendCampaign
    <2>2. Marked(b).sent = b.sent \cup {h} /\ ~ Marked(b).half
      BY <1>1, MarkedIs
    <2>3. /\ Sent(s, r) <=> Elsewhere(w, s, r) \/ Carries(b, s, r)
          /\ Sent(s, r)' <=> Elsewhere(w, s, r) \/ Carries(Marked(b), s, r)
      BY <1>1, <2>1, SentOf
    <2>4. /\ Carries(b, s, r) <=> r \in b.sent \/ (s = "usage" /\ r = h)
          /\ Carries(Marked(b), s, r) <=> r \in b.sent \/ r = h
      BY <2>1, <2>2 DEF Carries
    <2>5. CASE s = "campaign" /\ r = h
      <3>1. stream'[s] = Append(stream[s], r)
        BY <1>4, <2>1, <2>5
      <3> QED BY <1>1, <1>2, <1>3, <2>3, <2>4, <2>5, <3>1 DEF Sends
    <2>6. CASE s = "campaign" /\ r # h
      <3>1. stream'[s] = Append(stream[s], h) /\ h \in RowsOf(s)
        BY <1>1, <1>4, <2>1, <2>6, HeadIsSent
      <3> QED BY <1>1, <2>3, <2>4, <2>6, <3>1 DEF Passes
    <2>7. CASE s # "campaign"
      <3>1. stream'[s] = stream[s] /\ s = "usage"
        BY <1>4, <2>1, <2>7 DEF Streams
      <3> QED BY <1>1, <2>3, <2>4, <2>7, <3>1 DEF Rests
    <2> QED BY <2>5, <2>6, <2>7
  <1> QED BY <1>5, <1>6

\* The other steps.
LEMMA RestSteps ==
  ASSUME Batches, [Next]_vars, faults \in Nat, NEW s \in Streams, NEW r \in Rows,
         \A w \in Relays : ~ SendUsage(w) /\ ~ SendCampaign(w)
  PROVE  Rests(s, r)
  <1>1. ASSUME UNCHANGED <<relay, stream>>, faults' = faults \/ faults' = faults + 1,
               outbox'[r] \in {"published", "purged"} <=> outbox[r] \in {"published", "purged"}
        PROVE  Rests(s, r)
    BY <1>1 DEF Rests, Sent
  <1>2. ASSUME NEW x \in Rows, Emit(x) PROVE Rests(s, r)
    <2>1. outbox'[r] \in {"published", "purged"} <=> outbox[r] \in {"published", "purged"}
      BY <1>2 DEF Emit, Batches
    <2> QED BY <1>1, <1>2, <2>1 DEF Emit, redis
  <1>3. ASSUME NEW x \in Rows, Purge(x) PROVE Rests(s, r)
    <2>1. outbox'[r] \in {"published", "purged"} <=> outbox[r] \in {"published", "purged"}
      BY <1>3 DEF Purge, Batches
    <2> QED BY <1>1, <1>3, <2>1 DEF Purge, redis
  <1>4. ASSUME NEW w \in Relays, DrainBegin(w) PROVE Rests(s, r)
    <2> DEFINE m == [Idle EXCEPT !.todo = FirstById(Selectable, BatchSize)]
    <2>1. /\ relay[w] = Idle /\ outbox' = outbox /\ faults' = faults /\ stream' = stream
          /\ relay' = [relay EXCEPT ![w] = m]
      BY <1>4 DEF DrainBegin, redis
    <2>2. m.sent = {} /\ ~ m.half
      BY BegunIs
    <2> HIDE DEF m
    <2>3. ~ Carries(m, s, r) /\ ~ Carries(relay[w], s, r)
      BY <2>1, <2>2, IdleIs DEF Carries
    <2>4. Sent(s, r)' <=> Sent(s, r)
      BY <2>1, <2>3, SentOf
    <2> QED BY <2>1, <2>4 DEF Rests
  <1>5. ASSUME NEW w \in Relays, Abort(w) PROVE Rests(s, r)
    <2>1. /\ outbox' = outbox /\ faults' = faults + 1 /\ stream' = stream
          /\ relay' = [relay EXCEPT ![w] = Idle]
      BY <1>5 DEF Abort, AfterAbort, Fails, redis
    <2>2. ~ Carries(Idle, s, r)
      BY IdleIs DEF Carries
    <2>3. Sent(s, r)' => Sent(s, r)
      BY <2>1, <2>2, SentOf
    <2> QED BY <2>1, <2>3 DEF Rests
  <1>6. ASSUME NEW w \in Relays, Commit(w) PROVE Rests(s, r)
    <2>1. /\ relay[w].todo = <<>> /\ faults' = faults /\ stream' = stream
          /\ outbox' = [x \in Rows |-> IF x \in relay[w].sent THEN "published" ELSE outbox[x]]
          /\ relay' = [relay EXCEPT ![w] = Idle]
      BY <1>6 DEF Commit, redis
    <2>2. ~ relay[w].half
      BY <2>1 DEF Batches, Good
    <2>3. Carries(relay[w], s, r) <=> r \in relay[w].sent
      BY <2>2 DEF Carries
    <2>4. CASE r \in relay[w].sent
      <3>1. Sent(s, r)
        BY <2>3, <2>4 DEF Sent
      <3>2. Sent(s, r)'
        BY <2>1, <2>4 DEF Sent
      <3> QED BY <2>1, <3>1, <3>2 DEF Rests
    <2>5. CASE r \notin relay[w].sent
      <3>1. outbox'[r] = outbox[r]
        BY <2>1, <2>5
      <3>2. ~ Carries(Idle, s, r)
        BY IdleIs DEF Carries
      <3>3. Sent(s, r)' <=> Sent(s, r)
        BY <2>1, <2>3, <2>5, <3>1, <3>2, SentOf
      <3> QED BY <2>1, <3>3 DEF Rests
    <2> QED BY <2>4, <2>5
  <1>7. ASSUME NEW z \in Streams, NEW c \in ReadersOf(z), ReaderStep(z, c) PROVE Rests(s, r)
    <2>1. UNCHANGED <<outbox, relay, stream, faults>>
      BY <1>7 DEF ReaderStep, Start, Read, DrainPending, Write, Ack, redis
    <2> QED BY <1>1, <2>1
  <1>8. ASSUME NEW z \in Streams, NEW c \in ReadersOf(z), ReaderFault(z, c) PROVE Rests(s, r)
    <2>1. UNCHANGED <<outbox, relay, stream>> /\ (faults' = faults \/ faults' = faults + 1)
      BY <1>8 DEF ReaderFault, StartFails, AckFails, Restart, WriteFails, Fails, redis
    <2> QED BY <1>1, <2>1
  <1>9. CASE UNCHANGED vars
    BY <1>1, <1>9 DEF vars, redis
  <1> QED BY <1>2, <1>3, <1>4, <1>5, <1>6, <1>7, <1>8, <1>9 DEF Next, RelayStep

\* The positions of a row in a stream.
At(s, r) == {i \in DOMAIN stream[s] : stream[s][i] = r}
Tally(s, r) ==
  /\ Sent(s, r) => At(s, r) # {}
  /\ Cardinality(At(s, r)) <= faults + (IF Sent(s, r) THEN 1 ELSE 0)

LEMMA AtIsFinite ==
  ASSUME NEW q \in Seq(Rows), NEW r
  PROVE  LET A == {i \in DOMAIN q : q[i] = r} IN
         A \subseteq Nat /\ IsFiniteSet(A) /\ Cardinality(A) \in Nat
  <1> DEFINE A == {i \in DOMAIN q : q[i] = r}
  <1>1. DOMAIN q = 1 .. Len(q) /\ Len(q) \in Nat
    BY LenProperties
  <1>2. IsFiniteSet(1 .. Len(q)) /\ A \in SUBSET (1 .. Len(q))
    BY <1>1, FS_Interval
  <1> HIDE DEF A
  <1>3. IsFiniteSet(A) /\ Cardinality(A) \in Nat
    BY <1>2, FS_Subset, FS_CardinalityType
  <1>4. A \subseteq Nat
    BY <1>1, <1>2
  <1> QED BY <1>3, <1>4 DEF A

\* The positions after an append.
LEMMA AtAppend ==
  ASSUME NEW q \in Seq(Rows), NEW x \in Rows, NEW r
  PROVE  LET A == {i \in DOMAIN q : q[i] = r}
             B == {i \in DOMAIN Append(q, x) : Append(q, x)[i] = r}
         IN  /\ x = r => B # {} /\ Cardinality(B) = Cardinality(A) + 1
             /\ x # r => B = A
  <1> DEFINE A == {i \in DOMAIN q : q[i] = r}
             B == {i \in DOMAIN Append(q, x) : Append(q, x)[i] = r}
             n == Len(q)
  <1>1. n \in Nat /\ DOMAIN q = 1 .. n
    BY LenProperties
  <1>2. /\ Append(q, x) \in Seq(Rows) /\ Len(Append(q, x)) = n + 1
        /\ \A i \in 1 .. n : Append(q, x)[i] = q[i]
        /\ Append(q, x)[n + 1] = x
    BY AppendProperties
  <1>3. DOMAIN Append(q, x) = 1 .. n + 1
    BY <1>2, LenProperties
  <1>4. 1 .. n + 1 = (1 .. n) \cup {n + 1} /\ n + 1 \notin 1 .. n
    BY <1>1
  <1>5. A = {i \in 1 .. n : q[i] = r} /\ n + 1 \notin A
    BY <1>1, <1>4
  <1>6. B = {i \in 1 .. n : q[i] = r} \cup {i \in {n + 1} : x = r}
    BY <1>2, <1>3, <1>4
  <1>7. IsFiniteSet(A)
    BY AtIsFinite
  <1> HIDE DEF A, B
  <1>8. x = r => B = A \cup {n + 1}
    BY <1>5, <1>6
  <1>9. x # r => B = A
    BY <1>5, <1>6
  <1>10. x = r => Cardinality(B) = Cardinality(A) + 1
    BY <1>5, <1>7, <1>8, FS_AddElement
  <1> QED BY <1>8, <1>9, <1>10 DEF A, B

LEMMA TallyStep ==
  ASSUME Batches, Log, faults \in Nat, [Next]_vars,
         NEW s \in Streams, NEW r \in RowsOf(s), Tally(s, r)
  PROVE  Tally(s, r)'
  <1>0. r \in Rows /\ RowsOf(s) \subseteq Rows
    BY RowsOfAre
  <1>1. Sends(s, r) \/ Passes(s, r) \/ Rests(s, r)
    BY <1>0, SendSteps, RestSteps
  <1>2. stream[s] \in Seq(Rows)
    BY DEF Log
  <1>3. Cardinality(At(s, r)) \in Nat
    BY <1>2, AtIsFinite DEF At
  <1>4. At(s, r)' = {i \in DOMAIN stream'[s] : stream'[s][i] = r}
    BY DEF At
  <1>5. ASSUME Sends(s, r) PROVE Tally(s, r)'
    <2> DEFINE q == stream[s]
               A == {i \in DOMAIN q : q[i] = r}
               B == {i \in DOMAIN Append(q, r) : Append(q, r)[i] = r}
    <2>0. At(s, r) = A /\ At(s, r)' = B
      BY <1>4, <1>5 DEF At, Sends
    <2>3. B # {} /\ Cardinality(B) = Cardinality(A) + 1
      BY <1>0, <1>2, AtAppend
    <2> HIDE DEF A, B, q
    <2>1. At(s, r)' # {} /\ Cardinality(At(s, r)') = Cardinality(At(s, r)) + 1
      BY <2>0, <2>3
    <2>2. Cardinality(At(s, r)) <= faults /\ faults' = faults /\ Sent(s, r)'
      BY <1>5 DEF Sends, Tally
    <2> QED BY <1>3, <2>1, <2>2 DEF Tally
  <1>6. ASSUME Passes(s, r) PROVE Tally(s, r)'
    <2>1. PICK x \in RowsOf(s) : x # r /\ stream'[s] = Append(stream[s], x)
      BY <1>6 DEF Passes
    <2>2. At(s, r)' = At(s, r)
      BY <1>0, <1>2, <1>4, <2>1, AtAppend DEF At
    <2>3. faults' = faults /\ (Sent(s, r)' <=> Sent(s, r))
      BY <1>6 DEF Passes
    <2> QED BY <2>2, <2>3 DEF Tally
  <1>7. ASSUME Rests(s, r) PROVE Tally(s, r)'
    <2>1. At(s, r)' = At(s, r)
      BY <1>4, <1>7 DEF At, Rests
    <2> QED BY <1>3, <1>7, <2>1 DEF Tally, Rests
  <1> QED BY <1>1, <1>5, <1>6, <1>7

-----------------------------------------------------------------------------
(* The consumer groups and their readers.  q is a stream, cut how much of  *)
(* it is trimmed, top the last delivered entry, rec what was counted.      *)

GoodItem(it, q, cut, top) ==
  /\ it \in Item /\ it.entry <= top
  /\ it.row = Gone => it.entry <= cut
  /\ it.row # Gone => it.row = q[it.entry]
GoodReader(v, q, cut, top, rec) ==
  /\ v \in Reader
  /\ \A k \in 1 .. Len(v.todo) : GoodItem(v.todo[k], q, cut, top)
  /\ v.wrote => v.todo # <<>> /\ Head(v.todo).row # Gone /\ rec[Head(v.todo).row] = 1

Names == Hosts \cup {UsageName}
Group ==
  /\ DOMAIN reader = Streams
  /\ delivered \in [Streams -> Nat]
  /\ pending \in [Streams -> SUBSET (Nat \X Names)]
  /\ host \in [CampaignReaders -> Hosts]
  /\ recorded \in [Streams -> [Rows -> {0, 1}]]
  /\ \A s \in Streams :
       /\ delivered[s] <= Len(stream[s])
       /\ \A p \in pending[s] : p[1] \in 1 .. delivered[s]
       /\ reader[s] \in [ReadersOf(s) -> Reader]
       /\ \A c \in ReadersOf(s) :
            GoodReader(reader[s][c], stream[s], trimmed[s], delivered[s], recorded[s])
  /\ AckedIsCounted

\* The parts of an item and of a reader.
LEMMA ItemIs ==
  /\ \A it \in Item : it.entry \in Nat \ {0} /\ it.row \in Rows \cup {Gone}
  /\ \A i \in Nat \ {0}, r \in Rows \cup {Gone} :
       LET it == [entry |-> i, row |-> r] IN it \in Item /\ it.entry = i /\ it.row = r
  /\ \A r \in Rows : r # Gone
  BY RowIds DEF Item, Gone

Pcs == {"down", "starting", "running", "dead"}
LEMMA ReaderIs ==
  /\ \A v \in Reader : v.pc \in Pcs /\ v.todo \in Seq(Item) /\ v.wrote \in BOOLEAN
  /\ \A x \in Pcs, q \in Seq(Item) :
       LET v == [pc |-> x, todo |-> q, wrote |-> FALSE] IN v \in Reader /\ v.todo = q /\ ~ v.wrote
  BY DEF Reader, Pcs

\* A reader stays good while the stream grows, entries are delivered and rows
\* are counted.
LEMMA StillGood ==
  ASSUME NEW v, NEW q, NEW cut, NEW top, NEW rec, NEW q2, NEW cut2, NEW top2, NEW rec2,
         GoodReader(v, q, cut, top, rec), Len(q) \in Nat,
         cut \in Nat, cut2 \in Nat, top \in Nat, top2 \in Nat, top <= Len(q),
         cut <= cut2, top <= top2, \A i \in 1 .. Len(q) : q2[i] = q[i],
         \A r \in Rows : rec[r] = 1 => rec2[r] = 1
  PROVE  GoodReader(v, q2, cut2, top2, rec2)
  <1>1. v \in Reader /\ v.todo \in Seq(Item)
    BY ReaderIs DEF GoodReader
  <1>2. ASSUME NEW k \in 1 .. Len(v.todo) PROVE GoodItem(v.todo[k], q2, cut2, top2)
    <2> DEFINE it == v.todo[k]
    <2>1. GoodItem(it, q, cut, top)
      BY DEF GoodReader
    <2> HIDE DEF it
    <2>2. it \in Item /\ it.entry \in Nat \ {0} /\ it.entry <= top
      BY <2>1, ItemIs DEF GoodItem
    <2>3. it.entry \in 1 .. Len(q) /\ it.entry <= top2
      BY <2>2
    <2>4. it.row = Gone => it.entry <= cut2
      BY <2>1, <2>2 DEF GoodItem
    <2>5. it.row # Gone => it.row = q2[it.entry]
      BY <2>1, <2>3 DEF GoodItem
    <2>6. GoodItem(it, q2, cut2, top2)
      BY <2>2, <2>3, <2>4, <2>5 DEF GoodItem
    <2> QED BY <2>6 DEF it
  <1>3. ASSUME v.wrote PROVE v.todo # <<>> /\ Head(v.todo).row # Gone /\ rec2[Head(v.todo).row] = 1
    <2>1. v.todo # <<>> /\ Head(v.todo).row # Gone /\ rec[Head(v.todo).row] = 1
      BY <1>3 DEF GoodReader
    <2>2. Head(v.todo) \in Item
      BY <1>1, <2>1, HeadTailProperties
    <2>3. Head(v.todo).row \in Rows
      BY <2>1, <2>2, ItemIs
    <2> QED BY <2>1, <2>3
  <1> QED BY <1>1, <1>2, <1>3 DEF GoodReader

\* One reader moves.
LEMMA ReaderMoves ==
  ASSUME NEW s \in Streams, NEW c \in ReadersOf(s), NEW v, v \in Reader, SetReader(s, c, v),
         DOMAIN reader = Streams, \A z \in Streams : reader[z] \in [ReadersOf(z) -> Reader]
  PROVE  /\ DOMAIN reader' = Streams /\ \A z \in Streams : reader'[z] \in [ReadersOf(z) -> Reader]
         /\ reader'[s][c] = v
         /\ \A z \in Streams : \A d \in ReadersOf(z) : z # s \/ d # c => reader'[z][d] = reader[z][d]
  <1>1. reader' = [reader EXCEPT ![s][c] = v]
    BY DEF SetReader
  <1>2. reader'[s] = [reader[s] EXCEPT ![c] = v] /\ DOMAIN reader' = Streams
    BY <1>1
  <1>3. \A z \in Streams : z # s => reader'[z] = reader[z]
    BY <1>1
  <1> QED BY <1>2, <1>3

\* What a reader does to the group.
LEMMA GroupOne ==
  ASSUME Group, Log, UNCHANGED <<stream, trimmed>>,
         NEW s \in Streams, NEW c \in ReadersOf(s), NEW v, SetReader(s, c, v),
         GoodReader(v, stream[s], trimmed[s], delivered'[s], recorded'[s]),
         host' \in [CampaignReaders -> Hosts],
         delivered' \in [Streams -> Nat],
         pending' \in [Streams -> SUBSET (Nat \X Names)],
         recorded' \in [Streams -> [Rows -> {0, 1}]],
         \A z \in Streams :
           /\ delivered[z] <= delivered'[z] /\ delivered'[z] <= Len(stream[z])
           /\ \A r \in Rows : recorded[z][r] = 1 => recorded'[z][r] = 1
           /\ \A p \in pending'[z] : p[1] \in 1 .. delivered'[z],
         AckedIsCounted'
  PROVE  Group'
  <1>1. /\ DOMAIN reader' = Streams /\ \A z \in Streams : reader'[z] \in [ReadersOf(z) -> Reader]
        /\ reader'[s][c] = v
        /\ \A z \in Streams : \A d \in ReadersOf(z) : z # s \/ d # c => reader'[z][d] = reader[z][d]
    <2>1. v \in Reader
      BY DEF GoodReader
    <2> QED BY <2>1, ReaderMoves DEF Group
  <1>2. ASSUME NEW z \in Streams, NEW d \in ReadersOf(z)
        PROVE  GoodReader(reader'[z][d], stream'[z], trimmed'[z], delivered'[z], recorded'[z])
    <2>1. CASE z = s /\ d = c
      BY <1>1, <2>1
    <2>2. CASE z # s \/ d # c
      <3>1. reader'[z][d] = reader[z][d]
        BY <1>1, <2>2
      <3>2. GoodReader(reader[z][d], stream[z], trimmed[z], delivered[z], recorded[z])
        BY DEF Group
      <3>3. /\ Len(stream[z]) \in Nat /\ trimmed[z] \in Nat /\ delivered[z] \in Nat
            /\ delivered'[z] \in Nat /\ delivered[z] <= Len(stream[z])
        BY LenProperties DEF Log, Group
      <3>4. /\ trimmed[z] <= trimmed[z] /\ delivered[z] <= delivered'[z]
            /\ \A i \in 1 .. Len(stream[z]) : stream[z][i] = stream[z][i]
            /\ \A r \in Rows : recorded[z][r] = 1 => recorded'[z][r] = 1
        BY <3>3
      <3>5. GoodReader(reader[z][d], stream[z], trimmed[z], delivered'[z], recorded'[z])
        BY <3>2, <3>3, <3>4, StillGood
      <3> QED BY <3>1, <3>5
    <2> QED BY <2>1, <2>2
  <1> QED BY <1>1, <1>2 DEF Group

\* Nothing is acked or delivered.
LEMMA AckedStays ==
  ASSUME Group, Log, UNCHANGED <<stream, trimmed, delivered, pending>>,
         \A z \in Streams, r \in Rows : recorded[z][r] = 1 => recorded'[z][r] = 1
  PROVE  AckedIsCounted'
  <1> SUFFICES ASSUME NEW z \in Streams, NEW i \in trimmed[z] + 1 .. delivered[z],
                      \A p \in pending[z] : p[1] # i
               PROVE  recorded'[z][stream[z][i]] = 1
    BY DEF AckedIsCounted
  <1>1. recorded[z][stream[z][i]] = 1
    BY DEF Group, AckedIsCounted
  <1>2. /\ trimmed[z] \in Nat /\ delivered[z] \in Nat /\ stream[z] \in Seq(Rows) /\ Len(stream[z]) \in Nat
        /\ delivered[z] <= Len(stream[z])
    BY LenProperties DEF Log, Group
  <1>3. i \in 1 .. Len(stream[z])
    BY <1>2
  <1>4. stream[z][i] \in Rows
    BY <1>2, <1>3, ElementOfSeq
  <1> QED BY <1>1, <1>4

\* The steps that change one reader and nothing else of the group.
LEMMA GroupQuiet ==
  ASSUME Group, Log, UNCHANGED <<stream, trimmed, delivered, pending>>,
         NEW s \in Streams, NEW c \in ReadersOf(s), NEW v, SetReader(s, c, v),
         GoodReader(v, stream[s], trimmed[s], delivered[s], recorded'[s]),
         host' \in [CampaignReaders -> Hosts],
         recorded' \in [Streams -> [Rows -> {0, 1}]],
         \A z \in Streams, r \in Rows : recorded[z][r] = 1 => recorded'[z][r] = 1
  PROVE  Group'
  <1>1. AckedIsCounted'
    BY AckedStays
  <1>2. \A z \in Streams : delivered[z] \in Nat /\ delivered[z] <= delivered[z]
    BY DEF Group
  <1>3. /\ delivered' \in [Streams -> Nat] /\ pending' \in [Streams -> SUBSET (Nat \X Names)]
        /\ GoodReader(v, stream[s], trimmed[s], delivered'[s], recorded'[s])
    BY DEF Group
  <1>4. \A z \in Streams :
           /\ delivered[z] <= delivered'[z] /\ delivered'[z] <= Len(stream[z])
           /\ \A r \in Rows : recorded[z][r] = 1 => recorded'[z][r] = 1
           /\ \A p \in pending'[z] : p[1] \in 1 .. delivered'[z]
    BY <1>2 DEF Group
  <1> QED BY <1>1, <1>3, <1>4, GroupOne

\* Steps of the outbox and the relays.
LEMMA GroupCarriage ==
  ASSUME Group, Log, UNCHANGED <<delivered, pending, reader, host, recorded>>, \A z \in Streams : Grows(z)
  PROVE  Group'
  <1>1. ASSUME NEW z \in Streams
        PROVE  /\ delivered[z] \in Nat /\ Len(stream[z]) \in Nat /\ Len(stream'[z]) \in Nat
               /\ delivered[z] <= Len(stream[z]) /\ delivered[z] <= Len(stream'[z])
               /\ trimmed[z] \in Nat /\ trimmed'[z] \in Nat /\ trimmed[z] <= trimmed'[z]
               /\ \A i \in 1 .. Len(stream[z]) : stream'[z][i] = stream[z][i]
    BY DEF Group, Grows
  <1>2. ASSUME NEW z \in Streams, NEW c \in ReadersOf(z)
        PROVE  GoodReader(reader[z][c], stream'[z], trimmed'[z], delivered[z], recorded[z])
    <2>1. GoodReader(reader[z][c], stream[z], trimmed[z], delivered[z], recorded[z])
      BY DEF Group
    <2>2. delivered[z] <= delivered[z]
      BY <1>1
    <2> QED BY <1>1, <2>1, <2>2, StillGood
  <1>3. AckedIsCounted'
    <2> SUFFICES ASSUME NEW z \in Streams, NEW i \in trimmed'[z] + 1 .. delivered[z],
                        \A p \in pending[z] : p[1] # i
                 PROVE  recorded[z][stream'[z][i]] = 1
      BY DEF AckedIsCounted
    <2>1. i \in trimmed[z] + 1 .. delivered[z] /\ i \in 1 .. Len(stream[z])
      BY <1>1
    <2> QED BY <1>1, <2>1 DEF Group, AckedIsCounted
  <1> QED BY <1>1, <1>2, <1>3 DEF Group

\* A trimmed entry comes without its row.
Shows(r, s, i) ==
  \/ r = Gone /\ i <= trimmed[s]
  \/ r # Gone /\ r = stream[s][i] /\ i > trimmed[s]

\* What XREADGROUP returns of a set of entries.
LEMMA ItemsAre ==
  ASSUME Log, NEW s \in Streams, NEW S, S \subseteq 1 .. Len(stream[s])
  PROVE  LET q == FirstById(S, ReadCount)
             its == Items(s, S)
         IN  /\ q \in Seq(S) /\ its \in Seq(Item) /\ Len(its) = Len(q) /\ Len(q) \in Nat
             /\ DOMAIN its = 1 .. Len(q)
             /\ \A k \in 1 .. Len(q) :
                  /\ q[k] \in S /\ its[k].entry = q[k] /\ its[k] \in Item
                  /\ Shows(its[k].row, s, q[k])
  <1> DEFINE q == FirstById(S, ReadCount)
             its == Items(s, S)
  <1>1. Len(stream[s]) \in Nat /\ stream[s] \in Seq(Rows) /\ trimmed[s] \in Nat
    BY LenProperties DEF Log
  <1>2. S \subseteq Nat /\ S \in SUBSET (1 .. Len(stream[s])) /\ ReadCount \in Nat \ {0}
    BY <1>1, Sizes
  <1>3. IsFiniteSet(S)
    <2>1. IsFiniteSet(1 .. Len(stream[s]))
      BY <1>1, FS_Interval
    <2> QED BY <1>2, <2>1, FS_Subset
  <1>4. q \in Seq(S)
    BY <1>2, <1>3, FirstByIdIs
  <1>5. its = [k \in 1 .. Len(q) |-> ItemOf(s, q[k])]
    BY DEF Items
  <1> HIDE DEF q, its
  <1>6. Len(q) \in Nat
    BY <1>4, LenProperties
  <1>7. ASSUME NEW k \in 1 .. Len(q)
        PROVE  /\ q[k] \in S /\ its[k].entry = q[k] /\ its[k] \in Item
               /\ Shows(its[k].row, s, q[k])
    <2>1. q[k] \in S
      BY <1>4, ElementOfSeq
    <2>7. q[k] \in 1 .. Len(stream[s])
      BY <2>1
    <2>2. q[k] \in 1 .. Len(stream[s]) /\ q[k] \in Nat \ {0}
      BY <1>1, <2>7
    <2>3. stream[s][q[k]] \in Rows /\ stream[s][q[k]] # Gone
      BY <1>1, <2>2, ElementOfSeq, ItemIs
    <2>4. its[k] = [entry |-> q[k], row |-> IF q[k] <= trimmed[s] THEN Gone ELSE stream[s][q[k]]]
      BY <1>5 DEF ItemOf
    <2>5. CASE q[k] <= trimmed[s]
      <3>1. its[k] = [entry |-> q[k], row |-> Gone]
        BY <2>4, <2>5
      <3>2. its[k] \in Item /\ its[k].entry = q[k] /\ its[k].row = Gone
        BY <2>2, <3>1, ItemIs
      <3> QED BY <2>1, <2>5, <3>2 DEF Shows
    <2>6. CASE ~(q[k] <= trimmed[s])
      <3>1. its[k] = [entry |-> q[k], row |-> stream[s][q[k]]]
        BY <2>4, <2>6
      <3>2. its[k] \in Item /\ its[k].entry = q[k] /\ its[k].row = stream[s][q[k]]
        BY <2>2, <2>3, <3>1, ItemIs
      <3>3. q[k] > trimmed[s]
        BY <1>1, <2>2, <2>6
      <3> QED BY <2>1, <2>3, <3>2, <3>3 DEF Shows
    <2> QED BY <2>5, <2>6
  <1>8. its \in [1 .. Len(q) -> Item]
    BY <1>5, <1>7
  <1>9. its \in Seq(Item) /\ Len(its) = Len(q) /\ DOMAIN its = 1 .. Len(q)
    <2>1. its \in Seq(Item)
      BY <1>6, <1>8, SeqDef
    <2>2. DOMAIN its = 1 .. Len(q) /\ DOMAIN its = 1 .. Len(its) /\ Len(its) \in Nat
      BY <1>8, <2>1, LenProperties
    <2> QED BY <1>6, <2>1, <2>2
  <1> QED BY <1>4, <1>6, <1>7, <1>9 DEF q, its

\* A reader with a new batch of delivered entries.
LEMMA FreshGood ==
  ASSUME Log, NEW s \in Streams, NEW S, S \subseteq 1 .. Len(stream[s]), NEW top, NEW rec, NEW x \in Pcs,
         \A k \in 1 .. Len(FirstById(S, ReadCount)) : FirstById(S, ReadCount)[k] <= top
  PROVE  GoodReader([pc |-> x, todo |-> Items(s, S), wrote |-> FALSE], stream[s], trimmed[s], top, rec)
  <1> DEFINE its == Items(s, S)
             q == FirstById(S, ReadCount)
             v == [pc |-> x, todo |-> its, wrote |-> FALSE]
  <1>1. /\ its \in Seq(Item) /\ Len(its) = Len(q)
        /\ \A k \in 1 .. Len(q) :
             /\ its[k].entry = q[k] /\ its[k] \in Item
             /\ Shows(its[k].row, s, q[k])
    BY ItemsAre
  <1> HIDE DEF its, q
  <1>2. v \in Reader /\ v.todo = its /\ ~ v.wrote
    BY <1>1, ReaderIs
  <1> HIDE DEF v
  <1>3. ASSUME NEW k \in 1 .. Len(its) PROVE GoodItem(its[k], stream[s], trimmed[s], top)
    <2>1. q[k] <= top
      BY <1>1 DEF q
    <2>2. its[k].entry = q[k] /\ its[k] \in Item /\ Shows(its[k].row, s, q[k])
      BY <1>1
    <2> QED BY <2>1, <2>2 DEF GoodItem, Shows
  <1>4. GoodReader(v, stream[s], trimmed[s], top, rec)
    BY <1>2, <1>3 DEF GoodReader
  <1> QED BY <1>4 DEF v, its

\* A reader that has nothing.
LEMMA DownGood ==
  ASSUME NEW x \in Pcs, NEW q, NEW cut, NEW top, NEW rec
  PROVE  /\ GoodReader([Down EXCEPT !.pc = x], q, cut, top, rec)
         /\ [Down EXCEPT !.pc = x].todo = <<>>
  <1> DEFINE v == [Down EXCEPT !.pc = x]
  <1>1. <<>> \in Seq(Item) /\ Len(<<>>) = 0
    BY EmptySeq
  <1>2. v \in Reader /\ v.todo = <<>> /\ ~ v.wrote
    BY <1>1 DEF Down, Reader, Pcs
  <1> HIDE DEF v
  <1>3. GoodReader(v, q, cut, top, rec) /\ v.todo = <<>>
    BY <1>1, <1>2 DEF GoodReader
  <1> QED BY <1>3 DEF v

\* The next message of a batch.
LEMMA OnwardGood ==
  ASSUME NEW v, NEW q, NEW cut, NEW top, NEW rec, GoodReader(v, q, cut, top, rec), v.todo # <<>>
  PROVE  /\ GoodReader(Onward(v), q, cut, top, rec) /\ Onward(v).todo = Tail(v.todo)
         /\ GoodItem(Head(v.todo), q, cut, top)
  <1> DEFINE u == Onward(v)
  <1>1. v \in Reader /\ v.todo \in Seq(Item) /\ v.pc \in Pcs
    BY ReaderIs DEF GoodReader
  <1>2. /\ Tail(v.todo) \in Seq(Item) /\ Len(v.todo) \in Nat \ {0} /\ Len(Tail(v.todo)) = Len(v.todo) - 1
        /\ \A i \in 1 .. Len(Tail(v.todo)) : Tail(v.todo)[i] = v.todo[i + 1]
        /\ Head(v.todo) = v.todo[1]
    BY <1>1, HeadTailProperties, EmptySeq
  <1>3. u \in Reader /\ u.todo = Tail(v.todo) /\ ~ u.wrote
    BY <1>1, <1>2 DEF Onward, Reader
  <1> HIDE DEF u
  <1>4. ASSUME NEW i \in 1 .. Len(u.todo) PROVE GoodItem(u.todo[i], q, cut, top)
    <2>1. i + 1 \in 1 .. Len(v.todo) /\ u.todo[i] = v.todo[i + 1]
      BY <1>2, <1>3
    <2> QED BY <2>1 DEF GoodReader
  <1>5. GoodItem(Head(v.todo), q, cut, top)
    <2>1. 1 \in 1 .. Len(v.todo)
      BY <1>2
    <2> QED BY <1>2, <2>1 DEF GoodReader
  <1>6. GoodReader(u, q, cut, top, rec)
    BY <1>3, <1>4 DEF GoodReader
  <1> QED BY <1>3, <1>5, <1>6 DEF u

\* Its current message, written.
LEMMA WroteGood ==
  ASSUME NEW v, NEW q, NEW cut, NEW top, NEW rec, GoodReader(v, q, cut, top, rec), v.todo # <<>>,
         Head(v.todo).row # Gone, rec[Head(v.todo).row] = 1
  PROVE  LET u == [v EXCEPT !.wrote = TRUE] IN GoodReader(u, q, cut, top, rec) /\ u.todo = v.todo
  <1> DEFINE u == [v EXCEPT !.wrote = TRUE]
  <1>1. u \in Reader /\ u.todo = v.todo
    BY DEF GoodReader, Reader
  <1> HIDE DEF u
  <1>2. GoodReader(u, q, cut, top, rec)
    BY <1>1 DEF GoodReader
  <1> QED BY <1>1, <1>2 DEF u

\* What is counted becomes one.
CountsRow(s, r) == recorded' = [recorded EXCEPT ![s][r] = Counted(@)]

NowCounted(s, r) ==
  /\ recorded' \in [Streams -> [Rows -> {0, 1}]] /\ recorded'[s][r] = 1
  /\ \A z \in Streams, x \in Rows : (z # s \/ x # r) => recorded'[z][x] = recorded[z][x]
  /\ \A z \in Streams, x \in Rows : recorded[z][x] = 1 => recorded'[z][x] = 1

LEMMA CountedIs ==
  ASSUME Group, NEW s \in Streams, NEW r \in Rows, CountsRow(s, r)
  PROVE  NowCounted(s, r)
  <1>1. recorded \in [Streams -> [Rows -> {0, 1}]] /\ recorded[s][r] \in {0, 1}
    BY DEF Group
  <1> DEFINE one == Counted(recorded[s][r])
  <1>2. one = 1
    BY <1>1 DEF Counted
  <1>3. recorded' = [recorded EXCEPT ![s][r] = one]
    BY DEF CountsRow
  <1> HIDE DEF one
  <1>4. recorded' = [recorded EXCEPT ![s] = [recorded[s] EXCEPT ![r] = 1]]
    BY <1>2, <1>3
  <1>5. recorded'[s] = [recorded[s] EXCEPT ![r] = 1] /\ \A z \in Streams : z # s => recorded'[z] = recorded[z]
    BY <1>1, <1>4
  <1> QED BY <1>1, <1>4, <1>5 DEF NowCounted

\* The pending entries of a name are delivered ones.
LEMMA PendingIs ==
  ASSUME Group, Log, NEW s \in Streams, NEW n
  PROVE  PendingOf(s, n) \subseteq 1 .. delivered[s] /\ PendingOf(s, n) \subseteq 1 .. Len(stream[s])
  <1>1. PendingOf(s, n) \subseteq 1 .. delivered[s]
    BY DEF Group, PendingOf
  <1>2. delivered[s] \in Nat /\ Len(stream[s]) \in Nat /\ delivered[s] <= Len(stream[s])
    BY LenProperties DEF Group, Log
  <1> QED BY <1>1, <1>2

LEMMA PendingGood ==
  ASSUME Group, Log, NEW s \in Streams, NEW c \in ReadersOf(s), NEW x \in Pcs, NEW rec
  PROVE  GoodReader([pc |-> x, todo |-> PendingRead(s, c), wrote |-> FALSE],
                    stream[s], trimmed[s], delivered[s], rec)
  <1> DEFINE S == PendingOf(s, NameOf(s, c))
             q == FirstById(S, ReadCount)
  <1>1. S \subseteq 1 .. delivered[s] /\ S \subseteq 1 .. Len(stream[s]) /\ delivered[s] \in Nat
    BY PendingIs DEF Group
  <1> HIDE DEF S
  <1>2. Len(q) \in Nat /\ \A k \in 1 .. Len(q) : q[k] \in S
    BY <1>1, ItemsAre
  <1>3. ASSUME NEW k \in 1 .. Len(q) PROVE q[k] <= delivered[s]
    <2>1. q[k] \in 1 .. delivered[s]
      BY <1>1, <1>2
    <2> QED BY <1>1, <2>1
  <1> QED BY <1>1, <1>3, FreshGood DEF PendingRead, S

\* The steps that only move a reader.
LEMMA GroupMoves ==
  ASSUME Group, Log, NEW s \in Streams, NEW c \in ReadersOf(s),
         Start(s, c) \/ StartFails(s, c) \/ DrainPending(s, c) \/ AckFails(s, c) \/ Restart(s, c)
  PROVE  Group'
  <1>1. ASSUME NEW v, SetReader(s, c, v), UNCHANGED <<stream, trimmed, delivered, pending, recorded>>,
               GoodReader(v, stream[s], trimmed[s], delivered[s], recorded[s]),
               host' \in [CampaignReaders -> Hosts]
        PROVE  Group'
    <2>1. /\ recorded' \in [Streams -> [Rows -> {0, 1}]]
          /\ GoodReader(v, stream[s], trimmed[s], delivered[s], recorded'[s])
          /\ \A z \in Streams, r \in Rows : recorded[z][r] = 1 => recorded'[z][r] = 1
          /\ UNCHANGED <<stream, trimmed, delivered, pending>>
      BY <1>1 DEF Group
    <2> QED BY <1>1, <2>1, GroupQuiet
  <1>2. host \in [CampaignReaders -> Hosts]
    BY DEF Group
  <1>3. CASE Start(s, c)
    <2> DEFINE v == [pc |-> "starting", todo |-> PendingRead(s, c), wrote |-> FALSE]
    <2>1. SetReader(s, c, v) /\ UNCHANGED <<stream, trimmed, delivered, pending, recorded, host>>
      BY <1>3 DEF Start, redis
    <2>2. GoodReader(v, stream[s], trimmed[s], delivered[s], recorded[s])
      BY PendingGood DEF Pcs
    <2> HIDE DEF v
    <2> QED BY <1>1, <1>2, <2>1, <2>2
  <1>4. CASE StartFails(s, c)
    <2> DEFINE x == IF s = "usage" THEN "starting" ELSE "dead"
               v == [Down EXCEPT !.pc = x]
    <2>1. SetReader(s, c, v) /\ UNCHANGED <<stream, trimmed, delivered, pending, recorded, host>>
      BY <1>4 DEF StartFails, redis
    <2>2. x \in Pcs
      BY DEF Pcs
    <2> HIDE DEF x
    <2>3. GoodReader(v, stream[s], trimmed[s], delivered[s], recorded[s])
      BY <2>2, DownGood
    <2> HIDE DEF v
    <2> QED BY <1>1, <1>2, <2>1, <2>3
  <1>5. CASE DrainPending(s, c)
    <2> DEFINE v == [pc |-> "running", todo |-> PendingRead(s, c), wrote |-> FALSE]
    <2>1. SetReader(s, c, v) /\ UNCHANGED <<stream, trimmed, delivered, pending, recorded, host>>
      BY <1>5 DEF DrainPending, redis
    <2>2. GoodReader(v, stream[s], trimmed[s], delivered[s], recorded[s])
      BY PendingGood DEF Pcs
    <2> HIDE DEF v
    <2> QED BY <1>1, <1>2, <2>1, <2>2
  <1>6. CASE AckFails(s, c)
    <2> DEFINE x == IF reader[s][c].pc = "starting" THEN "dead" ELSE "running"
               v == IF s = "usage" THEN Onward(reader[s][c]) ELSE [Down EXCEPT !.pc = x]
    <2>1. /\ SetReader(s, c, v) /\ UNCHANGED <<stream, trimmed, delivered, pending, recorded, host>>
          /\ reader[s][c].todo # <<>>
      BY <1>6 DEF AckFails, Handling, redis
    <2>2. x \in Pcs
      BY DEF Pcs
    <2> HIDE DEF x
    <2>3. GoodReader(v, stream[s], trimmed[s], delivered[s], recorded[s])
      <3>1. GoodReader(reader[s][c], stream[s], trimmed[s], delivered[s], recorded[s])
        BY DEF Group
      <3>2. GoodReader(Onward(reader[s][c]), stream[s], trimmed[s], delivered[s], recorded[s])
        BY <2>1, <3>1, OnwardGood
      <3>3. GoodReader([Down EXCEPT !.pc = x], stream[s], trimmed[s], delivered[s], recorded[s])
        BY <2>2, DownGood
      <3> QED BY <3>2, <3>3
    <2> HIDE DEF v
    <2> QED BY <1>1, <1>2, <2>1, <2>3
  <1>7. CASE Restart(s, c)
    <2>1. SetReader(s, c, Down) /\ UNCHANGED <<stream, trimmed, delivered, pending, recorded>>
      BY <1>7 DEF Restart, redis
    <2>2. host' \in [CampaignReaders -> Hosts]
      <3>1. CASE UNCHANGED host
        BY <1>2, <3>1
      <3>2. ASSUME NEW h \in Hosts, host' = [host EXCEPT ![c] = h] PROVE host' \in [CampaignReaders -> Hosts]
        BY <1>2, <3>2
      <3> QED BY <1>7, <3>1, <3>2 DEF Restart
    <2>3. GoodReader(Down, stream[s], trimmed[s], delivered[s], recorded[s])
      <3>1. [Down EXCEPT !.pc = "down"] = Down
        BY DEF Down
      <3> QED BY <3>1, DownGood DEF Pcs
    <2> QED BY <1>1, <2>1, <2>2, <2>3
  <1> QED BY <1>3, <1>4, <1>5, <1>6, <1>7

\* The row a reader is about to count.
LEMMA CurrentIs ==
  ASSUME Group, Log, NEW s \in Streams, NEW c \in ReadersOf(s), Handling(s, c)
  PROVE  /\ GoodReader(reader[s][c], stream[s], trimmed[s], delivered[s], recorded[s])
         /\ reader[s][c].todo # <<>> /\ reader[s][c].todo \in Seq(Item)
         /\ Current(s, c) = Head(reader[s][c].todo)
         /\ GoodItem(Current(s, c), stream[s], trimmed[s], delivered[s])
         /\ Current(s, c) \in Item /\ Current(s, c).entry \in 1 .. delivered[s]
         /\ Current(s, c).row # Gone => Current(s, c).row \in Rows
  <1>1. GoodReader(reader[s][c], stream[s], trimmed[s], delivered[s], recorded[s])
    BY DEF Group
  <1>2. reader[s][c].todo # <<>> /\ reader[s][c].todo \in Seq(Item) /\ Current(s, c) = Head(reader[s][c].todo)
    BY <1>1, ReaderIs DEF Handling, Current, GoodReader
  <1>3. GoodItem(Current(s, c), stream[s], trimmed[s], delivered[s])
    BY <1>1, <1>2, OnwardGood
  <1>4. Current(s, c) \in Item /\ Current(s, c).entry <= delivered[s]
    BY <1>3 DEF GoodItem
  <1>5. Current(s, c).entry \in Nat \ {0} /\ Current(s, c).row \in Rows \cup {Gone} /\ delivered[s] \in Nat
    BY <1>4, ItemIs DEF Group
  <1> QED BY <1>1, <1>2, <1>3, <1>4, <1>5

LEMMA GroupWrite ==
  ASSUME Group, Log, NEW s \in Streams, NEW c \in ReadersOf(s),
         Write(s, c) \/ \E written \in BOOLEAN : WriteFails(s, c, written)
  PROVE  Group'
  <1> DEFINE r == Current(s, c).row
             v == reader[s][c]
  <1>0. Handling(s, c) /\ r # Gone /\ UNCHANGED <<stream, trimmed, delivered, host>>
    BY DEF Write, WriteFails, redis
  <1>1. /\ GoodReader(v, stream[s], trimmed[s], delivered[s], recorded[s])
        /\ v.todo # <<>> /\ r \in Rows /\ r = Head(v.todo).row
    BY <1>0, CurrentIs
  <1>2. host' \in [CampaignReaders -> Hosts]
    BY <1>0 DEF Group
  <1>3. /\ trimmed[s] \in Nat /\ delivered[s] \in Nat /\ Len(stream[s]) \in Nat
        /\ delivered[s] <= Len(stream[s]) /\ trimmed[s] <= trimmed[s] /\ delivered[s] <= delivered[s]
        /\ \A i \in 1 .. Len(stream[s]) : stream[s][i] = stream[s][i]
    BY LenProperties DEF Log, Group
  <1>4. ASSUME Write(s, c) PROVE Group'
    <2> DEFINE u == [v EXCEPT !.wrote = TRUE]
    <2>1. /\ recorded' = [recorded EXCEPT ![s][r] = Counted(@)] /\ SetReader(s, c, u)
          /\ UNCHANGED <<stream, trimmed, delivered, pending>>
      BY <1>4 DEF Write, redis
    <2>2. /\ recorded' \in [Streams -> [Rows -> {0, 1}]] /\ recorded'[s][r] = 1
          /\ \A z \in Streams, x \in Rows : recorded[z][x] = 1 => recorded'[z][x] = 1
      <3>1. CountsRow(s, r)
        BY <2>1 DEF CountsRow
      <3> QED BY <1>1, <3>1, CountedIs DEF NowCounted
    <2>5. \A x \in Rows : recorded[s][x] = 1 => recorded'[s][x] = 1
      BY <2>2
    <2>3. GoodReader(v, stream[s], trimmed[s], delivered[s], recorded'[s])
      BY <1>1, <1>3, <2>5, StillGood
    <2>4. GoodReader(u, stream[s], trimmed[s], delivered[s], recorded'[s])
      BY <1>0, <1>1, <2>2, <2>3, WroteGood
    <2> HIDE DEF u
    <2> QED BY <1>2, <2>1, <2>2, <2>4, GroupQuiet
  <1>5. ASSUME NEW written \in BOOLEAN, WriteFails(s, c, written) PROVE Group'
    <2> DEFINE u == Onward(v)
    <2>1. /\ recorded' = IF written THEN [recorded EXCEPT ![s][r] = Counted(@)] ELSE recorded
          /\ SetReader(s, c, u) /\ pending' = [pending EXCEPT ![s] = pending[s]]
      BY <1>5 DEF WriteFails, AfterFailure
    <2>2. pending' = pending
      BY <2>1 DEF Group
    <2>3. /\ recorded' \in [Streams -> [Rows -> {0, 1}]]
          /\ \A z \in Streams, x \in Rows : recorded[z][x] = 1 => recorded'[z][x] = 1
      <3>1. CASE written
        <4>1. CountsRow(s, r)
          BY <2>1, <3>1 DEF CountsRow
        <4> QED BY <1>1, <4>1, CountedIs DEF NowCounted
      <3>2. CASE ~ written
        BY <2>1, <3>2 DEF Group
      <3> QED BY <3>1, <3>2
    <2>4. \A x \in Rows : recorded[s][x] = 1 => recorded'[s][x] = 1
      BY <2>3
    <2>5. GoodReader(v, stream[s], trimmed[s], delivered[s], recorded'[s])
      BY <1>1, <1>3, <2>4, StillGood
    <2>6. GoodReader(u, stream[s], trimmed[s], delivered[s], recorded'[s])
      BY <1>1, <2>5, OnwardGood
    <2> HIDE DEF u
    <2>7. UNCHANGED <<stream, trimmed, delivered, pending>>
      BY <1>0, <2>2
    <2> QED BY <1>2, <2>1, <2>3, <2>6, <2>7, GroupQuiet
  <1> QED BY <1>4, <1>5

LEMMA GroupAck ==
  ASSUME Group, Log, NEW s \in Streams, NEW c \in ReadersOf(s), Ack(s, c)
  PROVE  Group'
  <1> DEFINE e == Current(s, c).entry
             v == reader[s][c]
  <1>0. /\ Handling(s, c) /\ Ackable(s, c) /\ UNCHANGED <<stream, trimmed, delivered, host, recorded>>
        /\ SetReader(s, c, Onward(v))
        /\ pending' = [pending EXCEPT ![s] = {p \in pending[s] : p[1] # e}]
    BY DEF Ack
  <1>1. /\ GoodReader(v, stream[s], trimmed[s], delivered[s], recorded[s])
        /\ v.todo # <<>> /\ Current(s, c) = Head(v.todo)
        /\ GoodItem(Current(s, c), stream[s], trimmed[s], delivered[s])
        /\ e \in 1 .. delivered[s]
    BY <1>0, CurrentIs
  <1>2. GoodReader(Onward(v), stream[s], trimmed[s], delivered[s], recorded[s])
    BY <1>1, OnwardGood
  <1>3. e <= trimmed[s] \/ recorded[s][stream[s][e]] = 1
    <2>1. CASE Current(s, c).row = Gone
      BY <1>1, <2>1 DEF GoodItem
    <2>2. CASE Current(s, c).row # Gone
      BY <1>0, <1>1, <2>2 DEF GoodItem, GoodReader, Ackable
    <2> QED BY <2>1, <2>2
  <1>4. /\ pending \in [Streams -> SUBSET (Nat \X Names)]
        /\ \A z \in Streams : delivered[z] \in Nat /\ trimmed[z] \in Nat /\ delivered[z] <= delivered[z]
    BY DEF Group, Log
  <1>5. /\ \A z \in Streams : pending'[z] \subseteq pending[z]
        /\ \A z \in Streams : \A p \in pending[z] : z # s \/ p[1] # e => p \in pending'[z]
        /\ pending' \in [Streams -> SUBSET (Nat \X Names)]
    BY <1>0, <1>4
  <1>6. AckedIsCounted'
    <2> SUFFICES ASSUME NEW z \in Streams, NEW i \in trimmed[z] + 1 .. delivered[z],
                        \A p \in pending'[z] : p[1] # i
                 PROVE  recorded[z][stream[z][i]] = 1
      BY <1>0 DEF AckedIsCounted
    <2>1. CASE z = s /\ i = e
      <3>1. ~ (e <= trimmed[s])
        BY <1>4, <2>1
      <3> QED BY <1>3, <2>1, <3>1
    <2>2. CASE z # s \/ i # e
      <3>1. \A p \in pending[z] : p[1] # i
        BY <1>5, <2>2
      <3> QED BY <3>1 DEF Group, AckedIsCounted
    <2> QED BY <2>1, <2>2
  <1>7. \A z \in Streams : \A p \in pending'[z] : p[1] \in 1 .. delivered[z]
    BY <1>5 DEF Group
  <1>8. /\ host' \in [CampaignReaders -> Hosts] /\ delivered' \in [Streams -> Nat]
        /\ recorded' \in [Streams -> [Rows -> {0, 1}]]
        /\ GoodReader(Onward(v), stream[s], trimmed[s], delivered'[s], recorded'[s])
    BY <1>0, <1>2 DEF Group
  <1>9. \A z \in Streams :
           /\ delivered[z] <= delivered'[z] /\ delivered'[z] <= Len(stream[z])
           /\ \A r \in Rows : recorded[z][r] = 1 => recorded'[z][r] = 1
           /\ \A p \in pending'[z] : p[1] \in 1 .. delivered'[z]
    BY <1>0, <1>4, <1>7 DEF Group
  <1> QED BY <1>0, <1>5, <1>6, <1>8, <1>9, GroupOne

\* A read takes the oldest undelivered entries, so none is passed over.
LEMMA ReadIs ==
  ASSUME Group, Log, NEW s \in Streams, NEW c \in ReadersOf(s), Read(s, c)
  PROVE  LET q == FirstById(Undelivered(s), ReadCount)
             top == q[Len(q)]
         IN  /\ q \in Seq(Undelivered(s)) /\ Len(q) \in Nat \ {0} /\ top \in Undelivered(s)
             /\ delivered' = [delivered EXCEPT ![s] = top]
             /\ pending' = [pending EXCEPT ![s] = @ \cup ({q[k] : k \in 1 .. Len(q)} \X {NameOf(s, c)})]
             /\ \A k \in 1 .. Len(q) : q[k] \in Undelivered(s) /\ q[k] <= top
             /\ \A i \in Undelivered(s) : i <= top => \E k \in 1 .. Len(q) : i = q[k]
  <1> DEFINE S == Undelivered(s)
             q == FirstById(S, ReadCount)
             its == Items(s, S)
             top == q[Len(q)]
  <1>1. Len(stream[s]) \in Nat /\ S \in SUBSET (1 .. Len(stream[s])) /\ ReadCount \in Nat \ {0}
    BY LenProperties, Sizes DEF Log, Undelivered
  <1>2. S \subseteq Nat /\ IsFiniteSet(S)
    <2>1. IsFiniteSet(1 .. Len(stream[s]))
      BY <1>1, FS_Interval
    <2>2. 1 .. Len(stream[s]) \subseteq Nat
      BY <1>1
    <2> QED BY <1>1, <2>1, <2>2, FS_Subset
  <1>3. /\ its \in Seq(Item) /\ Len(its) = Len(q) /\ Len(q) \in Nat /\ DOMAIN its = 1 .. Len(q)
        /\ \A k \in 1 .. Len(q) : q[k] \in S /\ its[k].entry = q[k]
    BY <1>1, ItemsAre
  <1>4. /\ q \in Seq(S)
        /\ \A i, j \in 1 .. Len(q) : i < j => q[i] < q[j]
        /\ \A x \in S, j \in 1 .. Len(q) : x <= q[j] => \E i \in 1 .. Len(q) : x = q[i]
    BY <1>1, <1>2, FirstByIdIs
  <1>5. /\ its # <<>>
        /\ delivered' = [delivered EXCEPT ![s] = Last(its).entry]
        /\ pending' = [pending EXCEPT ![s] = @ \cup ({its[k].entry : k \in DOMAIN its} \X {NameOf(s, c)})]
    BY DEF Read
  <1> HIDE DEF S, q, its
  <1>6. Len(q) \in Nat \ {0}
    BY <1>3, <1>5, EmptySeq
  <1>7. Len(q) \in 1 .. Len(q)
    BY <1>6
  <1>8. top \in S /\ Last(its).entry = top
    BY <1>3, <1>7 DEF Last
  <1>9. ASSUME NEW k \in 1 .. Len(q) PROVE q[k] \in S /\ q[k] <= top
    <2>1. q[k] \in S /\ q[k] \in Nat /\ top \in Nat
      BY <1>2, <1>3, <1>8
    <2>2. k = Len(q) \/ k < Len(q)
      BY <1>6
    <2>3. CASE k = Len(q)
      BY <2>1, <2>3
    <2>4. CASE k < Len(q)
      <3>1. q[k] < top
        BY <1>4, <1>7, <2>4
      <3> QED BY <2>1, <3>1
    <2> QED BY <2>2, <2>3, <2>4
  <1>10. \A i \in S : i <= top => \E k \in 1 .. Len(q) : i = q[k]
    BY <1>4, <1>7
  <1>11. {its[k].entry : k \in DOMAIN its} = {q[k] : k \in 1 .. Len(q)}
    BY <1>3
  <1>12. /\ delivered' = [delivered EXCEPT ![s] = top]
         /\ pending' = [pending EXCEPT ![s] = @ \cup ({q[k] : k \in 1 .. Len(q)} \X {NameOf(s, c)})]
    BY <1>5, <1>8, <1>11
  <1> QED BY <1>4, <1>6, <1>8, <1>9, <1>10, <1>12 DEF q, S

LEMMA GroupRead ==
  ASSUME Group, Log, NEW s \in Streams, NEW c \in ReadersOf(s), Read(s, c)
  PROVE  Group'
  <1> DEFINE S == Undelivered(s)
             q == FirstById(S, ReadCount)
             top == q[Len(q)]
             E == {q[k] : k \in 1 .. Len(q)}
             n == NameOf(s, c)
             v == [pc |-> "running", todo |-> Items(s, S), wrote |-> FALSE]
  <1>1. /\ q \in Seq(S) /\ Len(q) \in Nat \ {0} /\ top \in S
        /\ delivered' = [delivered EXCEPT ![s] = top]
        /\ pending' = [pending EXCEPT ![s] = @ \cup (E \X {n})]
        /\ \A k \in 1 .. Len(q) : q[k] \in S /\ q[k] <= top
        /\ \A i \in S : i <= top => \E k \in 1 .. Len(q) : i = q[k]
    BY ReadIs
  <1>2. SetReader(s, c, v) /\ UNCHANGED <<stream, trimmed, host, recorded>>
    BY DEF Read
  <1>3. /\ S \subseteq 1 .. Len(stream[s]) /\ Len(stream[s]) \in Nat /\ trimmed[s] \in Nat
        /\ delivered[s] \in Nat /\ \A i \in S : i > delivered[s] /\ i > trimmed[s]
    BY LenProperties DEF Log, Group, Undelivered
  <1>4. GoodReader(v, stream[s], trimmed[s], top, recorded'[s])
    BY <1>1, <1>3, FreshGood DEF Pcs
  <1>5. \A i \in 1 .. Len(stream[s]) : i > delivered[s] /\ i > trimmed[s] => i \in S
    BY DEF Undelivered
  <1> HIDE DEF S, q, v
  <1>6. n \in Names
    <2>1. host \in [CampaignReaders -> Hosts]
      BY DEF Group
    <2>2. s # "usage" => c \in CampaignReaders
      BY DEF ReadersOf, Streams
    <2> QED BY <2>1, <2>2 DEF NameOf, Names
  <1>7. top \in 1 .. Len(stream[s])
    BY <1>1, <1>3
  <1>8. top \in Nat /\ delivered[s] <= top /\ top <= Len(stream[s])
    BY <1>1, <1>3, <1>7
  <1> HIDE DEF n, top
  <1>9. /\ delivered' \in [Streams -> Nat] /\ delivered'[s] = top
        /\ \A z \in Streams : z # s => delivered'[z] = delivered[z]
    BY <1>1, <1>8 DEF Group
  <1>10. ASSUME NEW i \in E PROVE i \in 1 .. top /\ i \in Nat
    <2>1. PICK k \in 1 .. Len(q) : i = q[k]
      OBVIOUS
    <2>2. i \in S /\ i <= top
      BY <1>1, <2>1
    <2>3. i \in 1 .. Len(stream[s])
      BY <1>3, <2>2
    <2> QED BY <1>8, <2>2, <2>3
  <1>11. \A i \in S : i <= top => i \in E
    BY <1>1
  <1> HIDE DEF E
  <1>12. pending \in [Streams -> SUBSET (Nat \X Names)]
    BY DEF Group
  <1>13. pending'[s] = pending[s] \cup (E \X {n}) /\ \A z \in Streams : z # s => pending'[z] = pending[z]
    BY <1>1, <1>12
  <1>14. E \X {n} \subseteq Nat \X Names
    BY <1>6, <1>10
  <1>15. pending' \in [Streams -> SUBSET (Nat \X Names)]
    BY <1>1, <1>12, <1>14
  <1>16. ASSUME NEW z \in Streams
         PROVE  /\ delivered[z] <= delivered'[z] /\ delivered'[z] <= Len(stream[z])
                /\ \A r \in Rows : recorded[z][r] = 1 => recorded'[z][r] = 1
                /\ \A p \in pending'[z] : p[1] \in 1 .. delivered'[z]
    <2>1. delivered[z] \in Nat /\ delivered[z] <= Len(stream[z]) /\ \A p \in pending[z] : p[1] \in 1 .. delivered[z]
      BY DEF Group
    <2>2. CASE z = s
      <3>1. ASSUME NEW p \in pending[s] PROVE p[1] \in 1 .. top
        <4>1. p[1] \in 1 .. delivered[s]
          BY <2>1, <2>2
        <4> QED BY <1>3, <1>8, <4>1
      <3>2. ASSUME NEW p \in E \X {n} PROVE p[1] \in 1 .. top
        BY <1>10, <3>2
      <3> QED BY <1>2, <1>8, <1>9, <1>13, <2>2, <3>1, <3>2
    <2>3. CASE z # s
      <3>1. delivered'[z] = delivered[z] /\ pending'[z] = pending[z] /\ delivered[z] <= delivered[z]
        BY <1>9, <1>13, <2>1, <2>3
      <3> QED BY <1>2, <2>1, <3>1
    <2> QED BY <2>2, <2>3
  <1>17. AckedIsCounted'
    <2> SUFFICES ASSUME NEW z \in Streams, NEW i \in trimmed[z] + 1 .. delivered'[z],
                        \A p \in pending'[z] : p[1] # i
                 PROVE  recorded[z][stream[z][i]] = 1
      BY <1>2 DEF AckedIsCounted
    <2>1. CASE z = s /\ ~ (i <= delivered[s])
      <3>1. i \in 1 .. Len(stream[s]) /\ i > delivered[s] /\ i > trimmed[s] /\ i <= top
        BY <1>3, <1>8, <1>9, <2>1
      <3>2. i \in E
        BY <1>5, <1>11, <3>1
      <3>3. <<i, n>> \in pending'[s]
        BY <1>13, <3>2
      <3>4. <<i, n>>[1] = i
        OBVIOUS
      <3> QED BY <2>1, <3>3, <3>4
    <2>2. CASE z # s \/ i <= delivered[s]
      <3>1. trimmed[z] \in Nat /\ delivered[z] \in Nat
        BY DEF Log, Group
      <3>2. i \in trimmed[z] + 1 .. delivered[z]
        BY <1>3, <1>8, <1>9, <2>2, <3>1
      <3>3. \A p \in pending[z] : p[1] # i
        BY <1>13
      <3> QED BY <3>2, <3>3 DEF Group, AckedIsCounted
    <2> QED BY <2>1, <2>2
  <1>18. host' \in [CampaignReaders -> Hosts] /\ recorded' \in [Streams -> [Rows -> {0, 1}]]
    BY <1>2 DEF Group
  <1>19. GoodReader(v, stream[s], trimmed[s], delivered'[s], recorded'[s])
    BY <1>4, <1>9 DEF top
  <1> QED BY <1>2, <1>9, <1>15, <1>16, <1>17, <1>18, <1>19, GroupOne

-----------------------------------------------------------------------------
(* The invariant.                                                          *)

Inv ==
  /\ Batches /\ Log /\ Group
  /\ faults \in 0 .. MaxFaults
  /\ \A s \in Streams : \A r \in RowsOf(s) : Tally(s, r)

LEMMA InitInv == Init => Inv
  <1> SUFFICES ASSUME Init PROVE Inv
    OBVIOUS
  <1>1. \A s \in Streams : RowsOf(s) \subseteq Rows
    BY RowsOfAre
  <1>2. <<>> \in Seq(Rows) /\ <<>> \in Seq(Tagged) /\ Len(<<>>) = 0 /\ DOMAIN <<>> = {}
    BY EmptySeq, LenProperties
  <1>3. Batches
    <2>1. Idle \in Batch
      BY IdleIs, LocksAreRows
    <2>2. outbox \in [Rows -> Status] /\ relay \in [Relays -> Batch] /\ \A w \in Relays : relay[w] = Idle
      BY <2>1 DEF Init, Status
    <2> QED BY <2>2, IdleIs DEF Batches, Apart
  <1>4. Log
    <2>1. stream \in [Streams -> Seq(Rows)] /\ trimmed \in [Streams -> Nat]
      BY <1>2 DEF Init
    <2>2. ASSUME NEW s \in Streams
          PROVE  stream[s] \in Seq(RowsOf(s)) /\ trimmed[s] <= Len(stream[s]) /\ Len(stream[s]) = 0
      <3>1. stream[s] = <<>> /\ trimmed[s] = 0
        BY DEF Init
      <3> QED BY <1>2, <3>1 DEF RowsOf
    <2>3. \A s \in Streams : 1 .. Len(stream[s]) = {}
      BY <2>2
    <2> QED BY <2>1, <2>2, <2>3 DEF Log
  <1>5. Group
    <2> DEFINE v == [Down EXCEPT !.pc = "running"]
    <2>1. \A q, cut, top, rec : GoodReader(v, q, cut, top, rec)
      BY DownGood DEF Pcs
    <2>2. v \in Reader
      BY <2>1 DEF GoodReader
    <2>3. reader = [s \in Streams |-> [c \in ReadersOf(s) |-> v]]
      BY DEF Init
    <2> HIDE DEF v
    <2>4. /\ DOMAIN reader = Streams /\ delivered \in [Streams -> Nat]
          /\ pending \in [Streams -> SUBSET (Nat \X Names)] /\ host \in [CampaignReaders -> Hosts]
          /\ recorded \in [Streams -> [Rows -> {0, 1}]]
      BY <2>3 DEF Init
    <2>5. ASSUME NEW s \in Streams
          PROVE  /\ delivered[s] = 0 /\ pending[s] = {} /\ delivered[s] <= Len(stream[s]) /\ trimmed[s] = 0
                 /\ reader[s] \in [ReadersOf(s) -> Reader]
                 /\ \A c \in ReadersOf(s) :
                      GoodReader(reader[s][c], stream[s], trimmed[s], delivered[s], recorded[s])
      <3>1. delivered[s] = 0 /\ pending[s] = {} /\ Len(stream[s]) = 0 /\ trimmed[s] = 0
        BY <1>2 DEF Init
      <3> QED BY <2>1, <2>2, <2>3, <3>1
    <2>6. AckedIsCounted
      <3>1. \A s \in Streams : trimmed[s] + 1 .. delivered[s] = {}
        BY <2>5
      <3> QED BY <3>1 DEF AckedIsCounted
    <2> QED BY <2>4, <2>5, <2>6 DEF Group
  <1>6. faults = 0 /\ faults \in 0 .. MaxFaults
    BY Sizes DEF Init
  <1>7. ASSUME NEW s \in Streams, NEW r \in RowsOf(s) PROVE Tally(s, r)
    <2>1. outbox[r] = "absent" /\ stream[s] = <<>> /\ \A w \in Relays : relay[w] = Idle
      BY <1>1 DEF Init
    <2>2. ~ Sent(s, r)
      BY <2>1, IdleIs DEF Sent, Carries
    <2>3. At(s, r) = {}
      BY <1>2, <2>1 DEF At
    <2> QED BY <1>6, <2>2, <2>3, FS_EmptySet DEF Tally
  <1> QED BY <1>3, <1>4, <1>5, <1>6, <1>7 DEF Inv

LEMMA GroupStep ==
  ASSUME Batches, Log, Group, [Next]_vars
  PROVE  Group'
  <1>1. \A z \in Streams : Grows(z)
    BY LogStep
  <1>2. ASSUME Carriage PROVE Group'
    BY <1>1, <1>2, GroupCarriage DEF Carriage
  <1>3. ASSUME NEW s \in Streams, NEW c \in ReadersOf(s), ReaderStep(s, c) PROVE Group'
    BY <1>3, GroupMoves, GroupWrite, GroupAck, GroupRead DEF ReaderStep
  <1>4. ASSUME NEW s \in Streams, NEW c \in ReadersOf(s), ReaderFault(s, c) PROVE Group'
    BY <1>4, GroupMoves, GroupWrite DEF ReaderFault
  <1>5. CASE UNCHANGED vars
    BY <1>1, <1>5, GroupCarriage DEF vars, redis
  <1> QED BY <1>2, <1>3, <1>4, <1>5, CarriageSteps DEF Next

LEMMA FaultsStep ==
  ASSUME faults \in 0 .. MaxFaults, [Next]_vars
  PROVE  faults' \in 0 .. MaxFaults
  <1>0. MaxFaults \in Nat
    BY Sizes
  <1>1. ASSUME NEW k, Fails(k) PROVE faults' \in 0 .. MaxFaults
    BY <1>0, <1>1 DEF Fails
  <1>2. ASSUME NEW r \in Rows, Emit(r) \/ Purge(r) PROVE faults' = faults
    BY <1>2 DEF Emit, Purge
  <1>3. ASSUME NEW w \in Relays, RelayStep(w) PROVE faults' = faults
    BY <1>3 DEF RelayStep, DrainBegin, SendUsage, SendCampaign, Commit
  <1>4. ASSUME NEW w \in Relays, Abort(w) PROVE faults' \in 0 .. MaxFaults
    BY <1>1, <1>4 DEF Abort
  <1>5. ASSUME NEW s \in Streams, NEW c \in ReadersOf(s), ReaderStep(s, c) PROVE faults' = faults
    BY <1>5 DEF ReaderStep, Start, Read, DrainPending, Write, Ack
  <1>6. ASSUME NEW s \in Streams, NEW c \in ReadersOf(s), ReaderFault(s, c) PROVE faults' \in 0 .. MaxFaults
    <2>1. CASE StartFails(s, c)
      BY <2>1 DEF StartFails
    <2>2. CASE AckFails(s, c)
      BY <1>1, <2>2 DEF AckFails
    <2>3. CASE Restart(s, c)
      BY <1>1, <2>3 DEF Restart
    <2>4. ASSUME NEW written \in BOOLEAN, WriteFails(s, c, written) PROVE faults' \in 0 .. MaxFaults
      BY <1>1, <2>4 DEF WriteFails
    <2> QED BY <1>6, <2>1, <2>2, <2>3, <2>4 DEF ReaderFault
  <1>7. CASE UNCHANGED vars
    BY <1>7 DEF vars
  <1> QED BY <1>2, <1>3, <1>4, <1>5, <1>6, <1>7 DEF Next

LEMMA InvStep == Inv /\ [Next]_vars => Inv'
  <1> SUFFICES ASSUME Inv, [Next]_vars PROVE Inv'
    OBVIOUS
  <1>1. Batches /\ Log /\ Group /\ faults \in 0 .. MaxFaults /\ faults \in Nat
    BY Sizes DEF Inv
  <1>2. Batches' /\ Log' /\ Group' /\ faults' \in 0 .. MaxFaults
    BY <1>1, BatchesStep, LogStep, GroupStep, FaultsStep
  <1>3. ASSUME NEW s \in Streams, NEW r \in RowsOf(s) PROVE Tally(s, r)'
    BY <1>1, TallyStep DEF Inv
  <1> QED BY <1>2, <1>3 DEF Inv

LEMMA Invariant == Spec => []Inv
  BY InitInv, InvStep, PTL DEF Spec

\* Type correctness: an outbox row, a batch, a stream, a group and a reader
\* always have their shape, no entry is pending or trimmed before it was
\* delivered or added, and no batch sends a row that it still has to send.
THEOREM TypeCorrect == Spec => []TypeOK
  <1>1. Inv => TypeOK
    <2> SUFFICES ASSUME Inv PROVE TypeOK
      OBVIOUS
    <2>1. Batches /\ Log /\ Group /\ faults \in 0 .. MaxFaults
      BY DEF Inv
    <2>2. outbox \in [Rows -> {"absent", "waiting", "published", "purged"}] /\ relay \in [Relays -> Batch]
      BY <2>1 DEF Batches, Status
    <2>3. \A w \in Relays : ToSet(relay[w].todo) \cap relay[w].sent = {}
      BY <2>1 DEF Batches, Good
    <2>4. /\ stream \in [Streams -> Seq(Rows)] /\ trimmed \in [Streams -> Nat]
          /\ \A s \in Streams : trimmed[s] <= Len(stream[s])
      BY <2>1 DEF Log
    <2>5. /\ delivered \in [Streams -> Nat] /\ DOMAIN reader = Streams /\ host \in [CampaignReaders -> Hosts]
          /\ pending \in [Streams -> SUBSET (Nat \X (Hosts \cup {UsageName}))]
          /\ \A s \in Streams :
               /\ delivered[s] <= Len(stream[s])
               /\ \A p \in pending[s] : p[1] \in 1 .. delivered[s]
               /\ reader[s] \in [ReadersOf(s) -> Reader]
      BY <2>1 DEF Group, Names
    <2>6. recorded \in [Streams -> [Rows -> Nat]]
      BY <2>1 DEF Group
    <2> QED BY <2>1, <2>2, <2>3, <2>4, <2>5, <2>6 DEF TypeOK
  <1> QED BY <1>1, Invariant, PTL

\* Whatever replicas share a consumer name, restart or fail to ack, an entry
\* leaves the pending list only when its row was counted, or its entry trimmed.
THEOREM AckMeansCounted == Spec => []AckedIsCounted
  <1>1. Inv => AckedIsCounted
    BY DEF Inv, Group
  <1> QED BY <1>1, Invariant, PTL

\* A row enters a stream once, and again only after an aborted batch, however
\* many replicas drain and however large their batches are.
THEOREM DoublesOnlyByAborts == Spec => []DoublesNeedAborts
  <1>1. Inv => DoublesNeedAborts
    <2> SUFFICES ASSUME Inv, NEW s \in Streams, NEW r \in Rows
                 PROVE  Cardinality(At(s, r)) <= 1 + faults
      BY DEF DoublesNeedAborts, At
    <2>1. faults \in Nat /\ stream[s] \in Seq(Rows) /\ stream[s] \in Seq(RowsOf(s))
      BY Sizes DEF Inv, Log
    <2>2. Cardinality(At(s, r)) \in Nat
      BY <2>1, AtIsFinite DEF At
    <2>3. CASE r \in RowsOf(s)
      <3>1. Cardinality(At(s, r)) <= faults + (IF Sent(s, r) THEN 1 ELSE 0)
        BY <2>3 DEF Inv, Tally
      <3> QED BY <2>1, <2>2, <3>1
    <2>4. CASE r \notin RowsOf(s)
      <3>1. \A i \in DOMAIN stream[s] : stream[s][i] \in RowsOf(s)
        BY <2>1, LenProperties, ElementOfSeq
      <3>2. At(s, r) = {}
        BY <2>4, <3>1 DEF At
      <3> QED BY <2>1, <3>2, FS_EmptySet
    <2> QED BY <2>3, <2>4
  <1> QED BY <1>1, Invariant, PTL

\* A published row is in its streams, and there it is counted, pending or not
\* yet delivered: only trimming takes it away uncounted.
LEMMA LostIsTrimmed == Inv => LostOnlyByTrimming
  <1> SUFFICES ASSUME Inv, NEW s \in Streams, NEW r \in RowsOf(s), Lost(s, r)
               PROVE  \E i \in 1 .. trimmed[s] : stream[s][i] = r
    BY DEF LostOnlyByTrimming
  <1>1. r \in Rows /\ outbox[r] \in Status /\ outbox[r] # "absent" /\ recorded[s][r] = 0 /\ ~ HasCopy(s, r)
    BY RowsOfAre DEF Lost, Inv, Batches
  <1>2. Sent(s, r)
    BY <1>1 DEF Sent, HasCopy, Status
  <1>3. PICK i \in DOMAIN stream[s] : stream[s][i] = r
    BY <1>2 DEF Inv, Tally, At
  <1>4. /\ i \in 1 .. Len(stream[s]) /\ Len(stream[s]) \in Nat /\ trimmed[s] \in Nat /\ delivered[s] \in Nat
    BY LenProperties DEF Inv, Log, Group
  <1>5. CASE i <= trimmed[s]
    <2>1. i \in 1 .. trimmed[s]
      BY <1>4, <1>5
    <2> QED BY <1>3, <2>1
  <1>6. CASE ~ (i <= trimmed[s])
    <2>1. i \in trimmed[s] + 1 .. Len(stream[s])
      BY <1>4, <1>6
    <2>2. ~ (i > delivered[s]) /\ \A p \in pending[s] : p[1] # i
      BY <1>1, <1>3, <2>1 DEF HasCopy
    <2>3. i \in trimmed[s] + 1 .. delivered[s]
      BY <1>4, <2>1, <2>2
    <2>4. recorded[s][stream[s][i]] = 1
      BY <2>2, <2>3 DEF Inv, Group, AckedIsCounted
    <2> QED BY <1>1, <1>3, <2>4
  <1> QED BY <1>5, <1>6

\* No abort, crash, failed write, failed ack or purge loses a row.
THEOREM TrimmingOnlyLoses == Spec => []LostOnlyByTrimming
  BY LostIsTrimmed, Invariant, PTL

-----------------------------------------------------------------------------
(* The refinement.  What matters is that a row once lost stays lost: no    *)
(* step brings back a row of which the system has no copy.                 *)

\* No entry of the row can still be read.
Free(s, r) ==
  \A i \in 1 .. Len(stream[s]) :
    i > trimmed[s] /\ stream[s][i] = r => i <= delivered[s] /\ \A p \in pending[s] : p[1] # i

LEMMA CopyIs ==
  ASSUME Log, Group, NEW s \in Streams, NEW r
  PROVE  HasCopy(s, r) <=> outbox[r] = "waiting" \/ InHand(s, r) \/ ~ Free(s, r)
  <1>1. trimmed[s] \in Nat /\ Len(stream[s]) \in Nat /\ delivered[s] \in Nat
    BY LenProperties DEF Log, Group
  <1>2. \A i \in trimmed[s] + 1 .. Len(stream[s]) : i \in 1 .. Len(stream[s]) /\ i > trimmed[s] /\ i \in Nat
    BY <1>1
  <1>3. \A i \in 1 .. Len(stream[s]) : i > trimmed[s] => i \in trimmed[s] + 1 .. Len(stream[s])
    BY <1>1
  <1>4. \A i \in 1 .. Len(stream[s]) : i <= delivered[s] <=> ~ (i > delivered[s])
    BY <1>1
  <1>5. Free(s, r) <=> ~ \E i \in trimmed[s] + 1 .. Len(stream[s]) :
                           /\ stream[s][i] = r
                           /\ i > delivered[s] \/ \E p \in pending[s] : p[1] = i
    BY <1>2, <1>3, <1>4 DEF Free
  <1> QED BY <1>5 DEF HasCopy

\* A sequence of items whose rows have a copy already.
Known(s, r) == r = Gone \/ InHand(s, r) \/ ~ Free(s, r)
Comes(s, q) == \A k \in 1 .. Len(q) : Known(s, q[k].row)

LEMMA ItemsCome ==
  ASSUME Log, Group, NEW s \in Streams, NEW S, S \subseteq 1 .. Len(stream[s]),
         \A i \in S : i > delivered[s] \/ \E p \in pending[s] : p[1] = i
  PROVE  Comes(s, Items(s, S))
  <1> DEFINE q == FirstById(S, ReadCount)
             its == Items(s, S)
  <1>1. /\ Len(its) = Len(q)
        /\ \A k \in 1 .. Len(q) : q[k] \in S /\ Shows(its[k].row, s, q[k])
    BY ItemsAre
  <1> HIDE DEF q, its
  <1>2. ASSUME NEW k \in 1 .. Len(its) PROVE Known(s, its[k].row)
    <2>1. q[k] \in S /\ Shows(its[k].row, s, q[k])
      BY <1>1
    <2>2. CASE its[k].row = Gone
      BY <2>2 DEF Known
    <2>3. CASE its[k].row # Gone
      <3>1. q[k] \in 1 .. Len(stream[s]) /\ stream[s][q[k]] = its[k].row /\ q[k] > trimmed[s]
        BY <2>1, <2>3 DEF Shows
      <3>2. q[k] > delivered[s] => ~ (q[k] <= delivered[s])
        <4>1. q[k] \in Nat /\ delivered[s] \in Nat
          <5>1. Len(stream[s]) \in Nat
            BY LenProperties DEF Log
          <5> QED BY <3>1, <5>1 DEF Group
        <4> QED BY <4>1
      <3>3. ~ Free(s, its[k].row)
        BY <2>1, <3>1, <3>2 DEF Free
      <3> QED BY <3>3 DEF Known
    <2> QED BY <2>2, <2>3
  <1>3. Comes(s, its)
    BY <1>2 DEF Comes
  <1> QED BY <1>3 DEF its

LEMMA PendingCome ==
  ASSUME Log, Group, NEW s \in Streams, NEW c \in ReadersOf(s)
  PROVE  Comes(s, PendingRead(s, c))
  <1> DEFINE S == PendingOf(s, NameOf(s, c))
  <1>1. S \subseteq 1 .. Len(stream[s])
    BY PendingIs
  <1>2. \A i \in S : \E p \in pending[s] : p[1] = i
    BY DEF PendingOf
  <1> HIDE DEF S
  <1> QED BY <1>1, <1>2, ItemsCome DEF PendingRead, S

LEMMA HandCome ==
  ASSUME Log, Group, NEW s \in Streams, NEW c \in ReadersOf(s)
  PROVE  /\ Comes(s, reader[s][c].todo)
         /\ reader[s][c].todo # <<>> => Comes(s, Onward(reader[s][c]).todo)
         /\ Comes(s, <<>>)
         /\ Handling(s, c) => InHand(s, Current(s, c).row)
  <1> DEFINE v == reader[s][c]
  <1>0. GoodReader(v, stream[s], trimmed[s], delivered[s], recorded[s])
    BY DEF Group
  <1>1. v.todo \in Seq(Item)
    BY <1>0, ReaderIs DEF GoodReader
  <1>2. DOMAIN v.todo = 1 .. Len(v.todo) /\ Len(v.todo) \in Nat
    BY <1>1, LenProperties
  <1>3. \A k \in 1 .. Len(v.todo) : InHand(s, v.todo[k].row)
    BY <1>2 DEF InHand
  <1>4. ASSUME v.todo # <<>> PROVE Comes(s, Onward(v).todo) /\ InHand(s, Head(v.todo).row)
    <2>1. Onward(v).todo = Tail(v.todo)
      BY <1>0, <1>4, OnwardGood
    <2>2. /\ Len(v.todo) \in Nat \ {0} /\ Len(Tail(v.todo)) = Len(v.todo) - 1
          /\ \A i \in 1 .. Len(Tail(v.todo)) : Tail(v.todo)[i] = v.todo[i + 1]
          /\ Head(v.todo) = v.todo[1]
      BY <1>1, <1>4, HeadTailProperties, EmptySeq
    <2>3. \A i \in 1 .. Len(Tail(v.todo)) : i + 1 \in 1 .. Len(v.todo)
      BY <2>2
    <2>4. 1 \in 1 .. Len(v.todo)
      BY <2>2
    <2> QED BY <1>3, <2>1, <2>2, <2>3, <2>4 DEF Comes, Known
  <1>5. Comes(s, <<>>)
    <2>1. Len(<<>>) = 0
      BY EmptySeq
    <2> QED BY <2>1 DEF Comes
  <1>6. Handling(s, c) => InHand(s, Current(s, c).row)
    BY <1>4 DEF Handling, Current
  <1>7. Comes(s, v.todo)
    BY <1>3 DEF Comes, Known
  <1> QED BY <1>4, <1>5, <1>6, <1>7

\* What a step of a reader does to the copies.
Takes(s, c) == \E v \in Reader : SetReader(s, c, v) /\ Comes(s, v.todo)
Frees(s) ==
  /\ \A z \in Streams \ {s} : pending'[z] = pending[z] /\ delivered'[z] = delivered[z]
  /\ delivered[s] <= delivered'[s] /\ delivered'[s] \in Nat
  /\ \A p \in pending'[s] : p \in pending[s] \/ p[1] \in Undelivered(s)
Counts(s) ==
  \/ recorded' = recorded
  \/ \E r \in Rows : InHand(s, r) /\ recorded' = [recorded EXCEPT ![s][r] = Counted(@)]

LEMMA ReaderSteps ==
  ASSUME Log, Group, Group', NEW s \in Streams, NEW c \in ReadersOf(s), ReaderStep(s, c) \/ ReaderFault(s, c)
  PROVE  Takes(s, c) /\ Frees(s) /\ Counts(s) /\ UNCHANGED <<outbox, stream, trimmed>>
  <1>0. /\ \A v : SetReader(s, c, v) => v \in Reader
        /\ GoodReader(reader[s][c], stream[s], trimmed[s], delivered[s], recorded[s])
    <2>1. ASSUME NEW v, SetReader(s, c, v) PROVE v \in Reader
      <3>1. reader'[s][c] = v
        BY <2>1 DEF SetReader, Group
      <3> QED BY <3>1 DEF Group
    <2> QED BY <2>1 DEF Group
  <1>1. ASSUME UNCHANGED <<delivered, pending>> PROVE Frees(s)
    <2>1. delivered[s] \in Nat /\ delivered[s] <= delivered[s]
      BY DEF Group
    <2> QED BY <1>1, <2>1 DEF Frees
  <1>2. CASE Start(s, c)
    <2> DEFINE v == [pc |-> "starting", todo |-> PendingRead(s, c), wrote |-> FALSE]
    <2>1. SetReader(s, c, v) /\ UNCHANGED <<outbox, stream, trimmed, delivered, pending, recorded>>
      BY <1>2 DEF Start, redis
    <2>2. v.todo = PendingRead(s, c)
      OBVIOUS
    <2>3. Comes(s, v.todo)
      BY <2>2, PendingCome
    <2> HIDE DEF v
    <2> QED BY <1>0, <1>1, <2>1, <2>3 DEF Takes, Counts
  <1>3. CASE StartFails(s, c)
    <2> DEFINE x == IF s = "usage" THEN "starting" ELSE "dead"
               v == [Down EXCEPT !.pc = x]
    <2>1. SetReader(s, c, v) /\ UNCHANGED <<outbox, stream, trimmed, delivered, pending, recorded>>
      BY <1>3 DEF StartFails, redis
    <2>2. v.todo = <<>>
      BY DEF Down
    <2> HIDE DEF v
    <2> QED BY <1>0, <1>1, <2>1, <2>2, HandCome DEF Takes, Counts
  <1>4. CASE DrainPending(s, c)
    <2> DEFINE v == [pc |-> "running", todo |-> PendingRead(s, c), wrote |-> FALSE]
    <2>1. SetReader(s, c, v) /\ UNCHANGED <<outbox, stream, trimmed, delivered, pending, recorded>>
      BY <1>4 DEF DrainPending, redis
    <2>2. v.todo = PendingRead(s, c)
      OBVIOUS
    <2>3. Comes(s, v.todo)
      BY <2>2, PendingCome
    <2> HIDE DEF v
    <2> QED BY <1>0, <1>1, <2>1, <2>3 DEF Takes, Counts
  <1>5. CASE AckFails(s, c)
    <2> DEFINE x == IF reader[s][c].pc = "starting" THEN "dead" ELSE "running"
               u == [Down EXCEPT !.pc = x]
               v == IF s = "usage" THEN Onward(reader[s][c]) ELSE u
    <2>1. /\ SetReader(s, c, v) /\ UNCHANGED <<outbox, stream, trimmed, delivered, pending, recorded>>
          /\ reader[s][c].todo # <<>>
      BY <1>5 DEF AckFails, Handling, redis
    <2>2. u.todo = <<>>
      BY DEF Down
    <2> HIDE DEF u
    <2>3. Comes(s, v.todo)
      BY <2>1, <2>2, HandCome
    <2> HIDE DEF v
    <2> QED BY <1>0, <1>1, <2>1, <2>3 DEF Takes, Counts
  <1>6. CASE Restart(s, c)
    <2>1. SetReader(s, c, Down) /\ UNCHANGED <<outbox, stream, trimmed, delivered, pending, recorded>>
      BY <1>6 DEF Restart, redis
    <2>2. Down.todo = <<>>
      BY DEF Down
    <2> QED BY <1>0, <1>1, <2>1, <2>2, HandCome DEF Takes, Counts
  <1>7. CASE Write(s, c)
    <2> DEFINE v == [reader[s][c] EXCEPT !.wrote = TRUE]
    <2>1. /\ SetReader(s, c, v) /\ UNCHANGED <<outbox, stream, trimmed, delivered, pending>>
          /\ recorded' = [recorded EXCEPT ![s][Current(s, c).row] = Counted(@)]
          /\ Handling(s, c) /\ Current(s, c).row # Gone
      BY <1>7 DEF Write, redis
    <2>2. v.todo = reader[s][c].todo
      BY <1>0 DEF GoodReader, Reader
    <2> HIDE DEF v
    <2>3. Comes(s, v.todo) /\ InHand(s, Current(s, c).row) /\ Current(s, c).row \in Rows
      BY <2>1, <2>2, HandCome, CurrentIs
    <2> QED BY <1>0, <1>1, <2>1, <2>3 DEF Takes, Counts
  <1>8. ASSUME NEW written \in BOOLEAN, WriteFails(s, c, written)
        PROVE  Takes(s, c) /\ Frees(s) /\ Counts(s) /\ UNCHANGED <<outbox, stream, trimmed>>
    <2> DEFINE v == Onward(reader[s][c])
    <2>1. /\ SetReader(s, c, v) /\ UNCHANGED <<outbox, stream, trimmed, delivered>>
          /\ pending' = [pending EXCEPT ![s] = pending[s]]
          /\ recorded' = IF written THEN [recorded EXCEPT ![s][Current(s, c).row] = Counted(@)] ELSE recorded
          /\ Handling(s, c) /\ Current(s, c).row # Gone
      BY <1>8 DEF WriteFails, AfterFailure
    <2>2. pending' = pending
      BY <2>1 DEF Group
    <2>3. Comes(s, v.todo) /\ InHand(s, Current(s, c).row) /\ Current(s, c).row \in Rows
      BY <2>1, HandCome, CurrentIs DEF Handling
    <2> HIDE DEF v
    <2>4. Counts(s)
      BY <2>1, <2>3 DEF Counts
    <2> QED BY <1>0, <1>1, <2>1, <2>2, <2>3, <2>4 DEF Takes
  <1>9. CASE Ack(s, c)
    <2> DEFINE v == Onward(reader[s][c])
    <2>1. /\ SetReader(s, c, v) /\ UNCHANGED <<outbox, stream, trimmed, delivered, recorded>>
          /\ pending' = [pending EXCEPT ![s] = {p \in pending[s] : p[1] # Current(s, c).entry}]
          /\ reader[s][c].todo # <<>>
      BY <1>9 DEF Ack, Handling
    <2>2. Comes(s, v.todo)
      BY <2>1, HandCome
    <2> HIDE DEF v
    <2>3. delivered[s] \in Nat /\ delivered[s] <= delivered[s]
      BY DEF Group
    <2>4. Frees(s)
      BY <2>1, <2>3 DEF Frees, Group
    <2> QED BY <1>0, <2>1, <2>2, <2>4 DEF Takes, Counts
  <1>10. CASE Read(s, c)
    <2> DEFINE S == Undelivered(s)
               q == FirstById(S, ReadCount)
               top == q[Len(q)]
               E == {q[k] : k \in 1 .. Len(q)}
               v == [pc |-> "running", todo |-> Items(s, S), wrote |-> FALSE]
    <2>1. /\ top \in S /\ \A k \in 1 .. Len(q) : q[k] \in S
          /\ delivered' = [delivered EXCEPT ![s] = top]
          /\ pending' = [pending EXCEPT ![s] = @ \cup (E \X {NameOf(s, c)})]
      BY <1>10, ReadIs
    <2>2. SetReader(s, c, v) /\ UNCHANGED <<outbox, stream, trimmed, recorded>>
      BY <1>10 DEF Read
    <2>3. S \subseteq 1 .. Len(stream[s]) /\ \A i \in S : i > delivered[s]
      BY DEF Undelivered
    <2>4. v.todo = Items(s, S)
      OBVIOUS
    <2>5. Comes(s, v.todo)
      BY <2>3, <2>4, ItemsCome
    <2> HIDE DEF v, q
    <2>6. E \subseteq S
      BY <2>1
    <2> HIDE DEF E
    <2>7. delivered[s] \in Nat /\ delivered[s] <= top /\ top \in Nat
      <3>1. Len(stream[s]) \in Nat /\ delivered[s] \in Nat
        BY LenProperties DEF Log, Group
      <3>2. top \in 1 .. Len(stream[s]) /\ top > delivered[s]
        BY <2>1, <2>3
      <3> QED BY <3>1, <3>2
    <2> HIDE DEF top, S
    <2>8. Frees(s)
      <3>1. /\ pending'[s] = pending[s] \cup (E \X {NameOf(s, c)}) /\ delivered'[s] = top
            /\ \A z \in Streams \ {s} : pending'[z] = pending[z] /\ delivered'[z] = delivered[z]
        BY <2>1 DEF Group
      <3>2. \A p \in pending'[s] : p \in pending[s] \/ p[1] \in S
        BY <2>6, <3>1
      <3> QED BY <2>7, <3>1, <3>2 DEF Frees, S
    <2> QED BY <1>0, <2>2, <2>5, <2>8 DEF Takes, Counts
  <1> QED BY <1>2, <1>3, <1>4, <1>5, <1>6, <1>7, <1>8, <1>9, <1>10 DEF ReaderStep, ReaderFault

\* A row without a copy gets none from a reader.
LEMMA NotTaken ==
  ASSUME Inv, Inv', NEW z \in Streams, NEW c \in ReadersOf(z), Takes(z, c), Frees(z), Counts(z),
         UNCHANGED <<outbox, stream, trimmed>>,
         NEW s \in Streams, NEW r \in RowsOf(s), Lost(s, r)
  PROVE  Lost(s, r)'
  <1>0. Log /\ Group /\ Log' /\ Group' /\ r \in Rows
    BY RowsOfAre DEF Inv
  <1>1. /\ outbox[r] # "absent" /\ outbox[r] # "waiting" /\ recorded[s][r] = 0
        /\ ~ InHand(s, r) /\ Free(s, r)
    BY <1>0, CopyIs DEF Lost
  <1>2. r # Gone
    BY <1>0, ItemIs
  <1>3. ~ Known(s, r)
    BY <1>1, <1>2 DEF Known
  <1>4. PICK v \in Reader : SetReader(z, c, v) /\ Comes(z, v.todo)
    BY DEF Takes
  <1>5. /\ reader'[z][c] = v
        /\ \A y \in Streams : \A d \in ReadersOf(y) : y # z \/ d # c => reader'[y][d] = reader[y][d]
    BY <1>0, <1>4, ReaderMoves DEF Group
  <1>6. v.todo \in Seq(Item) /\ DOMAIN v.todo = 1 .. Len(v.todo)
    BY ReaderIs, LenProperties
  <1>7. ASSUME NEW d \in ReadersOf(s), NEW k \in DOMAIN reader'[s][d].todo, reader'[s][d].todo[k].row = r
        PROVE  FALSE
    <2>1. CASE s = z /\ d = c
      <3>1. k \in 1 .. Len(v.todo) /\ v.todo[k].row = r
        BY <1>5, <1>6, <1>7, <2>1
      <3>2. Known(s, r)
        BY <1>4, <2>1, <3>1 DEF Comes
      <3> QED BY <1>3, <3>2
    <2>2. CASE s # z \/ d # c
      <3>1. reader'[s][d] = reader[s][d]
        BY <1>5, <2>2
      <3> QED BY <1>1, <1>7, <3>1 DEF InHand
    <2> QED BY <2>1, <2>2
  <1>8. ~ InHand(s, r)'
    BY <1>7 DEF InHand
  <1>9. Free(s, r)'
    <2> SUFFICES ASSUME NEW i \in 1 .. Len(stream[s]), i > trimmed[s], stream[s][i] = r
                 PROVE  i <= delivered'[s] /\ \A p \in pending'[s] : p[1] # i
      BY DEF Free
    <2>1. i <= delivered[s] /\ \A p \in pending[s] : p[1] # i
      BY <1>1 DEF Free
    <2>2. i \in Nat /\ delivered[s] \in Nat
      <3>1. Len(stream[s]) \in Nat
        BY <1>0, LenProperties DEF Log
      <3> QED BY <1>0, <3>1 DEF Group
    <2>3. CASE s # z
      <3>1. pending'[s] = pending[s] /\ delivered'[s] = delivered[s]
        BY <2>3 DEF Frees
      <3> QED BY <2>1, <3>1
    <2>4. CASE s = z
      <3>1. /\ delivered[s] <= delivered'[s] /\ delivered'[s] \in Nat
            /\ \A p \in pending'[s] : p \in pending[s] \/ p[1] \in Undelivered(s)
        BY <2>4 DEF Frees
      <3>2. i \notin Undelivered(s)
        BY <2>1, <2>2 DEF Undelivered
      <3>3. i <= delivered'[s]
        BY <2>1, <2>2, <3>1
      <3> QED BY <2>1, <3>1, <3>2, <3>3
    <2> QED BY <2>3, <2>4
  <1>10. recorded'[s][r] = 0
    <2>1. CASE recorded' = recorded
      BY <1>1, <2>1
    <2>2. ASSUME NEW x \in Rows, InHand(z, x), recorded' = [recorded EXCEPT ![z][x] = Counted(@)]
          PROVE  recorded'[s][r] = 0
      <3>1. s # z \/ r # x
        BY <1>1, <2>2
      <3>2. recorded'[s][r] = recorded[s][r]
        <4>1. CountsRow(z, x)
          BY <2>2 DEF CountsRow
        <4>2. NowCounted(z, x)
          BY <1>0, <4>1, CountedIs
        <4> QED BY <1>0, <1>1, <3>1, <4>2 DEF NowCounted
      <3> QED BY <1>1, <3>2
    <2> QED BY <2>1, <2>2 DEF Counts
  <1>11. ~ HasCopy(s, r)'
    <2>1. HasCopy(s, r)' <=> outbox'[r] = "waiting" \/ InHand(s, r)' \/ ~ Free(s, r)'
      <3>1. /\ trimmed'[s] \in Nat /\ Len(stream'[s]) \in Nat /\ delivered'[s] \in Nat
        BY <1>0, LenProperties DEF Log, Group
      <3>2. \A i \in trimmed'[s] + 1 .. Len(stream'[s]) : i \in 1 .. Len(stream'[s]) /\ i > trimmed'[s] /\ i \in Nat
        BY <3>1
      <3>3. \A i \in 1 .. Len(stream'[s]) : i > trimmed'[s] => i \in trimmed'[s] + 1 .. Len(stream'[s])
        BY <3>1
      <3>4. \A i \in 1 .. Len(stream'[s]) : i <= delivered'[s] <=> ~ (i > delivered'[s])
        BY <3>1
      <3>5. Free(s, r)' <=> ~ \E i \in trimmed'[s] + 1 .. Len(stream'[s]) :
                               /\ stream'[s][i] = r
                               /\ i > delivered'[s] \/ \E p \in pending'[s] : p[1] = i
        BY <3>2, <3>3, <3>4 DEF Free
      <3> QED BY <3>5 DEF HasCopy
    <2> QED BY <1>1, <1>8, <1>9, <2>1
  <1> QED BY <1>1, <1>10, <1>11 DEF Lost

\* Nor from the outbox and the relays.
LEMMA NotSent ==
  ASSUME Inv, Inv', Carriage, \A z \in Streams : Grows(z),
         NEW s \in Streams, NEW r \in RowsOf(s), Lost(s, r),
         outbox'[r] # "absent" /\ outbox'[r] # "waiting"
  PROVE  Lost(s, r)'
  <1>0. Log /\ Group /\ Log' /\ Group' /\ r \in Rows /\ Grows(s)
    BY RowsOfAre DEF Inv
  <1>1. outbox[r] # "waiting" /\ recorded[s][r] = 0 /\ ~ InHand(s, r) /\ Free(s, r)
    BY <1>0, CopyIs DEF Lost
  <1>2. UNCHANGED <<delivered, pending, reader, host, recorded>>
    BY DEF Carriage
  <1>3. ASSUME NEW i \in 1 .. Len(stream'[s]), stream'[s][i] = r PROVE i \in 1 .. Len(stream[s])
    <2>1. CASE stream' = stream
      BY <2>1
    <2>2. ASSUME NEW z \in Streams, NEW h \in RowsOf(z), outbox[h] = "waiting", Added(z, h), outbox' = outbox
          PROVE  i \in 1 .. Len(stream[s])
      <3>1. Gets(z, h)
        BY <1>0, <2>2, AddedIs
      <3>2. CASE s = z
        <4>1. Len(stream'[s]) = Len(stream[s]) + 1 /\ stream'[s][Len(stream[s]) + 1] = h /\ h # r
          BY <1>1, <2>2, <3>1, <3>2 DEF Gets
        <4>2. Len(stream[s]) \in Nat /\ i # Len(stream[s]) + 1
          BY <1>0, <1>3, <4>1 DEF Grows
        <4> QED BY <4>1, <4>2
      <3>3. CASE s # z
        BY <3>1, <3>3 DEF Gets
      <3> QED BY <3>2, <3>3
    <2> QED BY <2>1, <2>2 DEF Carriage
  <1>4. Free(s, r)'
    <2> SUFFICES ASSUME NEW i \in 1 .. Len(stream'[s]), i > trimmed'[s], stream'[s][i] = r
                 PROVE  i <= delivered[s] /\ \A p \in pending[s] : p[1] # i
      BY <1>2 DEF Free
    <2>1. i \in 1 .. Len(stream[s])
      BY <1>3
    <2>2. stream[s][i] = r /\ i > trimmed[s]
      BY <1>0, <2>1 DEF Grows
    <2> QED BY <1>1, <2>1, <2>2 DEF Free
  <1>5. ~ InHand(s, r)'
    BY <1>1, <1>2 DEF InHand
  <1>6. ~ HasCopy(s, r)'
    <2>1. trimmed'[s] \in Nat /\ Len(stream'[s]) \in Nat /\ delivered'[s] \in Nat
      BY <1>0, LenProperties DEF Log, Group
    <2> SUFFICES ASSUME NEW i \in trimmed'[s] + 1 .. Len(stream'[s]), stream'[s][i] = r,
                        i > delivered'[s] \/ \E p \in pending'[s] : p[1] = i
                 PROVE  FALSE
      BY <1>5 DEF HasCopy
    <2>2. i \in 1 .. Len(stream'[s]) /\ i > trimmed'[s]
      BY <2>1
    <2>3. i <= delivered'[s] /\ \A p \in pending'[s] : p[1] # i
      BY <1>4, <2>2 DEF Free
    <2> QED BY <2>1, <2>2, <2>3
  <1> QED BY <1>1, <1>2, <1>6 DEF Lost

\* A published row stays published, or is purged.
LEMMA Settled ==
  ASSUME Batches, [Next]_vars, NEW r \in Rows, outbox[r] \in {"published", "purged"}
  PROVE  outbox'[r] \in {"published", "purged"}
  <1>1. ASSUME NEW x \in Rows, Emit(x) PROVE outbox'[r] \in {"published", "purged"}
    BY <1>1 DEF Emit, Batches
  <1>2. ASSUME NEW x \in Rows, Purge(x) PROVE outbox'[r] \in {"published", "purged"}
    BY <1>2 DEF Purge, Batches
  <1>3. ASSUME NEW w \in Relays, Commit(w) PROVE outbox'[r] \in {"published", "purged"}
    BY <1>3 DEF Commit
  <1>4. ASSUME NEW w \in Relays, DrainBegin(w) \/ SendUsage(w) \/ SendCampaign(w) \/ Abort(w)
        PROVE  outbox' = outbox
    BY <1>4 DEF DrainBegin, SendUsage, SendCampaign, Abort, AfterAbort
  <1>5. ASSUME NEW s \in Streams, NEW c \in ReadersOf(s), ReaderStep(s, c) PROVE outbox' = outbox
    BY <1>5 DEF ReaderStep, Start, Read, DrainPending, Write, Ack
  <1>6. ASSUME NEW s \in Streams, NEW c \in ReadersOf(s), ReaderFault(s, c) PROVE outbox' = outbox
    BY <1>6 DEF ReaderFault, StartFails, AckFails, Restart, WriteFails
  <1>7. CASE UNCHANGED vars
    BY <1>7 DEF vars
  <1> QED BY <1>1, <1>2, <1>3, <1>4, <1>5, <1>6, <1>7 DEF Next, RelayStep

LEMMA LostStays ==
  ASSUME Inv, Inv', [Next]_vars, NEW s \in Streams, NEW r \in RowsOf(s), Lost(s, r)
  PROVE  Lost(s, r)'
  <1>0. Batches /\ Log /\ Group /\ Group' /\ r \in Rows
    BY RowsOfAre DEF Inv
  <1>1. outbox[r] \in {"published", "purged"}
    BY <1>0 DEF Lost, HasCopy, Batches, Status
  <1>2. outbox'[r] # "absent" /\ outbox'[r] # "waiting"
    BY <1>0, <1>1, Settled
  <1>3. \A z \in Streams : Grows(z)
    BY <1>0, LogStep
  <1>4. CASE Carriage
    BY <1>2, <1>3, <1>4, NotSent
  <1>5. ASSUME NEW z \in Streams, NEW c \in ReadersOf(z), ReaderStep(z, c) \/ ReaderFault(z, c)
        PROVE  Lost(s, r)'
    <2>1. Takes(z, c) /\ Frees(z) /\ Counts(z) /\ UNCHANGED <<outbox, stream, trimmed>>
      BY <1>0, <1>5, ReaderSteps
    <2> QED BY <2>1, NotTaken
  <1>6. CASE UNCHANGED vars
    <2>1. Carriage
      BY <1>6 DEF vars, redis, Carriage
    <2> QED BY <1>4, <2>1
  <1> QED BY <1>0, <1>4, <1>5, <1>6, CarriageSteps DEF Next

\* The abstract state.
Emitted == {r \in Rows : outbox[r] # "absent"}
Tallied == [e \in Copies |-> recorded[e[1]][e[2]]]
LostCopies == {e \in Copies : Lost(e[1], e[2])}

LEMMA CopiesAre ==
  /\ Delivery!Copies = Copies
  /\ \A e \in Copies : e[1] \in Streams /\ e[2] \in Rows /\ e[2] \in RowsOf(e[1]) /\ e = <<e[1], e[2]>>
  /\ \A s \in Streams : \A r \in RowsOf(s) :
       <<s, r>> \in Copies /\ <<s, r>>[1] = s /\ <<s, r>>[2] = r
  <1>1. \A e \in Copies : e[1] \in Streams /\ e[2] \in Rows /\ e[2] \in RowsOf(e[1]) /\ e = <<e[1], e[2]>>
    BY DEF Copies
  <1>2. \A s \in Streams : \A r \in RowsOf(s) :
          <<s, r>> \in Copies /\ <<s, r>>[1] = s /\ <<s, r>>[2] = r
    BY RowsOfAre DEF Copies
  <1>3. ASSUME NEW e \in Copies PROVE e \in ({"usage"} \X Rows) \cup ({"campaign"} \X Tagged)
    BY <1>1 DEF Streams, RowsOf
  <1>4. ASSUME NEW r \in Rows PROVE <<"usage", r>> \in Copies
    BY DEF Copies, Streams, RowsOf
  <1>5. ASSUME NEW r \in Tagged PROVE <<"campaign", r>> \in Copies
    BY RowIds DEF Copies, Streams, RowsOf
  <1>6. Copies = ({"usage"} \X Rows) \cup ({"campaign"} \X Tagged)
    BY <1>3, <1>4, <1>5
  <1> QED BY <1>1, <1>2, <1>6 DEF Delivery!Copies

\* The job's end is the abstract Emit.
LEMMA EmitMaps ==
  ASSUME Inv, Inv', [Next]_vars, NEW r \in Rows, Emit(r)
  PROVE  r \notin Emitted /\ Emitted' = Emitted \cup {r} /\ Tallied' = Tallied /\ LostCopies' = LostCopies
  <1>1. /\ outbox[r] = "absent" /\ outbox' = [outbox EXCEPT ![r] = "waiting"]
        /\ UNCHANGED <<stream, trimmed, delivered, pending, reader, recorded>>
    BY DEF Emit, redis
  <1>2. outbox'[r] = "waiting" /\ \A x \in Rows : x # r => outbox'[x] = outbox[x]
    BY <1>1 DEF Inv, Batches
  <1>3. ASSUME NEW e \in Copies PROVE Lost(e[1], e[2])' <=> Lost(e[1], e[2])
    <2>1. e[1] \in Streams /\ e[2] \in RowsOf(e[1]) /\ e[2] \in Rows
      BY CopiesAre
    <2>2. CASE e[2] = r
      <3>1. ~ Lost(e[1], e[2])
        BY <1>1, <2>2 DEF Lost
      <3>2. HasCopy(e[1], e[2])'
        BY <1>2, <2>2 DEF HasCopy
      <3> QED BY <3>1, <3>2 DEF Lost
    <2>3. CASE e[2] # r
      <3>1. outbox'[e[2]] = outbox[e[2]]
        BY <1>2, <2>1, <2>3
      <3> QED BY <1>1, <3>1 DEF Lost, HasCopy, InHand
    <2> QED BY <2>2, <2>3
  <1>4. LostCopies' = LostCopies
    BY <1>3 DEF LostCopies
  <1>5. Tallied' = Tallied
    BY <1>1 DEF Tallied
  <1>6. r \notin Emitted /\ Emitted' = Emitted \cup {r}
    BY <1>1, <1>2 DEF Emitted
  <1> QED BY <1>4, <1>5, <1>6

\* A write of a row not yet counted is the abstract Count.
FirstWrite(s, c) ==
  /\ Write(s, c) \/ WriteFails(s, c, TRUE)
  /\ recorded[s][Current(s, c).row] = 0

LEMMA CountMaps ==
  ASSUME Inv, Inv', [Next]_vars, NEW s \in Streams, NEW c \in ReadersOf(s), FirstWrite(s, c)
  PROVE  LET r == Current(s, c).row
             e == <<s, r>>
         IN  /\ e \in Copies /\ r \in Emitted /\ Tallied[e] = 0 /\ e \notin LostCopies
             /\ Emitted' = Emitted /\ Tallied' = [Tallied EXCEPT ![e] = 1] /\ LostCopies' = LostCopies
  <1> DEFINE cur == Current(s, c)
             r == cur.row
             e == <<s, r>>
             v == reader[s][c]
  <1>0. Batches /\ Log /\ Group /\ Log' /\ Group'
    BY DEF Inv
  <1>1. /\ Handling(s, c) /\ r # Gone /\ recorded[s][r] = 0
        /\ recorded' = [recorded EXCEPT ![s][r] = Counted(@)]
        /\ UNCHANGED <<outbox, stream, trimmed, delivered>>
        /\ pending' = [pending EXCEPT ![s] = pending[s]]
    <2>1. CASE Write(s, c)
      <3>1. pending' = pending /\ pending = [pending EXCEPT ![s] = pending[s]]
        BY <1>0, <2>1 DEF Write, redis, Group
      <3> QED BY <2>1, <3>1 DEF Write, redis, FirstWrite
    <2>2. CASE WriteFails(s, c, TRUE)
      BY <2>2 DEF WriteFails, AfterFailure, FirstWrite
    <2> QED BY <2>1, <2>2 DEF FirstWrite
  <1>2. pending' = pending
    BY <1>0, <1>1 DEF Group
  <1>3. /\ GoodReader(v, stream[s], trimmed[s], delivered[s], recorded[s])
        /\ v.todo # <<>> /\ v.todo \in Seq(Item) /\ cur = Head(v.todo)
        /\ GoodItem(cur, stream[s], trimmed[s], delivered[s])
        /\ cur.entry \in 1 .. delivered[s] /\ r \in Rows
    BY <1>0, <1>1, CurrentIs
  <1>4. r \in RowsOf(s) /\ outbox[r] # "absent"
    <2>1. /\ r = stream[s][cur.entry] /\ delivered[s] \in Nat /\ Len(stream[s]) \in Nat
          /\ delivered[s] <= Len(stream[s]) /\ stream[s] \in Seq(RowsOf(s))
      BY <1>0, <1>1, <1>3, LenProperties DEF GoodItem, Group, Log
    <2>2. cur.entry \in 1 .. Len(stream[s])
      BY <1>3, <2>1
    <2>3. stream[s][cur.entry] \in RowsOf(s)
      BY <2>1, <2>2, ElementOfSeq
    <2> QED BY <1>0, <2>1, <2>2, <2>3 DEF Log
  <1>5. e \in Copies /\ e[1] = s /\ e[2] = r
    BY <1>4, CopiesAre
  <1>6. HasCopy(s, r)
    BY <1>0, <1>1, HandCome DEF HasCopy
  <1>7. /\ recorded'[s][r] = 1
        /\ \A z \in Streams, x \in Rows : z # s \/ x # r => recorded'[z][x] = recorded[z][x]
    <2>1. r \in Rows /\ CountsRow(s, r)
      BY <1>1, <1>3 DEF CountsRow
    <2> HIDE DEF r
    <2>2. NowCounted(s, r)
      BY <1>0, <2>1, CountedIs
    <2> QED BY <2>2 DEF NowCounted
  <1>8. r \in Emitted /\ Tallied[e] = 0 /\ e \notin LostCopies
    BY <1>1, <1>3, <1>4, <1>5, <1>6 DEF Emitted, Tallied, LostCopies, Lost
  <1>9. Emitted' = Emitted
    BY <1>1 DEF Emitted
  <1>10. Tallied' = [Tallied EXCEPT ![e] = 1]
    <2>1. \A d \in Copies : recorded'[d[1]][d[2]] = IF d = e THEN 1 ELSE recorded[d[1]][d[2]]
      <3> TAKE d \in Copies
      <3>1. d[1] \in Streams /\ d[2] \in Rows /\ d = <<d[1], d[2]>>
        BY CopiesAre
      <3>2. CASE d = e
        BY <1>5, <1>7, <3>2
      <3>3. CASE d # e
        <4>1. d[1] # s \/ d[2] # r
          BY <3>1, <3>3
        <4> QED BY <1>7, <3>1, <3>3, <4>1
      <3> QED BY <3>2, <3>3
    <2> HIDE DEF e
    <2> QED BY <2>1 DEF Tallied
  <1>11. ASSUME NEW d \in Copies, Lost(d[1], d[2])' PROVE Lost(d[1], d[2])
    <2> DEFINE z == d[1]
               x == d[2]
    <2>1. z \in Streams /\ x \in Rows
      BY CopiesAre
    <2>2. outbox[x] # "absent" /\ recorded'[z][x] = 0 /\ ~ HasCopy(z, x)'
      BY <1>1, <1>11 DEF Lost
    <2>3. z # s \/ x # r
      BY <1>7, <2>2
    <2>4. recorded[z][x] = 0
      BY <1>7, <2>1, <2>2, <2>3
    <2> HIDE DEF z, x
    <2>5. ASSUME NEW d2 \in ReadersOf(z), NEW k \in DOMAIN reader[z][d2].todo, reader[z][d2].todo[k].row = x
          PROVE  \E m \in DOMAIN reader'[z][d2].todo : reader'[z][d2].todo[m].row = x
      <3>1. ASSUME NEW u, SetReader(s, c, u)
            PROVE  reader'[s][c] = u /\ (z # s \/ d2 # c => reader'[z][d2] = reader[z][d2])
        <4>1. reader' = [reader EXCEPT ![s][c] = u]
          BY <3>1 DEF SetReader
        <4>2. DOMAIN reader = Streams /\ reader[s] \in [ReadersOf(s) -> Reader]
          BY <1>0 DEF Group
        <4> QED BY <2>1, <4>1, <4>2
      <3>2. CASE z = s /\ d2 = c /\ Write(s, c)
        <4> DEFINE u == [v EXCEPT !.wrote = TRUE]
        <4>1. SetReader(s, c, u)
          BY <3>2 DEF Write
        <4>2. u.todo = v.todo
          BY <1>3 DEF GoodReader, Reader
        <4> HIDE DEF u
        <4> QED BY <2>5, <3>1, <3>2, <4>1, <4>2
      <3>3. CASE z = s /\ d2 = c /\ WriteFails(s, c, TRUE)
        <4>1. SetReader(s, c, Onward(v))
          BY <3>3 DEF WriteFails
        <4>2. Onward(v).todo = Tail(v.todo)
          BY <1>3, OnwardGood
        <4>3. /\ Len(v.todo) \in Nat \ {0} /\ Len(Tail(v.todo)) = Len(v.todo) - 1
              /\ \A i \in 1 .. Len(Tail(v.todo)) : Tail(v.todo)[i] = v.todo[i + 1]
              /\ Head(v.todo) = v.todo[1] /\ Tail(v.todo) \in Seq(Item)
          BY <1>3, HeadTailProperties, EmptySeq
        <4>4. DOMAIN v.todo = 1 .. Len(v.todo) /\ DOMAIN Tail(v.todo) = 1 .. Len(Tail(v.todo))
          BY <1>3, <4>3, LenProperties
        <4>5. k \in 1 .. Len(v.todo) /\ v.todo[k].row = x
          BY <2>5, <3>3, <4>4
        <4>6. k # 1
          BY <1>3, <2>3, <3>3, <4>3, <4>5
        <4>7. k - 1 \in 1 .. Len(Tail(v.todo)) /\ (k - 1) + 1 = k
          BY <4>3, <4>5, <4>6
        <4>8. Tail(v.todo)[k - 1].row = x
          BY <4>3, <4>5, <4>7
        <4>9. reader'[z][d2].todo = Tail(v.todo)
          BY <3>1, <3>3, <4>1, <4>2
        <4> QED BY <4>4, <4>7, <4>8, <4>9
      <3>4. CASE z # s \/ d2 # c
        <4>1. \E u : SetReader(s, c, u)
          BY DEF FirstWrite, Write, WriteFails
        <4> QED BY <2>5, <3>1, <3>4, <4>1
      <3> QED BY <3>2, <3>3, <3>4 DEF FirstWrite
    <2>6. ~ InHand(z, x)
      <3>1. ~ InHand(z, x)'
        BY <2>2 DEF HasCopy
      <3> QED BY <2>5, <3>1 DEF InHand
    <2>7. ~ HasCopy(z, x)
      BY <1>1, <1>2, <2>2, <2>6 DEF HasCopy
    <2>8. Lost(z, x)
      BY <2>2, <2>4, <2>7 DEF Lost
    <2> QED BY <2>8 DEF z, x
  <1>12. LostCopies' = LostCopies
    <2>1. \A d \in Copies : Lost(d[1], d[2]) => Lost(d[1], d[2])'
      BY CopiesAre, LostStays
    <2> QED BY <1>11, <2>1 DEF LostCopies
  <1> QED BY <1>5, <1>8, <1>9, <1>10, <1>12

\* Every other step loses copies, or is none.
LEMMA LoseMaps ==
  ASSUME Inv, Inv', [Next]_vars, Emitted' = Emitted, Tallied' = Tallied, LostCopies' # LostCopies
  PROVE  LET E == LostCopies' \ LostCopies IN
         /\ E # {} /\ E \in SUBSET Copies /\ LostCopies' = LostCopies \cup E
         /\ \A e \in E : e[2] \in Emitted /\ Tallied[e] = 0 /\ e \notin LostCopies
  <1>1. LostCopies \subseteq LostCopies'
    BY CopiesAre, LostStays DEF LostCopies
  <1>2. LostCopies' \subseteq Copies
    BY DEF LostCopies, Copies, RowsOf
  <1>3. ASSUME NEW e \in LostCopies' PROVE e[2] \in Emitted /\ Tallied[e] = 0
    <2>1. e \in Copies /\ outbox'[e[2]] # "absent" /\ recorded'[e[1]][e[2]] = 0
      BY <1>2, <1>3 DEF LostCopies, Lost
    <2>2. e[2] \in Rows
      BY <2>1, CopiesAre
    <2>3. e[2] \in Emitted'
      BY <2>1, <2>2 DEF Emitted
    <2>4. Tallied'[e] = 0
      BY <2>1 DEF Tallied
    <2> QED BY <2>3, <2>4
  <1> QED BY <1>1, <1>2, <1>3

LEMMA StepMaps == Inv /\ Inv' /\ [Next]_vars => [Delivery!Next]_(Delivery!vars)
  <1> SUFFICES ASSUME Inv, Inv', [Next]_vars PROVE [Delivery!Next]_(Delivery!vars)
    OBVIOUS
  <1> USE DEF Emitted, Tallied, LostCopies
  <1>0. Batches /\ Log /\ Group /\ Delivery!Copies = Copies
    BY CopiesAre DEF Inv
  <1>1. ASSUME NEW r \in Rows, Emit(r) PROVE Delivery!Next
    <2>1. r \notin Emitted /\ Emitted' = Emitted \cup {r} /\ Tallied' = Tallied /\ LostCopies' = LostCopies
      BY <1>1, EmitMaps
    <2>2. Delivery!Emit(r)
      BY <2>1 DEF Delivery!Emit
    <2> QED BY <2>2 DEF Delivery!Next
  <1>2. ASSUME NEW s \in Streams, NEW c \in ReadersOf(s), FirstWrite(s, c) PROVE Delivery!Next
    <2>0. PICK e : e = <<s, Current(s, c).row>>
      OBVIOUS
    <2>1. /\ e \in Copies /\ e[2] \in Emitted /\ Tallied[e] = 0 /\ e \notin LostCopies
          /\ Emitted' = Emitted /\ Tallied' = [Tallied EXCEPT ![e] = 1] /\ LostCopies' = LostCopies
      <3> HIDE DEF Emitted, Tallied, LostCopies
      <3> QED BY <1>2, <2>0, CountMaps
    <2>2. Delivery!Count(e) /\ e \in Delivery!Copies
      BY <1>0, <2>1 DEF Delivery!Count, Delivery!UnderWay
    <2> QED BY <2>2 DEF Delivery!Next
  <1>3. ASSUME Emitted' = Emitted, Tallied' = Tallied PROVE [Delivery!Next]_(Delivery!vars)
    <2>1. CASE LostCopies' = LostCopies
      BY <1>3, <2>1 DEF Delivery!vars
    <2>2. CASE LostCopies' # LostCopies
      <3> DEFINE E == LostCopies' \ LostCopies
      <3>1. /\ E # {} /\ E \in SUBSET Copies /\ LostCopies' = LostCopies \cup E
            /\ \A e \in E : e[2] \in Emitted /\ Tallied[e] = 0 /\ e \notin LostCopies
        BY <1>3, <2>2, LoseMaps
      <3> HIDE DEF E
      <3>2. Delivery!Lose(E)
        BY <1>0, <1>3, <3>1 DEF Delivery!Lose, Delivery!UnderWay
      <3> QED BY <1>0, <3>1, <3>2 DEF Delivery!Next
    <2> QED BY <2>1, <2>2
  <1>4. recorded' = recorded => Tallied' = Tallied
    OBVIOUS
  <1>5. outbox' = outbox => Emitted' = Emitted
    OBVIOUS
  <1> HIDE DEF Emitted, Tallied, LostCopies
  <1>6. ASSUME NEW r \in Rows, Purge(r) PROVE Emitted' = Emitted /\ recorded' = recorded
    <2>1. outbox[r] = "published" /\ outbox' = [outbox EXCEPT ![r] = "purged"] /\ recorded' = recorded
      BY <1>6 DEF Purge
    <2>2. \A x \in Rows : outbox'[x] # "absent" <=> outbox[x] # "absent"
      BY <1>0, <2>1 DEF Batches
    <2> QED BY <2>1, <2>2 DEF Emitted
  <1>7. ASSUME NEW w \in Relays, Commit(w) PROVE Emitted' = Emitted /\ recorded' = recorded
    <2>1. /\ outbox' = [r \in Rows |-> IF r \in relay[w].sent THEN "published" ELSE outbox[r]]
          /\ recorded' = recorded
      BY <1>7 DEF Commit
    <2>2. \A x \in relay[w].sent : outbox[x] = "waiting"
      BY <1>0 DEF Batches, Locks
    <2>3. \A x \in Rows : outbox'[x] # "absent" <=> outbox[x] # "absent"
      BY <2>1, <2>2
    <2> QED BY <2>1, <2>3 DEF Emitted
  <1>8. ASSUME NEW w \in Relays, DrainBegin(w) \/ SendUsage(w) \/ SendCampaign(w) \/ Abort(w)
        PROVE  outbox' = outbox /\ recorded' = recorded
    BY <1>8 DEF DrainBegin, SendUsage, SendCampaign, Abort, AfterAbort
  <1>9. ASSUME NEW s \in Streams, NEW c \in ReadersOf(s),
               Start(s, c) \/ Read(s, c) \/ DrainPending(s, c) \/ Ack(s, c)
               \/ StartFails(s, c) \/ AckFails(s, c) \/ Restart(s, c)
        PROVE  outbox' = outbox /\ recorded' = recorded
    BY <1>9 DEF Start, Read, DrainPending, Ack, StartFails, AckFails, Restart
  <1>10. ASSUME NEW s \in Streams, NEW c \in ReadersOf(s), NEW written \in BOOLEAN,
                Write(s, c) \/ WriteFails(s, c, written)
         PROVE  FirstWrite(s, c) \/ (outbox' = outbox /\ recorded' = recorded)
    <2> DEFINE r == Current(s, c).row
    <2>1. outbox' = outbox /\ Handling(s, c) /\ r # Gone
      BY <1>10 DEF Write, WriteFails
    <2>2. r \in Rows
      BY <1>0, <2>1, CurrentIs
    <2>3. recorded[s][r] \in {0, 1} /\ recorded \in [Streams -> [Rows -> {0, 1}]]
      BY <1>0, <2>2 DEF Group
    <2>4. ASSUME recorded' = [recorded EXCEPT ![s][r] = Counted(@)], recorded[s][r] = 1
          PROVE  recorded' = recorded
      <3>1. /\ recorded' \in [Streams -> [Rows -> {0, 1}]] /\ recorded'[s][r] = 1
            /\ \A z \in Streams, x \in Rows : z # s \/ x # r => recorded'[z][x] = recorded[z][x]
        <4>1. CountsRow(s, r)
          BY <2>4 DEF CountsRow
        <4> HIDE DEF r
        <4>2. NowCounted(s, r)
          BY <1>0, <2>2, <4>1, CountedIs
        <4> QED BY <4>2 DEF NowCounted
      <3>2. \A z \in Streams, x \in Rows : recorded'[z][x] = recorded[z][x]
        BY <2>4, <3>1
      <3>3. \A z \in Streams : recorded'[z] = recorded[z]
        BY <2>3, <3>1, <3>2
      <3> QED BY <2>3, <3>1, <3>3
    <2>5. CASE Write(s, c)
      BY <2>1, <2>3, <2>4, <2>5 DEF Write, FirstWrite
    <2>6. CASE WriteFails(s, c, TRUE)
      BY <2>1, <2>3, <2>4, <2>6 DEF WriteFails, FirstWrite
    <2>7. CASE WriteFails(s, c, FALSE)
      BY <2>1, <2>7 DEF WriteFails
    <2> QED BY <1>10, <2>5, <2>6, <2>7
  <1>11. CASE UNCHANGED vars
    <2>1. outbox' = outbox /\ recorded' = recorded
      BY <1>11 DEF vars
    <2> QED BY <1>3, <1>4, <1>5, <2>1
  <1>12. ASSUME NEW s \in Streams, NEW c \in ReadersOf(s), ReaderStep(s, c) \/ ReaderFault(s, c)
         PROVE  [Delivery!Next]_(Delivery!vars)
    <2>1. \/ Start(s, c) \/ Read(s, c) \/ DrainPending(s, c) \/ Ack(s, c)
             \/ StartFails(s, c) \/ AckFails(s, c) \/ Restart(s, c)
          \/ \E written \in BOOLEAN : Write(s, c) \/ WriteFails(s, c, written)
      BY <1>12 DEF ReaderStep, ReaderFault
    <2> QED BY <1>2, <1>3, <1>4, <1>5, <1>9, <1>10, <2>1
  <1>13. ASSUME NEW w \in Relays, RelayStep(w) \/ Abort(w) PROVE [Delivery!Next]_(Delivery!vars)
    BY <1>3, <1>4, <1>5, <1>7, <1>8, <1>13 DEF RelayStep
  <1> QED BY <1>1, <1>3, <1>4, <1>6, <1>11, <1>12, <1>13 DEF Next

LEMMA InitMaps == Init => Delivery!Init
  <1> SUFFICES ASSUME Init PROVE Delivery!Init
    OBVIOUS
  <1>1. Emitted = {}
    BY DEF Init, Emitted
  <1>2. Tallied = [e \in Copies |-> 0]
    <2>1. \A e \in Copies : recorded[e[1]][e[2]] = 0
      BY CopiesAre DEF Init
    <2> QED BY <2>1 DEF Tallied
  <1>3. LostCopies = {}
    <2>1. \A e \in Copies : outbox[e[2]] = "absent"
      BY CopiesAre DEF Init
    <2> QED BY <2>1 DEF LostCopies, Lost
  <1> QED BY <1>1, <1>2, <1>3, CopiesAre DEF Delivery!Init, Emitted, Tallied, LostCopies

\* The outbox, its relays, the streams and the readers together deliver as
\* UsageDelivery promises: each service counts a row at most once, only after
\* its job has ended, and a row that was lost never comes back.
THEOREM ImplementsDelivery == Spec => DeliversOnce
  BY InitMaps, StepMaps, Invariant, PTL DEF Spec, DeliversOnce, Delivery!Spec

\* What the abstract specification promises holds of the system itself: neither
\* an abort nor a redelivery counts a row twice in a service.
THEOREM RowsCountedOnce == Spec => []Delivery!CountedOnce
  BY ImplementsDelivery, Delivery!NothingCountedTwice, PTL DEF DeliversOnce
=============================================================================
