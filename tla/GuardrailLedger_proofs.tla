----------------------- MODULE GuardrailLedger_proofs -----------------------
(***************************************************************************)
(* Proofs about the sums of module SpendGuardrail: the counters the code   *)
(* keeps beside its rows equal the sums over those rows.  reserved_usd is  *)
(* the open holds, the spent_usd columns are the charges of the current    *)
(* window, free_tier and credits_balance are paid for by the platform      *)
(* charges, and the holds admitted under a key fit the key's cap.          *)
(*                                                                         *)
(* The sums are folds over finite sets.  The first part proves of them     *)
(* what the rest cites: nothing adds up to 0 (TotalEmpty), a total splits  *)
(* off any one figure (TotalSplit), and it depends on nothing but the      *)
(* figures (TotalSame).  That only finitely many rows are in use is no     *)
(* assumption: it is part of the invariants.                               *)
(***************************************************************************)
EXTENDS SpendGuardrail_proofs, FiniteSetTheorems, WellFoundedInduction

-----------------------------------------------------------------------------
(* What a Total is.  The fold behind it is a function h on the subsets of  *)
(* its set, chosen so that h[T] adds to the figure of the first member of  *)
(* T what h gives for the rest.  The lemmas show that such an h exists,    *)
(* and that it gives the same for every order of the members.              *)

First(T) == CHOOSE x \in T : TRUE
Fold(f, h, T) == IF T = {} THEN 0 ELSE f[First(T)] + h[T \ {First(T)}]
Unfolds(f, h, S) == h = [T \in SUBSET S |-> Fold(f, h, T)]

\* A Total is the fold's value at the whole set.
LEMMA TotalIs ==
  ASSUME NEW f, NEW S
  PROVE  Total(f, S) = (CHOOSE h : Unfolds(f, h, S))[S]
  BY DEF Total, MapThenSumSet, MapThenFoldSet, Unfolds, Fold, First

\* A set of natural numbers has a least member.
LEMMA Least == ASSUME NEW T, T \subseteq Nat, T # {} PROVE \E x \in T : \A y \in T : x <= y
  <1>1. PICK x \in T : \A y \in T : ~ (<<y, x>> \in OpToRel(<, Nat))
    BY WFMin, NatLessThanWellFounded
  <1>2. ASSUME NEW y \in T PROVE x <= y
    <2>1. ~ (<<y, x>> \in OpToRel(<, Nat))
      BY <1>1
    <2> QED BY <2>1 DEF OpToRel
  <1> QED BY <1>2

\* Induction over the subsets of a finite set, P being the set of those
\* for which the fact at hand holds.
LEMMA BySubsets ==
  ASSUME NEW S, IsFiniteSet(S), NEW P,
         \A T \in SUBSET S : (\A U \in SUBSET T : U # T => U \in P) => T \in P
  PROVE  SUBSET S \subseteq P
  <1> DEFINE bad == {T \in SUBSET S : T \notin P}
             sizes == {Cardinality(T) : T \in bad}
  <1> SUFFICES ASSUME bad # {} PROVE FALSE
    OBVIOUS
  <1>1. \A T \in SUBSET S : IsFiniteSet(T) /\ Cardinality(T) \in Nat
    BY FS_Subset, FS_CardinalityType
  <1>2. sizes \subseteq Nat /\ sizes # {}
    BY <1>1
  <1>3. \A T \in bad : Cardinality(T) \in sizes
    OBVIOUS
  <1>4. \A n \in sizes : \E T \in bad : n = Cardinality(T)
    OBVIOUS
  <1> HIDE DEF sizes
  <1>5. PICK n \in sizes : \A m \in sizes : n <= m
    BY <1>2, Least
  <1>6. PICK T \in bad : n = Cardinality(T)
    BY <1>4
  <1>7. ASSUME NEW U \in SUBSET T, U # T, U \notin P PROVE FALSE
    <2>1. T \in SUBSET S /\ U \in SUBSET S
      BY <1>7
    <2>2. U \in bad
      BY <2>1, <1>7
    <2>3. Cardinality(U) \in Nat /\ Cardinality(T) \in Nat /\ IsFiniteSet(T)
      BY <1>1, <2>1
    <2>4. Cardinality(U) < Cardinality(T)
      BY <1>7, <2>3, FS_Subset
    <2>5. Cardinality(T) <= Cardinality(U)
      BY <1>3, <1>5, <1>6, <2>2
    <2> QED BY <2>3, <2>4, <2>5
  <1> QED BY <1>6, <1>7

Small(S, n) == {T \in SUBSET S : Cardinality(T) <= n}
UnfoldsTo(f, h, S, n) == h = [T \in Small(S, n) |-> Fold(f, h, T)]

\* A fold over the subsets of up to n members extends to those of n + 1.
LEMMA UnfoldsFurther ==
  ASSUME NEW f, NEW h, NEW S, IsFiniteSet(S), NEW n \in Nat, UnfoldsTo(f, h, S, n)
  PROVE  \E g : UnfoldsTo(f, g, S, n + 1)
  <1> DEFINE g == [T \in Small(S, n + 1) |-> Fold(f, h, T)]
  <1>1. \A T \in SUBSET S : IsFiniteSet(T) /\ Cardinality(T) \in Nat
    BY FS_Subset, FS_CardinalityType
  <1>2. \A T \in Small(S, n) : T \in Small(S, n + 1)
    BY <1>1 DEF Small
  <1>3. ASSUME NEW T \in Small(S, n + 1) PROVE g[T] = Fold(f, g, T)
    <2>1. CASE T = {}
      BY <2>1 DEF Fold
    <2>2. CASE T # {}
      <3> DEFINE U == T \ {First(T)}
      <3>1. First(T) \in T
        BY <2>2 DEF First
      <3>2. T \in SUBSET S /\ U \in SUBSET S /\ Cardinality(T) <= n + 1
        BY DEF Small
      <3>3. IsFiniteSet(T) /\ Cardinality(T) \in Nat /\ Cardinality(U) \in Nat
        BY <1>1, <3>2
      <3>4. Cardinality(U) = Cardinality(T) - 1
        BY <3>1, <3>3, FS_RemoveElement
      <3>5. U \in Small(S, n)
        BY <3>2, <3>3, <3>4 DEF Small
      <3>6. h[U] = Fold(f, h, U) /\ g[U] = Fold(f, h, U)
        BY <1>2, <3>5 DEF UnfoldsTo
      <3> QED BY <2>2, <3>6 DEF Fold
    <2> QED BY <2>1, <2>2
  <1>4. g = [T \in Small(S, n + 1) |-> g[T]]
    OBVIOUS
  <1> HIDE DEF g
  <1>5. g = [T \in Small(S, n + 1) |-> Fold(f, g, T)]
    BY <1>3, <1>4
  <1> QED BY <1>5 DEF UnfoldsTo

\* The fold's equation has a solution.
LEMMA Unfolding ==
  ASSUME NEW f, NEW S, IsFiniteSet(S)
  PROVE  \E h : Unfolds(f, h, S)
  <1> DEFINE bad == {n \in Nat : ~ \E h : UnfoldsTo(f, h, S, n)}
  <1>1. \A T \in SUBSET S : IsFiniteSet(T) /\ Cardinality(T) \in Nat /\ Cardinality(T) <= Cardinality(S)
    BY FS_Subset, FS_CardinalityType
  <1>2. \E h : UnfoldsTo(f, h, S, 0)
    <2> DEFINE h == [T \in Small(S, 0) |-> 0]
    <2>1. ASSUME NEW T \in Small(S, 0) PROVE Fold(f, h, T) = 0
      <3>1. T \in SUBSET S /\ Cardinality(T) <= 0
        BY DEF Small
      <3>2. IsFiniteSet(T) /\ Cardinality(T) = 0
        BY <1>1, <3>1
      <3>3. T = {}
        BY <3>2, FS_EmptySet
      <3> QED BY <3>3 DEF Fold
    <2>2. h = [T \in Small(S, 0) |-> Fold(f, h, T)]
      BY <2>1
    <2> QED BY <2>2 DEF UnfoldsTo
  <1>3. bad = {}
    <2> SUFFICES ASSUME bad # {} PROVE FALSE
      OBVIOUS
    <2>1. PICK n \in bad : \A m \in bad : n <= m
      <3>1. bad \subseteq Nat
        OBVIOUS
      <3> HIDE DEF bad
      <3> QED BY <3>1, Least
    <2>2. n \in Nat /\ n # 0
      BY <1>2
    <2>3. n - 1 \in Nat /\ ~ (n <= n - 1)
      BY <2>2
    <2>4. \E h : UnfoldsTo(f, h, S, n - 1)
      BY <2>1, <2>3
    <2>5. \E g : UnfoldsTo(f, g, S, (n - 1) + 1)
      BY <2>3, <2>4, UnfoldsFurther
    <2>6. (n - 1) + 1 = n
      BY <2>2
    <2> QED BY <2>5, <2>6
  <1>4. S \in SUBSET S
    OBVIOUS
  <1>5. Cardinality(S) \in Nat
    BY <1>1, <1>4
  <1>6. PICK h : UnfoldsTo(f, h, S, Cardinality(S))
    BY <1>3, <1>5
  <1>7. Small(S, Cardinality(S)) = SUBSET S
    BY <1>1 DEF Small
  <1>8. Unfolds(f, h, S)
    BY <1>6, <1>7 DEF UnfoldsTo, Unfolds
  <1> QED BY <1>8

\* h sums f over the subsets of S, whichever member is taken first.
Sums(f, h, S) ==
  /\ h \in [SUBSET S -> Int]
  /\ h[{}] = 0
  /\ \A T \in SUBSET S : \A x \in T : h[T] = f[x] + h[T \ {x}]

\* A fold sums its figures, whichever member is taken first.
LEMMA UnfoldingSums ==
  ASSUME NEW f, NEW h, NEW S, IsFiniteSet(S), \A x \in S : f[x] \in Int, Unfolds(f, h, S)
  PROVE  Sums(f, h, S)
  <1>1. \A T \in SUBSET S : h[T] = Fold(f, h, T)
    BY DEF Unfolds
  <1>2. \A T \in SUBSET S : T # {} => First(T) \in T
    BY DEF First
  <1>3. \A T \in SUBSET S : h[T] \in Int
    <2> DEFINE P == {T \in SUBSET S : h[T] \in Int}
    <2>1. ASSUME NEW T \in SUBSET S, \A U \in SUBSET T : U # T => U \in P PROVE T \in P
      <3>1. CASE T = {}
        <4>1. h[T] = 0
          BY <1>1, <3>1 DEF Fold
        <4> QED BY <4>1
      <3>2. CASE T # {}
        <4> DEFINE y == First(T)
        <4>1. y \in T /\ T \ {y} \in SUBSET T /\ T \ {y} # T
          BY <1>2, <3>2
        <4>2. h[T \ {y}] \in Int /\ f[y] \in Int
          BY <2>1, <4>1
        <4>3. h[T] = f[y] + h[T \ {y}]
          BY <1>1, <3>2 DEF Fold
        <4> QED BY <4>2, <4>3
      <3> QED BY <3>1, <3>2
    <2> HIDE DEF P
    <2>2. SUBSET S \subseteq P
      BY <2>1, BySubsets
    <2> QED BY <2>2 DEF P
  <1>4. \A T \in SUBSET S : \A x \in T : h[T] = f[x] + h[T \ {x}]
    <2> DEFINE P == {T \in SUBSET S : \A x \in T : h[T] = f[x] + h[T \ {x}]}
    <2>1. ASSUME NEW T \in SUBSET S, \A U \in SUBSET T : U # T => U \in P PROVE T \in P
      <3> SUFFICES ASSUME NEW x \in T PROVE h[T] = f[x] + h[T \ {x}]
        OBVIOUS
      <3> DEFINE y == First(T)
      <3>1. y \in T /\ h[T] = f[y] + h[T \ {y}]
        BY <1>1, <1>2 DEF Fold
      <3> HIDE DEF y
      <3>2. CASE x = y
        BY <3>1, <3>2
      <3>3. CASE x # y
        <4> DEFINE A == T \ {y}
                   B == T \ {x}
        <4>1. A \in SUBSET T /\ A # T /\ x \in A /\ B \in SUBSET T /\ B # T /\ y \in B
          BY <3>1, <3>3
        <4>2. A \ {x} = B \ {y}
          OBVIOUS
        <4>3. h[A] = f[x] + h[A \ {x}] /\ h[B] = f[y] + h[B \ {y}]
          BY <2>1, <4>1
        <4>4. B \ {y} \in SUBSET S /\ x \in S /\ y \in S
          BY <3>1
        <4>5. h[B \ {y}] \in Int /\ f[x] \in Int /\ f[y] \in Int
          BY <1>3, <4>4
        <4>6. h[T] = f[y] + h[A]
          BY <3>1
        <4> DEFINE rest == h[B \ {y}]
        <4>7. h[A] = f[x] + rest /\ h[B] = f[y] + rest /\ rest \in Int
          BY <4>2, <4>3, <4>5
        <4> HIDE DEF A, B, rest
        <4>8. f[y] + (f[x] + rest) = f[x] + (f[y] + rest)
          BY <4>5, <4>7
        <4> QED BY <4>6, <4>7, <4>8 DEF B
      <3> QED BY <3>2, <3>3
    <2> HIDE DEF P
    <2>2. SUBSET S \subseteq P
      BY <2>1, BySubsets
    <2> QED BY <2>2 DEF P
  <1>5. h[{}] = 0
    BY <1>1 DEF Fold
  <1>6. h \in [SUBSET S -> Int]
    BY <1>3 DEF Unfolds
  <1> QED BY <1>4, <1>5, <1>6 DEF Sums

\* Two sums of figures that agree on a set agree there.
LEMMA SumsAgree ==
  ASSUME NEW f, NEW g, NEW h, NEW k, NEW S, NEW R \in SUBSET S, IsFiniteSet(R),
         \A x \in R : f[x] = g[x], Sums(f, h, R), Sums(g, k, S)
  PROVE  h[R] = k[R]
  <1> DEFINE P == {T \in SUBSET R : h[T] = k[T]}
  <1>1. ASSUME NEW T \in SUBSET R, \A U \in SUBSET T : U # T => U \in P PROVE T \in P
    <2>1. CASE T = {}
      BY <2>1 DEF Sums
    <2>2. CASE T # {}
      <3>1. PICK x \in T : TRUE
        BY <2>2
      <3>2. T \ {x} \in SUBSET T /\ T \ {x} # T /\ T \in SUBSET S
        OBVIOUS
      <3>3. h[T \ {x}] = k[T \ {x}]
        BY <1>1, <3>2
      <3>4. h[T] = f[x] + h[T \ {x}] /\ k[T] = g[x] + k[T \ {x}]
        BY <3>2 DEF Sums
      <3>5. f[x] = g[x]
        OBVIOUS
      <3> QED BY <3>3, <3>4, <3>5
    <2> QED BY <2>1, <2>2
  <1> HIDE DEF P
  <1>2. SUBSET R \subseteq P
    BY <1>1, BySubsets
  <1> QED BY <1>2 DEF P

\* A Total of integers is what a sum gives for its set.
LEMMA TotalSums ==
  ASSUME NEW f, NEW S, IsFiniteSet(S), \A x \in S : f[x] \in Int
  PROVE  \E h : Sums(f, h, S) /\ Total(f, S) = h[S]
  <1> DEFINE h == CHOOSE k : Unfolds(f, k, S)
  <1>1. Unfolds(f, h, S)
    BY Unfolding
  <1>2. Total(f, S) = h[S]
    BY TotalIs
  <1> HIDE DEF h
  <1> QED BY <1>1, <1>2, UnfoldingSums

\* Nothing adds up to 0.
LEMMA TotalEmpty == ASSUME NEW f PROVE Total(f, {}) = 0
  <1>1. IsFiniteSet({}) /\ \A x \in {} : f[x] \in Int
    BY FS_EmptySet
  <1>2. PICK h : Sums(f, h, {}) /\ Total(f, {}) = h[{}]
    BY <1>1, TotalSums
  <1> QED BY <1>2 DEF Sums

\* Figures that agree have one total.
LEMMA TotalSame ==
  ASSUME NEW f, NEW g, NEW S, IsFiniteSet(S), \A x \in S : f[x] \in Int /\ f[x] = g[x]
  PROVE  Total(f, S) = Total(g, S)
  <1>1. PICK h : Sums(f, h, S) /\ Total(f, S) = h[S]
    BY TotalSums
  <1>2. \A x \in S : g[x] \in Int
    OBVIOUS
  <1>3. PICK k : Sums(g, k, S) /\ Total(g, S) = k[S]
    BY <1>2, TotalSums
  <1>4. S \in SUBSET S
    OBVIOUS
  <1>5. h[S] = k[S]
    BY <1>1, <1>3, <1>4, SumsAgree
  <1> QED BY <1>1, <1>3, <1>5

\* A total is any one figure and the total of the others.
LEMMA TotalSplit ==
  ASSUME NEW f, NEW S, IsFiniteSet(S), \A x \in S : f[x] \in Int, NEW x \in S
  PROVE  Total(f, S) = f[x] + Total(f, S \ {x})
  <1> DEFINE R == S \ {x}
  <1>1. R \in SUBSET S /\ S \in SUBSET S /\ \A y \in R : f[y] \in Int /\ f[y] = f[y]
    OBVIOUS
  <1>2. IsFiniteSet(R)
    BY <1>1, FS_Subset
  <1>3. PICK k : Sums(f, k, S) /\ Total(f, S) = k[S]
    BY TotalSums
  <1>4. k[S] = f[x] + k[R]
    BY <1>1, <1>3 DEF Sums
  <1> HIDE DEF R
  <1>5. PICK h : Sums(f, h, R) /\ Total(f, R) = h[R]
    BY <1>1, <1>2, TotalSums
  <1>6. h[R] = k[R]
    BY <1>1, <1>2, <1>3, <1>5, SumsAgree
  <1>7. Total(f, S) = f[x] + Total(f, R)
    BY <1>3, <1>4, <1>5, <1>6
  <1> QED BY <1>7 DEF R

\* Natural numbers add up to one.
LEMMA TotalNat ==
  ASSUME NEW f, NEW S, IsFiniteSet(S), \A x \in S : f[x] \in Nat
  PROVE  Total(f, S) \in Nat
  <1>1. PICK h : Sums(f, h, S) /\ Total(f, S) = h[S]
    BY TotalSums
  <1> DEFINE P == {T \in SUBSET S : h[T] \in Nat}
  <1>2. ASSUME NEW T \in SUBSET S, \A U \in SUBSET T : U # T => U \in P PROVE T \in P
    <2>1. CASE T = {}
      BY <1>1, <2>1 DEF Sums
    <2>2. CASE T # {}
      <3>1. PICK x \in T : TRUE
        BY <2>2
      <3>2. T \ {x} \in SUBSET T /\ T \ {x} # T
        OBVIOUS
      <3>3. h[T \ {x}] \in Nat /\ f[x] \in Nat
        BY <1>2, <3>2
      <3>4. h[T] = f[x] + h[T \ {x}]
        BY <1>1 DEF Sums
      <3> QED BY <3>3, <3>4
    <2> QED BY <2>1, <2>2
  <1> HIDE DEF P
  <1>3. SUBSET S \subseteq P
    BY <1>2, BySubsets
  <1>4. S \in SUBSET S
    OBVIOUS
  <1> QED BY <1>1, <1>3, <1>4 DEF P

-----------------------------------------------------------------------------
(* Totals before and after a step.                                         *)

\* Figures of rows before and after a step.
Figures(f, S) == IsFiniteSet(S) /\ \A x \in S : f[x] \in Nat
Agree(f, g, S) == \A x \in S : g[x] = f[x]

\* A set that gains a member gains its figure.
LEMMA TotalGains ==
  ASSUME NEW f, NEW g, NEW S, NEW x, Figures(f, S), Agree(f, g, S), x \notin S, g[x] \in Nat
  PROVE  Total(g, S \cup {x}) = Total(f, S) + g[x]
  <1> DEFINE T == S \cup {x}
  <1>0. IsFiniteSet(S) /\ (\A y \in S : f[y] \in Nat /\ g[y] = f[y])
    BY DEF Figures, Agree
  <1>1. IsFiniteSet(T) /\ T \ {x} = S /\ x \in T
    BY <1>0, FS_AddElement
  <1>2. \A y \in T : g[y] \in Int
    BY <1>0
  <1>3. Total(g, T) = g[x] + Total(g, S)
    BY <1>1, <1>2, TotalSplit
  <1>4. \A y \in S : f[y] \in Int /\ f[y] = g[y]
    BY <1>0
  <1>5. Total(f, S) = Total(g, S)
    BY <1>0, <1>4, TotalSame
  <1>6. Total(f, S) \in Nat
    BY <1>0, TotalNat
  <1> QED BY <1>3, <1>5, <1>6

\* A set that loses a member loses its figure.
LEMMA TotalLoses ==
  ASSUME NEW f, NEW g, NEW S, NEW x, Figures(f, S), Agree(f, g, S), x \in S
  PROVE  Total(f, S) = Total(g, S \ {x}) + f[x] /\ Total(g, S \ {x}) \in Nat
  <1> DEFINE T == S \ {x}
  <1>0. IsFiniteSet(S) /\ (\A y \in S : f[y] \in Nat /\ g[y] = f[y])
    BY DEF Figures, Agree
  <1>1. IsFiniteSet(T) /\ \A y \in S : f[y] \in Int
    BY <1>0, FS_Subset
  <1>2. Total(f, S) = f[x] + Total(f, T)
    BY <1>0, <1>1, TotalSplit
  <1>3. \A y \in T : f[y] \in Int /\ f[y] = g[y]
    BY <1>0
  <1>4. Total(f, T) = Total(g, T)
    BY <1>1, <1>3, TotalSame
  <1>5. Total(f, T) \in Nat /\ f[x] \in Nat
    BY <1>0, <1>1, TotalNat
  <1> QED BY <1>2, <1>4, <1>5

\* Figures that stay keep their total.
LEMMA TotalKept ==
  ASSUME NEW f, NEW g, NEW S, Figures(f, S), Agree(f, g, S)
  PROVE  Total(g, S) = Total(f, S) /\ Total(f, S) \in Nat
  <1>1. IsFiniteSet(S) /\ (\A y \in S : f[y] \in Nat /\ f[y] \in Int /\ f[y] = g[y])
    BY DEF Figures, Agree
  <1> QED BY <1>1, TotalSame, TotalNat

\* A total changes by what one of its figures changes by.
LEMMA TotalChanges ==
  ASSUME NEW f, NEW g, NEW S, NEW x, Figures(f, S), Agree(f, g, S \ {x}), x \in S, g[x] \in Nat
  PROVE  Total(g, S) + f[x] = Total(f, S) + g[x] /\ Total(f, S) \in Nat /\ Total(g, S) \in Nat
  <1> DEFINE T == S \ {x}
  <1>1. IsFiniteSet(S) /\ (\A y \in S : f[y] \in Nat /\ f[y] \in Int /\ g[y] \in Nat /\ g[y] \in Int)
    BY DEF Figures, Agree
  <1>2. Figures(f, T) /\ IsFiniteSet(T)
    BY <1>1, FS_Subset DEF Figures
  <1>3. Total(f, S) = f[x] + Total(f, T) /\ Total(g, S) = g[x] + Total(g, T)
    BY <1>1, TotalSplit
  <1>4. Total(g, T) = Total(f, T) /\ Total(f, T) \in Nat
    BY <1>2, TotalKept
  <1>5. f[x] \in Nat
    BY <1>1
  <1> HIDE DEF T
  <1> QED BY <1>3, <1>4, <1>5

-----------------------------------------------------------------------------
(* The holds of some of the jobs.                                          *)

Taken == {r \in Reservations : reservation[r].status # "none"}
Chosen(J) == {r \in Held : reservation[r].job \in J}
HoldsOf(J) == EstimateOf(Chosen(J))

\* The figures of the holds are natural numbers.
LEMMA HoldsAre ==
  ASSUME TypeOK, IsFiniteSet(Taken), NEW J
  PROVE  /\ Figures([r \in Reservations |-> reservation[r].estimate], Chosen(J))
         /\ HoldsOf(J) \in Nat
  <1> DEFINE f == [r \in Reservations |-> reservation[r].estimate]
  <1>1. Chosen(J) \subseteq Taken /\ Chosen(J) \subseteq Reservations
    BY DEF Chosen, Held, Taken
  <1>2. IsFiniteSet(Chosen(J))
    BY <1>1, FS_Subset
  <1>3. \A r \in Chosen(J) : f[r] \in Nat
    BY <1>1 DEF TypeOK, ReservationRow
  <1> HIDE DEF f
  <1>4. Figures(f, Chosen(J)) /\ Agree(f, f, Chosen(J))
    BY <1>2, <1>3 DEF Figures, Agree
  <1>5. Total(f, Chosen(J)) \in Nat
    BY <1>4, TotalKept
  <1> QED BY <1>4, <1>5 DEF HoldsOf, EstimateOf, f

NewHold(r, j, e) ==
  /\ reservation[r].status = "none"
  /\ reservation' = [reservation EXCEPT ![r] =
       [status |-> "held", job |-> j, estimate |-> e, expired |-> FALSE]]

\* A new hold adds its estimate to the holds it belongs to.
LEMMA HoldGained ==
  ASSUME TypeOK, IsFiniteSet(Taken), NEW r \in Reservations, NEW j \in Jobs, NEW e \in Nat, NEW J,
         NewHold(r, j, e)
  PROVE  HoldsOf(J)' = HoldsOf(J) + (IF j \in J THEN e ELSE 0)
  <1> DEFINE f == [x \in Reservations |-> reservation[x].estimate]
             g == [x \in Reservations |-> reservation'[x].estimate]
             S == Chosen(J)
             T == Chosen(J)'
  <1>0. reservation \in [Reservations -> ReservationRow]
    BY DEF TypeOK
  <1>1. /\ reservation'[r] = [status |-> "held", job |-> j, estimate |-> e, expired |-> FALSE]
        /\ \A x \in Reservations : x # r => reservation'[x] = reservation[x]
    BY <1>0 DEF NewHold
  <1>2. r \notin S /\ S \subseteq Reservations
    BY DEF Chosen, Held, NewHold
  <1>3. T = IF j \in J THEN S \cup {r} ELSE S
    BY <1>1, <1>2 DEF Chosen, Held
  <1>4. Figures(f, S) /\ HoldsOf(J) \in Nat
    BY HoldsAre
  <1>5. Agree(f, g, S) /\ g[r] = e /\ g[r] \in Nat
    BY <1>1, <1>2 DEF Agree
  <1>6. HoldsOf(J) = Total(f, S) /\ HoldsOf(J)' = Total(g, T)
    BY DEF HoldsOf, EstimateOf
  <1> HIDE DEF f, g, S, T
  <1>7. Total(g, S) = Total(f, S) /\ Total(g, S \cup {r}) = Total(f, S) + g[r]
    <2>1. Total(g, S) = Total(f, S)
      BY <1>4, <1>5, TotalKept
    <2>2. Figures(f, S) /\ Agree(f, g, S) /\ r \notin S /\ g[r] \in Nat
      BY <1>2, <1>4, <1>5
    <2>3. Total(g, S \cup {r}) = Total(f, S) + g[r]
      BY <2>2, TotalGains
    <2> QED BY <2>1, <2>3
  <1> QED BY <1>3, <1>4, <1>5, <1>6, <1>7

\* A hold that ends takes its estimate from the holds it belonged to.
LEMMA HoldLost ==
  ASSUME TypeOK, IsFiniteSet(Taken), NEW r \in Reservations, NEW st \in Status \ {"held"}, NEW J,
         reservation[r].status = "held", SetStatus(r, st)
  PROVE  HoldsOf(J)' = HoldsOf(J) - (IF reservation[r].job \in J THEN reservation[r].estimate ELSE 0)
  <1> DEFINE f == [x \in Reservations |-> reservation[x].estimate]
             g == [x \in Reservations |-> reservation'[x].estimate]
             S == Chosen(J)
             T == Chosen(J)'
  <1>0. reservation \in [Reservations -> ReservationRow]
    BY DEF TypeOK
  <1>1. /\ reservation'[r].status = st /\ st # "held"
        /\ \A x \in Reservations : x # r => reservation'[x] = reservation[x]
        /\ \A x \in Reservations : reservation'[x].estimate = reservation[x].estimate
    BY <1>0 DEF SetStatus, ReservationRow
  <1>2. S \subseteq Reservations
    BY DEF Chosen, Held
  <1>3. T = S \ {r} /\ (r \in S <=> reservation[r].job \in J)
    BY <1>1, <1>2 DEF Chosen, Held
  <1>4. Figures(f, S) /\ HoldsOf(J) \in Nat
    BY HoldsAre
  <1>5. Agree(f, g, S) /\ f[r] = reservation[r].estimate
    BY <1>1, <1>2 DEF Agree
  <1>6. HoldsOf(J) = Total(f, S) /\ HoldsOf(J)' = Total(g, T)
    BY DEF HoldsOf, EstimateOf
  <1> HIDE DEF f, g, S, T
  <1>7. CASE r \in S
    <2>1. Total(f, S) = Total(g, S \ {r}) + f[r] /\ Total(g, S \ {r}) \in Nat
      BY <1>4, <1>5, <1>7, TotalLoses
    <2>2. f[r] \in Nat
      BY <1>4, <1>7 DEF Figures
    <2> QED BY <1>3, <1>5, <1>6, <1>7, <2>1, <2>2
  <1>8. CASE r \notin S
    <2>1. Total(g, S) = Total(f, S) /\ T = S
      BY <1>3, <1>4, <1>5, <1>8, TotalKept
    <2> QED BY <1>3, <1>4, <1>6, <1>8, <2>1
  <1> QED BY <1>7, <1>8

\* A step that leaves what is held alone leaves the holds alone.
LEMMA HoldsSame ==
  ASSUME NEW J,
         \A x \in Reservations :
           /\ reservation'[x].job = reservation[x].job
           /\ reservation'[x].estimate = reservation[x].estimate
           /\ reservation'[x].status = "held" <=> reservation[x].status = "held"
  PROVE  HoldsOf(J)' = HoldsOf(J)
  <1> DEFINE f == [x \in Reservations |-> reservation[x].estimate]
             g == [x \in Reservations |-> reservation'[x].estimate]
  <1>1. f = g /\ Chosen(J)' = Chosen(J)
    BY DEF Chosen, Held
  <1>2. HoldsOf(J) = Total(f, Chosen(J)) /\ HoldsOf(J)' = Total(g, Chosen(J)')
    BY DEF HoldsOf, EstimateOf
  <1> HIDE DEF f, g
  <1> QED BY <1>1, <1>2

-----------------------------------------------------------------------------
(* The steps of the ledger.                                                *)

JobsOf(o) == {j \in Jobs : OwnerOf[j] = o}
PlatformJobsOf(o) == {j \in JobsOf(o) : SourceOf[j] = "platform_model"}
JobsWith(k) == {j \in Jobs : KeyOf[j] = k}

\* The amount d enters the holds of job j and the counters of its owner.
Moves(j, d) ==
  /\ \A J \in SUBSET Jobs : HoldsOf(J)' = HoldsOf(J) + (IF j \in J THEN d ELSE 0)
  /\ \A o \in Owners :
       /\ guardrail'[o].reserved = guardrail[o].reserved + (IF j \in JobsOf(o) THEN d ELSE 0)
       /\ balance'[o].reserved = balance[o].reserved + (IF j \in PlatformJobsOf(o) THEN d ELSE 0)

\* The SQL of a row update, on the column of the holds.
LEMMA ReservedColumn ==
  ASSUME TypeOK, NEW o \in Owners, NEW spend \in Nat, NEW hold \in Int
  PROVE  /\ HoldDropped(guardrail[o], hold).reserved = guardrail[o].reserved - hold
         /\ HoldDropped(balance[o], hold).reserved = balance[o].reserved - hold
         /\ HoldDropped(RolledOver(guardrail[o]), hold).reserved = guardrail[o].reserved - hold
         /\ HoldDropped(PlatformRolledOver(balance[o]), hold).reserved = balance[o].reserved - hold
         /\ SpendRecorded(guardrail[o], spend, hold).reserved = guardrail[o].reserved - hold
         /\ PlatformRecorded(balance[o], spend, hold).reserved = balance[o].reserved - hold
         /\ guardrail[o].reserved \in Int /\ balance[o].reserved \in Int
  <1>1. /\ guardrail[o] \in GuardrailRow /\ balance[o] \in BalanceRow
        /\ day \in Nat /\ month \in Nat
    BY DEF TypeOK
  <1>2. /\ RolledOver(guardrail[o]) \in GuardrailRow
        /\ RolledOver(guardrail[o]).reserved = guardrail[o].reserved
    BY <1>1, RolledOverRow
  <1>3. /\ PlatformRolledOver(balance[o]) \in BalanceRow
        /\ PlatformRolledOver(balance[o]).reserved = balance[o].reserved
    BY <1>1, PlatformRolledOverRow DEF PlatformRolledOver, BalanceRow
  <1>4. \A g \in GuardrailRow : HoldDropped(g, hold).reserved = g.reserved - hold
    BY DEF HoldDropped, GuardrailRow
  <1>5. \A b \in BalanceRow : HoldDropped(b, hold).reserved = b.reserved - hold
    BY DEF HoldDropped, BalanceRow
  <1>6. SpendRecorded(guardrail[o], spend, hold).reserved = guardrail[o].reserved - hold
    BY <1>2 DEF SpendRecorded, GuardrailRow
  <1>7. PlatformRecorded(balance[o], spend, hold).reserved = balance[o].reserved - hold
    BY <1>3 DEF PlatformRecorded, BalanceRow
  <1>8. guardrail[o].reserved \in Int /\ balance[o].reserved \in Int
    BY <1>1 DEF GuardrailRow, BalanceRow
  <1> QED BY <1>1, <1>2, <1>3, <1>4, <1>5, <1>6, <1>7, <1>8

\* An accepted reserve moves its estimate in.
LEMMA AcceptMoves ==
  ASSUME TypeOK, IsFiniteSet(Taken), NEW q \in Requests, NEW r \in Reservations, ReserveAccept(q, r)
  PROVE  /\ request[q].job \in Jobs /\ request[q].estimate \in Nat
         /\ Moves(request[q].job, request[q].estimate)
  <1> DEFINE j == request[q].job
             e == request[q].estimate
             o == OwnerOf[j]
  <1>1. j \in Jobs /\ e \in Nat /\ -e \in Int /\ o \in Owners
    BY JobAttributes DEF TypeOK, ReserveAccept
  <1>2. /\ guardrail' = [guardrail EXCEPT ![o] = HoldDropped(RolledOver(guardrail[o]), -e)]
        /\ balance' = IF SourceOf[j] = "platform_model"
                      THEN [balance EXCEPT ![o] = HoldDropped(PlatformRolledOver(balance[o]), -e)]
                      ELSE balance
        /\ NewHold(r, j, e)
    BY DEF ReserveAccept, NewHold
  <1> HIDE DEF j, e, o
  <1>3. ASSUME NEW J \in SUBSET Jobs PROVE HoldsOf(J)' = HoldsOf(J) + (IF j \in J THEN e ELSE 0)
    BY <1>1, <1>2, HoldGained
  <1>4. ASSUME NEW p \in Owners
        PROVE  /\ guardrail'[p].reserved = guardrail[p].reserved + (IF j \in JobsOf(p) THEN e ELSE 0)
               /\ balance'[p].reserved =
                    balance[p].reserved + (IF j \in PlatformJobsOf(p) THEN e ELSE 0)
    <2>1. /\ HoldDropped(RolledOver(guardrail[p]), -e).reserved = guardrail[p].reserved - (-e)
          /\ HoldDropped(PlatformRolledOver(balance[p]), -e).reserved = balance[p].reserved - (-e)
          /\ guardrail[p].reserved \in Int /\ balance[p].reserved \in Int
      BY <1>1, ReservedColumn
    <2>2. j \in JobsOf(p) <=> p = o
      BY <1>1 DEF JobsOf, o
    <2>3. j \in PlatformJobsOf(p) <=> p = o /\ SourceOf[j] = "platform_model"
      BY <2>2 DEF PlatformJobsOf
    <2>4. guardrail'[p] = IF p = o THEN HoldDropped(RolledOver(guardrail[p]), -e) ELSE guardrail[p]
      BY <1>2 DEF TypeOK
    <2>5. balance'[p] = IF p = o /\ SourceOf[j] = "platform_model"
                        THEN HoldDropped(PlatformRolledOver(balance[p]), -e) ELSE balance[p]
      BY <1>2 DEF TypeOK
    <2> QED BY <1>1, <2>1, <2>2, <2>3, <2>4, <2>5
  <1>5. Moves(j, e)
    BY <1>3, <1>4 DEF Moves
  <1> QED BY <1>1, <1>5 DEF j, e

\* A row of both ledgers from which the hold of reservation r is dropped.
DropsHold(r, hold) ==
  LET j == reservation[r].job IN
  \A o \in Owners :
    /\ guardrail'[o].reserved = guardrail[o].reserved - (IF j \in JobsOf(o) THEN hold ELSE 0)
    /\ balance'[o].reserved = balance[o].reserved - (IF j \in PlatformJobsOf(o) THEN hold ELSE 0)

\* Release and the sweeper.
LEMMA ReleasedDrops ==
  ASSUME TypeOK, NEW r \in Reservations, reservation[r].status # "none", HoldReleased(r)
  PROVE  DropsHold(r, reservation[r].estimate)
  <1> DEFINE j == reservation[r].job
             e == reservation[r].estimate
             o == OwnerOf[j]
  <1>1. j \in Jobs /\ e \in Int /\ o \in Owners
    BY JobAttributes DEF TypeOK, ReservationRow
  <1>2. /\ guardrail' = [guardrail EXCEPT ![o] = HoldDropped(guardrail[o], e)]
        /\ balance' = IF SourceOf[j] = "platform_model"
                      THEN [balance EXCEPT ![o] = HoldDropped(balance[o], e)]
                      ELSE balance
    BY DEF HoldReleased, PlatformUpdate
  <1> HIDE DEF j, e, o
  <1>3. ASSUME NEW p \in Owners
        PROVE  /\ guardrail'[p].reserved = guardrail[p].reserved - (IF j \in JobsOf(p) THEN e ELSE 0)
               /\ balance'[p].reserved =
                    balance[p].reserved - (IF j \in PlatformJobsOf(p) THEN e ELSE 0)
    <2>1. /\ HoldDropped(guardrail[p], e).reserved = guardrail[p].reserved - e
          /\ HoldDropped(balance[p], e).reserved = balance[p].reserved - e
          /\ guardrail[p].reserved \in Int /\ balance[p].reserved \in Int
      BY <1>1, ReservedColumn
    <2>2. j \in JobsOf(p) <=> p = o
      BY <1>1 DEF JobsOf, o
    <2>3. j \in PlatformJobsOf(p) <=> p = o /\ SourceOf[j] = "platform_model"
      BY <2>2 DEF PlatformJobsOf
    <2>4. guardrail'[p] = IF p = o THEN HoldDropped(guardrail[p], e) ELSE guardrail[p]
      BY <1>2 DEF TypeOK
    <2>5. balance'[p] = IF p = o /\ SourceOf[j] = "platform_model"
                        THEN HoldDropped(balance[p], e) ELSE balance[p]
      BY <1>2 DEF TypeOK
    <2> QED BY <1>1, <2>1, <2>2, <2>3, <2>4, <2>5
  <1> QED BY <1>3 DEF DropsHold, j, e

\* Reconcile, which records the spend in the same rows.
LEMMA ReconcileDrops ==
  ASSUME TypeOK, NEW r \in Reservations, NEW a \in Amounts \cup {NoAmount}, Reconcile(r, a)
  PROVE  DropsHold(r, HoldToDrop(r))
  <1> DEFINE j == reservation[r].job
             e == HoldToDrop(r)
             o == OwnerOf[j]
             spend == IF a = NoAmount THEN reservation[r].estimate ELSE a
  <1>1. j \in Jobs /\ e \in Int /\ o \in Owners /\ spend \in Nat
    BY JobAttributes, MoneyIsNatural
    DEF TypeOK, ReservationRow, HoldToDrop, Reconcile, Reconcilable
  <1>2. /\ guardrail' = [guardrail EXCEPT ![o] = SpendRecorded(guardrail[o], spend, e)]
        /\ balance' = IF SourceOf[j] = "platform_model"
                      THEN [balance EXCEPT ![o] = PlatformRecorded(balance[o], spend, e)]
                      ELSE balance
    BY DEF Reconcile, PlatformUpdate
  <1> HIDE DEF j, e, o, spend
  <1>3. ASSUME NEW p \in Owners
        PROVE  /\ guardrail'[p].reserved = guardrail[p].reserved - (IF j \in JobsOf(p) THEN e ELSE 0)
               /\ balance'[p].reserved =
                    balance[p].reserved - (IF j \in PlatformJobsOf(p) THEN e ELSE 0)
    <2>1. /\ SpendRecorded(guardrail[p], spend, e).reserved = guardrail[p].reserved - e
          /\ PlatformRecorded(balance[p], spend, e).reserved = balance[p].reserved - e
          /\ guardrail[p].reserved \in Int /\ balance[p].reserved \in Int
      BY <1>1, ReservedColumn
    <2>2. j \in JobsOf(p) <=> p = o
      BY <1>1 DEF JobsOf, o
    <2>3. j \in PlatformJobsOf(p) <=> p = o /\ SourceOf[j] = "platform_model"
      BY <2>2 DEF PlatformJobsOf
    <2>4. guardrail'[p] = IF p = o THEN SpendRecorded(guardrail[p], spend, e) ELSE guardrail[p]
      BY <1>2 DEF TypeOK
    <2>5. balance'[p] = IF p = o /\ SourceOf[j] = "platform_model"
                        THEN PlatformRecorded(balance[p], spend, e) ELSE balance[p]
      BY <1>2 DEF TypeOK
    <2> QED BY <1>1, <2>1, <2>2, <2>3, <2>4, <2>5
  <1> QED BY <1>3 DEF DropsHold, j, e

\* A drop of r's hold, with what it does to the holds, is a move out.
LEMMA DropMoves ==
  ASSUME TypeOK, IsFiniteSet(Taken), NEW r \in Reservations, NEW hold \in Nat, DropsHold(r, hold),
         \A J \in SUBSET Jobs :
           HoldsOf(J)' = HoldsOf(J) - (IF reservation[r].job \in J THEN hold ELSE 0)
  PROVE  Moves(reservation[r].job, 0 - hold)
  <1> DEFINE j == reservation[r].job
  <1>1. ASSUME NEW J \in SUBSET Jobs PROVE HoldsOf(J)' = HoldsOf(J) + (IF j \in J THEN 0 - hold ELSE 0)
    <2>1. HoldsOf(J) \in Nat
      BY HoldsAre
    <2> QED BY <2>1
  <1>2. ASSUME NEW o \in Owners
        PROVE  /\ guardrail'[o].reserved =
                    guardrail[o].reserved + (IF j \in JobsOf(o) THEN 0 - hold ELSE 0)
               /\ balance'[o].reserved =
                    balance[o].reserved + (IF j \in PlatformJobsOf(o) THEN 0 - hold ELSE 0)
    <2>1. guardrail[o].reserved \in Int /\ balance[o].reserved \in Int
      BY DEF TypeOK, GuardrailRow, BalanceRow
    <2>2. /\ guardrail'[o].reserved = guardrail[o].reserved - (IF j \in JobsOf(o) THEN hold ELSE 0)
          /\ balance'[o].reserved = balance[o].reserved - (IF j \in PlatformJobsOf(o) THEN hold ELSE 0)
      BY DEF DropsHold
    <2> QED BY <2>1, <2>2
  <1> QED BY <1>1, <1>2 DEF Moves

\* Nothing held changes and no row's column of holds does.
HoldsStay ==
  /\ \A x \in Reservations :
       /\ reservation'[x].job = reservation[x].job
       /\ reservation'[x].estimate = reservation[x].estimate
       /\ reservation'[x].status = "held" <=> reservation[x].status = "held"
       /\ reservation'[x].status = "none" <=> reservation[x].status = "none"
  /\ \A o \in Owners : /\ guardrail'[o].reserved = guardrail[o].reserved
                       /\ balance'[o].reserved = balance[o].reserved

\* Where the holds and the counters stay, nothing moves.
LEMMA StayMoves ==
  ASSUME TypeOK, IsFiniteSet(Taken), HoldsStay
  PROVE  Moves(NoJob, 0)
  <1>1. ASSUME NEW J \in SUBSET Jobs PROVE HoldsOf(J)' = HoldsOf(J) + (IF NoJob \in J THEN 0 ELSE 0)
    <2>1. HoldsOf(J) \in Nat /\ HoldsOf(J)' = HoldsOf(J)
      BY HoldsAre, HoldsSame DEF HoldsStay
    <2> QED BY <2>1
  <1>2. ASSUME NEW o \in Owners
        PROVE  /\ guardrail'[o].reserved =
                    guardrail[o].reserved + (IF NoJob \in JobsOf(o) THEN 0 ELSE 0)
               /\ balance'[o].reserved =
                    balance[o].reserved + (IF NoJob \in PlatformJobsOf(o) THEN 0 ELSE 0)
    <2>1. guardrail[o].reserved \in Int /\ balance[o].reserved \in Int
      BY DEF TypeOK, GuardrailRow, BalanceRow
    <2> QED BY <2>1 DEF HoldsStay
  <1> QED BY <1>1, <1>2 DEF Moves

\* The ids in use are finitely many, and stay so.
LEMMA TakenSame ==
  ASSUME \A x \in Reservations : reservation'[x].status = "none" <=> reservation[x].status = "none"
  PROVE  Taken' = Taken
  BY DEF Taken

\* A settled hold takes its estimate off the ledgers of its owner.
LEMMA SettledMoves ==
  ASSUME TypeOK, IsFiniteSet(Taken), NEW r \in Reservations, NEW st \in Status \ {"none", "held"},
         reservation[r].status = "held", SetStatus(r, st), DropsHold(r, reservation[r].estimate)
  PROVE  /\ IsFiniteSet(Taken')
         /\ reservation[r].job \in Jobs /\ reservation[r].estimate \in Nat
         /\ Moves(reservation[r].job, 0 - reservation[r].estimate)
  <1>1. reservation[r].job \in Jobs /\ reservation[r].estimate \in Nat
    BY DEF TypeOK, ReservationRow
  <1>2. Taken' = Taken
    BY TakenSame DEF SetStatus, TypeOK, ReservationRow
  <1>3. \A J \in SUBSET Jobs :
          HoldsOf(J)' =
            HoldsOf(J) - (IF reservation[r].job \in J THEN reservation[r].estimate ELSE 0)
    BY HoldLost
  <1>4. Moves(reservation[r].job, 0 - reservation[r].estimate)
    BY <1>1, <1>3, DropMoves
  <1> QED BY <1>1, <1>2, <1>4

\* Every step but an accepted reserve moves some amount, perhaps none, out.
LEMMA LedgerStep ==
  ASSUME TypeOK, IsFiniteSet(Taken), [Next]_vars
  PROVE  /\ IsFiniteSet(Taken')
         /\ \/ \E q \in Requests, r \in Reservations : ReserveAccept(q, r)
            \/ \E j \in Jobs \cup {NoJob}, d \in Nat : Moves(j, 0 - d)
  <1> DEFINE Goal == /\ IsFiniteSet(Taken')
                     /\ \/ \E q \in Requests, r \in Reservations : ReserveAccept(q, r)
                        \/ \E j \in Jobs \cup {NoJob}, d \in Nat : Moves(j, 0 - d)
  <1>1. ASSUME NEW q \in Requests, NEW r \in Reservations, ReserveAccept(q, r) PROVE Goal
    <2>1. Taken' = Taken \cup {r}
      BY <1>1 DEF Taken, ReserveAccept, TypeOK
    <2>2. IsFiniteSet(Taken')
      BY <2>1, FS_AddElement
    <2> QED BY <1>1, <2>2
  <1>2. ASSUME HoldsStay PROVE Goal
    <2>1. Taken' = Taken
      BY <1>2, TakenSame DEF HoldsStay
    <2>2. Moves(NoJob, 0)
      BY <1>2, StayMoves
    <2>3. 0 \in Nat /\ 0 - 0 = 0
      OBVIOUS
    <2>4. Moves(NoJob, 0 - 0)
      BY <2>2, <2>3
    <2> QED BY <2>1, <2>3, <2>4
  <1>3. ASSUME NEW r \in Reservations, NEW a \in Amounts \cup {NoAmount}, Reconcile(r, a) PROVE Goal
    <2>1. /\ DropsHold(r, HoldToDrop(r)) /\ SetStatus(r, "reconciled")
          /\ reservation[r].status \in {"held", "swept"}
      BY <1>3, ReconcileDrops DEF Reconcile, Reconcilable
    <2>2. CASE reservation[r].status = "held"
      <3>1. HoldToDrop(r) = reservation[r].estimate
        BY <2>2 DEF HoldToDrop
      <3> QED BY <2>1, <2>2, <3>1, SettledMoves DEF Status
    <2>3. CASE reservation[r].status = "swept"
      <3>1. HoldToDrop(r) = 0
        BY <2>3 DEF HoldToDrop
      <3>2. ASSUME NEW o \in Owners
            PROVE  /\ guardrail'[o].reserved = guardrail[o].reserved
                   /\ balance'[o].reserved = balance[o].reserved
        <4>1. guardrail[o].reserved \in Int /\ balance[o].reserved \in Int
          BY DEF TypeOK, GuardrailRow, BalanceRow
        <4> QED BY <2>1, <3>1, <4>1 DEF DropsHold
      <3>3. HoldsStay
        BY <2>1, <2>3, <3>2 DEF HoldsStay, SetStatus, TypeOK, ReservationRow
      <3> QED BY <1>2, <3>3
    <2> QED BY <2>1, <2>2, <2>3
  <1>4. ASSUME NEW r \in Reservations, Release(r) \/ Sweep(r) PROVE Goal
    <2>1. /\ reservation[r].status = "held" /\ HoldReleased(r)
          /\ SetStatus(r, "released") \/ SetStatus(r, "swept")
      BY <1>4 DEF Release, Releasable, Sweep, Sweepable
    <2>2. DropsHold(r, reservation[r].estimate)
      BY <2>1, ReleasedDrops
    <2> QED BY <2>1, <2>2, SettledMoves DEF Status
  <1>5. ASSUME NEW r \in Reservations, TtlElapses(r) PROVE Goal
    BY <1>2, <1>5 DEF TtlElapses, HoldsStay, TypeOK, ReservationRow
  <1>6. ASSUME NEW o \in Owners, NEW d \in Limits \cup {NoAmount}, NEW m \in Limits \cup {NoAmount},
               PatchGuardrail(o, d, m)
        PROVE  Goal
    <2>1. \A p \in Owners : guardrail'[p].reserved = guardrail[p].reserved
      BY <1>6 DEF PatchGuardrail, TypeOK, GuardrailRow
    <2> QED BY <1>2, <1>6, <2>1 DEF PatchGuardrail, HoldsStay
  <1>7. ASSUME UNCHANGED ledger PROVE Goal
    BY <1>2, <1>7 DEF ledger, HoldsStay
  <1>8. CASE \/ \E q \in Requests, j \in Jobs, e \in Amounts : ReserveBegin(q, j, e)
             \/ \E q \in Requests : ReserveRollback(q)
             \/ \E j \in Jobs, c \in Amounts : WriteUsageLog(j, c)
             \/ \E newMonth \in BOOLEAN : DayPasses(newMonth)
             \/ UNCHANGED vars
    BY <1>7, <1>8 DEF ReserveBegin, ReserveRollback, WriteUsageLog, DayPasses, vars
  <1>9. CASE \E q \in Requests, r \in Reservations : ReserveAccept(q, r)
    BY <1>1, <1>9
  <1>10. CASE \E r \in Reservations, a \in Amounts \cup {NoAmount} : Reconcile(r, a)
    BY <1>3, <1>10
  <1>11. CASE \E r \in Reservations : Release(r) \/ TtlElapses(r) \/ Sweep(r)
    BY <1>4, <1>5, <1>11
  <1>12. CASE \E o \in Owners, d, m \in Limits \cup {NoAmount} : PatchGuardrail(o, d, m)
    BY <1>6, <1>12
  <1>13. Goal
    BY <1>8, <1>9, <1>10, <1>11, <1>12 DEF Next
  <1> QED BY <1>13 DEF Goal

-----------------------------------------------------------------------------
(* The counters of the holds.                                              *)

\* The reserved_usd of both rows of an owner is the sum of its open holds.
ReservedInv ==
  /\ TypeOK /\ IsFiniteSet(Taken)
  /\ \A o \in Owners : /\ guardrail[o].reserved = HoldsOf(JobsOf(o))
                       /\ balance[o].reserved = HoldsOf(PlatformJobsOf(o))

\* No hold, no total.
LEMMA NoHolds == ASSUME Init PROVE Taken = {} /\ IsFiniteSet(Taken) /\ \A J \in SUBSET Jobs : HoldsOf(J) = 0
  <1>1. Taken = {} /\ \A J \in SUBSET Jobs : Chosen(J) = {}
    BY DEF Init, NoReservation, Taken, Chosen, Held
  <1> QED BY <1>1, FS_EmptySet, TotalEmpty DEF HoldsOf, EstimateOf

\* No hold, and every counter at 0.
LEMMA ReservedInit == Init => ReservedInv
  <1> SUFFICES ASSUME Init PROVE ReservedInv
    OBVIOUS
  <1>1. \A o \in Owners : HoldsOf(JobsOf(o)) = 0 /\ HoldsOf(PlatformJobsOf(o)) = 0
    BY NoHolds DEF JobsOf, PlatformJobsOf
  <1>2. \A o \in Owners : guardrail[o].reserved = 0 /\ balance[o].reserved = 0
    BY DEF Init
  <1> QED BY <1>1, <1>2, NoHolds, TypeInit DEF ReservedInv

\* Every action moves the holds and the counters of its owner together.
LEMMA ReservedNext == ReservedInv /\ [Next]_vars => ReservedInv'
  <1> SUFFICES ASSUME ReservedInv, [Next]_vars PROVE ReservedInv'
    OBVIOUS
  <1>1. TypeOK' /\ IsFiniteSet(Taken')
    BY TypeNext, LedgerStep DEF ReservedInv
  <1>2. \E j, d : Moves(j, d)
    <2>1. CASE \E q \in Requests, r \in Reservations : ReserveAccept(q, r)
      BY <2>1, AcceptMoves DEF ReservedInv
    <2>2. CASE \E j \in Jobs \cup {NoJob}, d \in Nat : Moves(j, 0 - d)
      BY <2>2
    <2> QED BY <2>1, <2>2, LedgerStep DEF ReservedInv
  <1>3. PICK j, d : Moves(j, d)
    BY <1>2
  <1>4. ASSUME NEW o \in Owners
        PROVE  /\ guardrail'[o].reserved = HoldsOf(JobsOf(o))'
               /\ balance'[o].reserved = HoldsOf(PlatformJobsOf(o))'
    <2>1. JobsOf(o) \in SUBSET Jobs /\ PlatformJobsOf(o) \in SUBSET Jobs
      BY DEF JobsOf, PlatformJobsOf
    <2>2. /\ guardrail[o].reserved = HoldsOf(JobsOf(o))
          /\ balance[o].reserved = HoldsOf(PlatformJobsOf(o))
      BY DEF ReservedInv
    <2>3. /\ HoldsOf(JobsOf(o))' = HoldsOf(JobsOf(o)) + (IF j \in JobsOf(o) THEN d ELSE 0)
          /\ HoldsOf(PlatformJobsOf(o))' =
               HoldsOf(PlatformJobsOf(o)) + (IF j \in PlatformJobsOf(o) THEN d ELSE 0)
      BY <1>3, <2>1 DEF Moves
    <2>4. /\ guardrail'[o].reserved = guardrail[o].reserved + (IF j \in JobsOf(o) THEN d ELSE 0)
          /\ balance'[o].reserved = balance[o].reserved + (IF j \in PlatformJobsOf(o) THEN d ELSE 0)
      BY <1>3 DEF Moves
    <2> QED BY <2>2, <2>3, <2>4
  <1> QED BY <1>1, <1>4 DEF ReservedInv

\* The holds of an owner's jobs, as the property names them.
LEMMA HoldSets ==
  ASSUME TypeOK
  PROVE  /\ \A o \in Owners : /\ EstimateOf(HeldBy(o)) = HoldsOf(JobsOf(o))
                              /\ EstimateOf(OnPlatform(HeldBy(o))) = HoldsOf(PlatformJobsOf(o))
         /\ \A k \in Keys : EstimateOf(WithKey(Held, k)) = HoldsOf(JobsWith(k))
  <1>1. \A r \in Held : reservation[r].job \in Jobs
    BY DEF TypeOK, Held
  <1>2. \A o \in Owners : HeldBy(o) = Chosen(JobsOf(o)) /\ OnPlatform(HeldBy(o)) = Chosen(PlatformJobsOf(o))
    BY <1>1 DEF HeldBy, OnPlatform, Chosen, JobsOf, PlatformJobsOf
  <1>3. \A k \in Keys : WithKey(Held, k) = Chosen(JobsWith(k))
    BY <1>1 DEF WithKey, Chosen, JobsWith
  <1> QED BY <1>2, <1>3 DEF HoldsOf

\* However reserves, settlements and sweeps interleave, the reserved_usd of an
\* owner's row is the sum of the owner's held rows, on both ledgers.
THEOREM CountersAreHolds == Spec => []ReservedMatchesHolds
  <1>1. ReservedInv => ReservedMatchesHolds
    BY HoldSets DEF ReservedInv, ReservedMatchesHolds
  <1> QED BY <1>1, ReservedInit, ReservedNext, PTL DEF Spec

-----------------------------------------------------------------------------
(* The caps of the public keys.                                            *)

\* The open holds under a key fit the key's cap.
KeyInv ==
  /\ TypeOK /\ IsFiniteSet(Taken) /\ IsFiniteSet(Logged)
  /\ \A k \in Keys : HoldsOf(JobsWith(k)) <= SpendCap[k]

\* No hold, so no cap is exceeded.
LEMMA KeyInit == Init => KeyInv
  <1> SUFFICES ASSUME Init PROVE KeyInv
    OBVIOUS
  <1>1. Logged = {}
    BY DEF Init, NoLog, Logged
  <1>2. \A k \in Keys : HoldsOf(JobsWith(k)) = 0 /\ SpendCap[k] \in Nat
    BY NoHolds, MoneyIsNatural DEF JobsWith
  <1>3. \A k \in Keys : HoldsOf(JobsWith(k)) <= SpendCap[k]
    BY <1>2
  <1> QED BY <1>1, <1>3, NoHolds, TypeInit, FS_EmptySet DEF KeyInv

\* What a key's logged rows cost this month is never negative.
LEMMA CommittedIsNatural ==
  ASSUME TypeOK, IsFiniteSet(Logged), NEW k \in Keys
  PROVE  KeyCommitted(k) \in Nat
  <1> DEFINE f == [j \in Jobs |-> usageLog[j].cost]
             S == {j \in Jobs : KeyOf[j] = k /\ usageLog[j].written /\ usageLog[j].month >= month}
  <1>1. S \subseteq Logged /\ S \subseteq Jobs
    BY DEF Logged
  <1>2. \A j \in S : f[j] \in Nat
    BY <1>1 DEF TypeOK
  <1>3. IsFiniteSet(S)
    BY <1>1, FS_Subset
  <1>4. KeyCommitted(k) = Total(f, S)
    BY DEF KeyCommitted
  <1> HIDE DEF f, S
  <1> QED BY <1>2, <1>3, <1>4, TotalNat

\* The usage rows written are finitely many.
LEMMA LoggedNext ==
  ASSUME TypeOK, IsFiniteSet(Logged), [Next]_vars
  PROVE  IsFiniteSet(Logged')
  <1>1. ASSUME NEW j \in Jobs, NEW c \in Amounts, WriteUsageLog(j, c) PROVE IsFiniteSet(Logged')
    <2>1. Logged' = Logged \cup {j}
      BY <1>1 DEF Logged, WriteUsageLog, TypeOK
    <2> QED BY <2>1, FS_AddElement
  <1>2. ASSUME UNCHANGED usageLog PROVE IsFiniteSet(Logged')
    <2>1. Logged' = Logged
      BY <1>2 DEF Logged
    <2> QED BY <2>1
  <1>3. (\E j \in Jobs, c \in Amounts : WriteUsageLog(j, c)) \/ UNCHANGED usageLog
    BY DEF Next, vars, ReserveBegin, ReserveAccept, ReserveRollback, Reconcile, Release, TtlElapses,
           Sweep, PatchGuardrail, DayPasses
  <1> QED BY <1>1, <1>2, <1>3

\* Only an accepted reserve adds to the holds of a key, and it checks the cap.
LEMMA KeyNext == KeyInv /\ [Next]_vars => KeyInv'
  <1> SUFFICES ASSUME KeyInv, [Next]_vars PROVE KeyInv'
    OBVIOUS
  <1>0. TypeOK /\ IsFiniteSet(Taken) /\ IsFiniteSet(Logged)
    BY DEF KeyInv
  <1>1. TypeOK' /\ IsFiniteSet(Taken') /\ IsFiniteSet(Logged')
    BY <1>0, TypeNext, LedgerStep, LoggedNext
  <1>2. ASSUME NEW k \in Keys PROVE HoldsOf(JobsWith(k))' <= SpendCap[k]
    <2> DEFINE held == HoldsOf(JobsWith(k))
               later == HoldsOf(JobsWith(k))'
    <2>1. held \in Nat /\ SpendCap[k] \in Nat /\ held <= SpendCap[k] /\ JobsWith(k) \in SUBSET Jobs
      BY <1>0, HoldsAre, MoneyIsNatural DEF KeyInv, JobsWith
    <2>2. ASSUME NEW q \in Requests, NEW r \in Reservations, ReserveAccept(q, r)
          PROVE  later <= SpendCap[k]
      <3> DEFINE j == request[q].job
                 e == request[q].estimate
      <3>1. j \in Jobs /\ e \in Nat /\ Moves(j, e)
        BY <1>0, <2>2, AcceptMoves
      <3>2. Affordable(j, e)
        BY <2>2 DEF ReserveAccept
      <3> HIDE DEF j, e
      <3>3. later = held + (IF j \in JobsWith(k) THEN e ELSE 0)
        BY <2>1, <3>1 DEF Moves
      <3>4. CASE j \in JobsWith(k) /\ e > 0
        <4>1. KeyOf[j] = k /\ KeyOf[j] # NoKey
          BY <3>4, DistinctNulls DEF JobsWith
        <4>2. e <= KeyAvailable(k)
          BY <3>2, <3>4, <4>1 DEF Affordable
        <4>3. EstimateOf(WithKey(Held, k)) = held
          BY <1>0, HoldSets
        <4>4. e <= SpendCap[k] - KeyCommitted(k) - held /\ KeyCommitted(k) \in Nat
          BY <1>0, <4>2, <4>3, CommittedIsNatural DEF KeyAvailable
        <4> HIDE DEF held, later
        <4> QED BY <2>1, <3>1, <3>3, <3>4, <4>4
      <3>5. CASE ~ (j \in JobsWith(k) /\ e > 0)
        <4> HIDE DEF held, later
        <4> QED BY <2>1, <3>1, <3>3, <3>5
      <3> QED BY <3>4, <3>5
    <2>3. ASSUME NEW j, NEW d \in Nat, Moves(j, 0 - d) PROVE later <= SpendCap[k]
      <3>1. later = held + (IF j \in JobsWith(k) THEN 0 - d ELSE 0)
        BY <2>1, <2>3 DEF Moves
      <3> HIDE DEF held, later
      <3> QED BY <2>1, <3>1
    <2> QED BY <1>0, <2>2, <2>3, LedgerStep
  <1> QED BY <1>1, <1>2 DEF KeyInv

\* For any number of concurrent reserves: a key's jobs in flight never hold
\* more than its cap.
THEOREM KeysStayWithinCap == Spec => []KeyHoldsWithinCap
  <1>1. KeyInv => KeyHoldsWithinCap
    BY HoldSets DEF KeyInv, KeyHoldsWithinCap
  <1> QED BY <1>1, KeyInit, KeyNext, PTL DEF Spec

-----------------------------------------------------------------------------
(* What the reservations of some jobs were charged, on some days of some   *)
(* months.                                                                 *)

Billed(J, D, M) ==
  {r \in Reservations : /\ charge[r].times > 0 /\ reservation[r].job \in J
                        /\ charge[r].day \in D /\ charge[r].month \in M}
BilledSum(J, D, M) == ChargeOf(Billed(J, D, M))

\* A charge is dated, and what was never charged has no amount.
ChargeInv ==
  /\ TypeOK /\ IsFiniteSet(Taken) /\ ChargedOnce
  /\ \A r \in Reservations : /\ charge[r].times = 0 => charge[r].amount = 0
                             /\ charge[r].day <= day /\ charge[r].month <= month

\* The figures of the charges are natural numbers.
LEMMA BilledAre ==
  ASSUME ChargeInv, NEW J, NEW D, NEW M
  PROVE  /\ Figures([r \in Reservations |-> charge[r].amount], Billed(J, D, M))
         /\ BilledSum(J, D, M) \in Nat
  <1> DEFINE f == [r \in Reservations |-> charge[r].amount]
             S == Billed(J, D, M)
  <1>1. S \subseteq Taken /\ S \subseteq Reservations
    BY DEF Billed, Taken, ChargeInv, ChargedOnce
  <1>2. IsFiniteSet(S)
    BY <1>1, FS_Subset DEF ChargeInv
  <1>3. \A r \in S : f[r] \in Nat
    BY <1>1 DEF ChargeInv, TypeOK
  <1> HIDE DEF f, S
  <1>4. Figures(f, S) /\ Agree(f, f, S)
    BY <1>2, <1>3 DEF Figures, Agree
  <1>5. Total(f, S) \in Nat
    BY <1>4, TotalKept
  <1> QED BY <1>4, <1>5 DEF BilledSum, ChargeOf, f, S

\* Nothing charged there, nothing billed.
LEMMA BilledNone ==
  ASSUME NEW J, NEW D, NEW M,
         \A r \in Reservations : charge[r].times > 0 => charge[r].day \notin D \/ charge[r].month \notin M
  PROVE  BilledSum(J, D, M) = 0
  <1>1. Billed(J, D, M) = {}
    BY DEF Billed
  <1> QED BY <1>1, TotalEmpty DEF BilledSum, ChargeOf

\* A step that charges nothing bills nothing.
Uncharged ==
  /\ charge' = charge
  /\ \A r \in Reservations : charge[r].times > 0 => reservation'[r].job = reservation[r].job

\* A step that charges nothing keeps every billed sum.
LEMMA BilledSame ==
  ASSUME Uncharged, NEW J, NEW D, NEW M
  PROVE  BilledSum(J, D, M)' = BilledSum(J, D, M)
  <1> DEFINE f == [r \in Reservations |-> charge[r].amount]
             g == [r \in Reservations |-> charge'[r].amount]
  <1>1. f = g /\ Billed(J, D, M)' = Billed(J, D, M)
    BY DEF Billed, Uncharged
  <1>2. BilledSum(J, D, M) = Total(f, Billed(J, D, M)) /\ BilledSum(J, D, M)' = Total(g, Billed(J, D, M)')
    BY DEF BilledSum, ChargeOf
  <1> HIDE DEF f, g
  <1> QED BY <1>1, <1>2

\* The charge of a reservation, which had none, at today's date.
Charges(r, spend) ==
  /\ charge[r].times = 0 /\ charge[r].amount = 0
  /\ charge' = [charge EXCEPT ![r] =
       [times |-> 1, amount |-> spend, day |-> day, month |-> month]]
  /\ \A x \in Reservations : reservation'[x].job = reservation[x].job

SpendOf(r, a) == IF a = NoAmount THEN reservation[r].estimate ELSE a

\* A reconcile is the first charge of its reservation.
LEMMA ReconcileCharges ==
  ASSUME ChargeInv, NEW r \in Reservations, NEW a \in Amounts \cup {NoAmount}, Reconcile(r, a)
  PROVE  SpendOf(r, a) \in Nat /\ Charges(r, SpendOf(r, a)) /\ reservation[r].job \in Jobs
  <1>1. TypeOK /\ reservation[r].status \in {"held", "swept"}
    BY DEF ChargeInv, Reconcile, Reconcilable
  <1>2. charge[r].times = 0 /\ charge[r].amount = 0 /\ reservation[r].job \in Jobs
    BY <1>1 DEF ChargeInv, ChargedOnce, TypeOK
  <1>3. SpendOf(r, a) \in Nat
    BY <1>1, MoneyIsNatural DEF SpendOf, TypeOK, ReservationRow
  <1>4. charge' = [charge EXCEPT ![r] =
          [times |-> charge[r].times + 1, amount |-> charge[r].amount + SpendOf(r, a),
           day |-> day, month |-> month]]
    BY <1>1 DEF Reconcile, SpendOf, TypeOK
  <1>5. charge[r].times + 1 = 1 /\ charge[r].amount + SpendOf(r, a) = SpendOf(r, a)
    BY <1>2, <1>3
  <1>6. \A x \in Reservations : reservation'[x].job = reservation[x].job
    BY <1>1 DEF Reconcile, SetStatus, TypeOK, ReservationRow
  <1> QED BY <1>2, <1>3, <1>4, <1>5, <1>6 DEF Charges

\* A charge adds to the sums of its job, this day and this month.
LEMMA BilledGains ==
  ASSUME ChargeInv, NEW r \in Reservations, NEW spend \in Nat, Charges(r, spend), NEW J, NEW D, NEW M
  PROVE  BilledSum(J, D, M)' =
           BilledSum(J, D, M) + (IF reservation[r].job \in J /\ day \in D /\ month \in M THEN spend ELSE 0)
  <1> DEFINE f == [x \in Reservations |-> charge[x].amount]
             g == [x \in Reservations |-> charge'[x].amount]
             S == Billed(J, D, M)
             T == Billed(J, D, M)'
             in == reservation[r].job \in J /\ day \in D /\ month \in M
  <1>0. charge \in [Reservations -> [times: Nat, amount: Nat, day: Nat, month: Nat]]
    BY DEF ChargeInv, TypeOK
  <1>1. /\ charge'[r] = [times |-> 1, amount |-> spend, day |-> day, month |-> month]
        /\ \A x \in Reservations : x # r => charge'[x] = charge[x]
        /\ \A x \in Reservations : reservation'[x].job = reservation[x].job
    BY <1>0 DEF Charges
  <1>2. r \notin S /\ S \subseteq Reservations
    BY DEF Billed, Charges
  <1>3. T = IF in THEN S \cup {r} ELSE S
    BY <1>1, <1>2 DEF Billed
  <1>4. Figures(f, S) /\ BilledSum(J, D, M) \in Nat
    BY BilledAre
  <1>5. Agree(f, g, S) /\ g[r] = spend /\ g[r] \in Nat
    BY <1>1, <1>2 DEF Agree
  <1>6. BilledSum(J, D, M) = Total(f, S) /\ BilledSum(J, D, M)' = Total(g, T)
    BY DEF BilledSum, ChargeOf
  <1> HIDE DEF f, g, S, T, in
  <1>7. Total(g, S) = Total(f, S) /\ Total(g, S \cup {r}) = Total(f, S) + g[r]
    <2>1. Total(g, S) = Total(f, S)
      BY <1>4, <1>5, TotalKept
    <2>2. Figures(f, S) /\ Agree(f, g, S) /\ r \notin S /\ g[r] \in Nat
      BY <1>2, <1>4, <1>5
    <2>3. Total(g, S \cup {r}) = Total(f, S) + g[r]
      BY <2>2, TotalGains
    <2> QED BY <2>1, <2>3
  <1> QED BY <1>3, <1>4, <1>5, <1>6, <1>7 DEF in

\* Every step charges one reservation at most; only the calendar moves time.
Advances == /\ day' = day + 1
            /\ month' = month \/ month' = month + 1
            /\ UNCHANGED <<guardrail, balance, reservation, charge>>

\* Nothing is charged at first.
LEMMA ChargeInit == Init => ChargeInv
  <1> SUFFICES ASSUME Init PROVE ChargeInv
    OBVIOUS
  <1>1. ChargedOnce
    BY DEF Init, ChargedOnce, NoReservation, NoCharge
  <1>2. \A r \in Reservations : charge[r].amount = 0 /\ charge[r].day <= day /\ charge[r].month <= month
    BY DEF Init, NoCharge
  <1> QED BY <1>1, <1>2, TypeInit, NoHolds DEF ChargeInv

\* A step reconciles, or charges nothing; only a passing day moves the clock.
LEMMA UnchargedSteps ==
  ASSUME ChargeInv, [Next]_vars
  PROVE  \/ \E r \in Reservations, a \in Amounts \cup {NoAmount} : Reconcile(r, a)
         \/ Uncharged /\ Advances
         \/ Uncharged /\ UNCHANGED <<day, month>>
  <1>0. TypeOK /\ \A r \in Reservations : charge[r].times > 0 => reservation[r].status = "reconciled"
    BY DEF ChargeInv, ChargedOnce, TypeOK
  <1>1. ASSUME NEW q \in Requests, NEW r \in Reservations, ReserveAccept(q, r)
        PROVE  Uncharged /\ UNCHANGED <<day, month>>
    BY <1>0, <1>1 DEF ReserveAccept, Uncharged, TypeOK, history
  <1>2. ASSUME NEW r \in Reservations, Release(r) \/ TtlElapses(r) \/ Sweep(r)
        PROVE  Uncharged /\ UNCHANGED <<day, month>>
    <2>1. \A x \in Reservations : reservation'[x].job = reservation[x].job
      <3>1. \/ \E st \in Status : SetStatus(r, st)
            \/ reservation' = [reservation EXCEPT ![r].expired = TRUE]
        BY <1>2 DEF Release, TtlElapses, Sweep, Status
      <3>2. CASE \E st \in Status : SetStatus(r, st)
        BY <1>0, <3>2 DEF SetStatus, TypeOK, ReservationRow
      <3>3. CASE reservation' = [reservation EXCEPT ![r].expired = TRUE]
        BY <1>0, <3>3 DEF TypeOK, ReservationRow
      <3> QED BY <3>1, <3>2, <3>3
    <2> QED BY <1>2, <2>1 DEF Release, TtlElapses, Sweep, Uncharged, history
  <1>3. ASSUME NEW newMonth \in BOOLEAN, DayPasses(newMonth) PROVE Uncharged /\ Advances
    BY <1>3 DEF DayPasses, Uncharged, Advances, ledger, history
  <1>4. CASE \/ \E q \in Requests, j \in Jobs, e \in Amounts : ReserveBegin(q, j, e)
             \/ \E q \in Requests : ReserveRollback(q)
             \/ \E o \in Owners, d, m \in Limits \cup {NoAmount} : PatchGuardrail(o, d, m)
             \/ \E j \in Jobs, c \in Amounts : WriteUsageLog(j, c)
             \/ UNCHANGED vars
    <2>1. UNCHANGED <<charge, reservation, day, month>>
      BY <1>4 DEF ReserveBegin, ReserveRollback, PatchGuardrail, WriteUsageLog, vars, ledger, history
    <2> QED BY <2>1 DEF Uncharged
  <1> QED BY <1>1, <1>2, <1>3, <1>4 DEF Next

\* Every action keeps the charges dated and single.
LEMMA ChargeNext == ChargeInv /\ [Next]_vars => ChargeInv'
  <1> SUFFICES ASSUME ChargeInv, [Next]_vars PROVE ChargeInv'
    OBVIOUS
  <1>1. TypeOK /\ TypeOK' /\ IsFiniteSet(Taken') /\ ChargedOnce'
    BY TypeNext, LedgerStep, ChargedOnceNext DEF ChargeInv
  <1>2. /\ day \in Nat /\ month \in Nat
        /\ charge \in [Reservations -> [times: Nat, amount: Nat, day: Nat, month: Nat]]
    BY <1>1 DEF TypeOK
  <1>3. ASSUME NEW s \in Reservations
        PROVE  /\ charge'[s].times = 0 => charge'[s].amount = 0
               /\ charge'[s].day <= day' /\ charge'[s].month <= month'
    <2>0. /\ charge[s].times = 0 => charge[s].amount = 0
          /\ charge[s].day <= day /\ charge[s].month <= month
          /\ charge[s].day \in Nat /\ charge[s].month \in Nat
      BY <1>2 DEF ChargeInv
    <2>1. ASSUME NEW r \in Reservations, NEW a \in Amounts \cup {NoAmount}, Reconcile(r, a)
          PROVE  /\ charge'[s].times = 0 => charge'[s].amount = 0
                 /\ charge'[s].day <= day' /\ charge'[s].month <= month'
      <3>1. Charges(r, SpendOf(r, a)) /\ day' = day /\ month' = month
        BY <2>1, ReconcileCharges DEF Reconcile
      <3>2. s # r => charge'[s] = charge[s]
        BY <1>2, <3>1 DEF Charges
      <3>3. charge'[r] = [times |-> 1, amount |-> SpendOf(r, a), day |-> day, month |-> month]
        BY <1>2, <3>1 DEF Charges
      <3> QED BY <1>2, <2>0, <3>1, <3>2, <3>3
    <2>2. CASE Uncharged /\ Advances
      <3>1. charge'[s] = charge[s] /\ day' = day + 1 /\ (month' = month \/ month' = month + 1)
        BY <2>2 DEF Uncharged, Advances
      <3> QED BY <1>2, <2>0, <3>1
    <2>3. CASE Uncharged /\ UNCHANGED <<day, month>>
      BY <2>0, <2>3 DEF Uncharged
    <2> QED BY <2>1, <2>2, <2>3, UnchargedSteps
  <1> QED BY <1>1, <1>3 DEF ChargeInv

-----------------------------------------------------------------------------
(* What a row shows as spent.                                              *)

\* On day d of month m the row shows x for the day and y for the month.
Shows(g, d, m, x, y) ==
  /\ g.dailyWindow <= d /\ g.monthlyWindow <= m
  /\ InWindow(g.dailySpent, g.dailyWindow, d) = x
  /\ InWindow(g.monthlySpent, g.monthlyWindow, m) = y

\* In month m the platform row shows u of its free tier used and c credits.
Pays(b, m, u, c) ==
  /\ b.window <= m /\ b.allowance = FreeTier
  /\ InWindow(b.used, b.window, m) = u /\ b.credits = c

\* The rollover resets what a new window has not spent and keeps the rest.
LEMMA ShowsRolled ==
  ASSUME day \in Nat, month \in Nat, NEW g \in GuardrailRow, NEW x, NEW y, Shows(g, day, month, x, y)
  PROVE  /\ Shows(RolledOver(g), day, month, x, y)
         /\ RolledOver(g).dailySpent = x /\ RolledOver(g).dailyWindow = day
         /\ RolledOver(g).monthlySpent = y /\ RolledOver(g).monthlyWindow = month
  <1>1. Greater(g.dailyWindow, day) = day /\ Greater(g.monthlyWindow, month) = month
    BY DEF Shows, Greater, GuardrailRow
  <1>2. /\ RolledOver(g).dailySpent = x /\ RolledOver(g).dailyWindow = day
        /\ RolledOver(g).monthlySpent = y /\ RolledOver(g).monthlyWindow = month
    BY <1>1 DEF RolledOver, Shows, GuardrailRow
  <1>3. InWindow(x, day, day) = x /\ InWindow(y, month, month) = y
    BY DEF InWindow
  <1> QED BY <1>2, <1>3 DEF Shows

\* Dropping a hold leaves what a row shows as spent.
LEMMA ShowsDropped ==
  ASSUME NEW g \in GuardrailRow, NEW e \in Int, NEW d, NEW m, NEW x, NEW y, Shows(g, d, m, x, y)
  PROVE  Shows(HoldDropped(g, e), d, m, x, y)
  <1>1. /\ HoldDropped(g, e).dailySpent = g.dailySpent /\ HoldDropped(g, e).dailyWindow = g.dailyWindow
        /\ HoldDropped(g, e).monthlySpent = g.monthlySpent
        /\ HoldDropped(g, e).monthlyWindow = g.monthlyWindow
    BY DEF HoldDropped, GuardrailRow
  <1> QED BY <1>1 DEF Shows

\* Recording a spend adds it to the day and to the month.
LEMMA ShowsRecorded ==
  ASSUME day \in Nat, month \in Nat, NEW g \in GuardrailRow, NEW spend \in Nat, NEW hold \in Nat,
         NEW x, NEW y, Shows(g, day, month, x, y)
  PROVE  Shows(SpendRecorded(g, spend, hold), day, month, x + spend, y + spend)
  <1> DEFINE f == RolledOver(g)
             n == SpendRecorded(g, spend, hold)
  <1>1. /\ f \in GuardrailRow /\ f.dailySpent = x /\ f.dailyWindow = day
        /\ f.monthlySpent = y /\ f.monthlyWindow = month
    BY ShowsRolled, RolledOverRow
  <1>2. n = [f EXCEPT !.dailySpent = @ + spend, !.monthlySpent = @ + spend, !.reserved = @ - hold]
    BY DEF SpendRecorded
  <1> HIDE DEF f, n
  <1>3. /\ n.dailySpent = x + spend /\ n.dailyWindow = day
        /\ n.monthlySpent = y + spend /\ n.monthlyWindow = month
    BY <1>1, <1>2 DEF GuardrailRow
  <1>4. InWindow(x + spend, day, day) = x + spend /\ InWindow(y + spend, month, month) = y + spend
    BY DEF InWindow
  <1> QED BY <1>3, <1>4 DEF Shows, n

\* When the day turns the row shows nothing for it, and likewise the month.
LEMMA ShowsLater ==
  ASSUME NEW g \in GuardrailRow, NEW d \in Nat, NEW m \in Nat, NEW x, NEW y, Shows(g, d, m, x, y)
  PROVE  Shows(g, d + 1, m, 0, y) /\ Shows(g, d + 1, m + 1, 0, 0)
  <1>1. /\ g.dailyWindow \in Nat /\ g.monthlyWindow \in Nat
        /\ g.dailyWindow <= d /\ g.monthlyWindow <= m
    BY DEF Shows, GuardrailRow
  <1>2. /\ g.dailyWindow <= d + 1 /\ g.dailyWindow < d + 1
        /\ g.monthlyWindow <= m + 1 /\ g.monthlyWindow < m + 1
    BY <1>1
  <1> QED BY <1>1, <1>2 DEF Shows, InWindow

\* The platform's rollover resets the free tier and keeps the credits.
LEMMA PaysRolled ==
  ASSUME month \in Nat, NEW b \in BalanceRow, NEW u, NEW c, Pays(b, month, u, c)
  PROVE  /\ Pays(PlatformRolledOver(b), month, u, c)
         /\ PlatformRolledOver(b).used = u /\ PlatformRolledOver(b).window = month
  <1>1. Greater(b.window, month) = month
    BY DEF Pays, Greater, BalanceRow
  <1>2. /\ PlatformRolledOver(b).used = u /\ PlatformRolledOver(b).window = month
        /\ PlatformRolledOver(b).allowance = b.allowance /\ PlatformRolledOver(b).credits = b.credits
    BY <1>1 DEF PlatformRolledOver, Pays, BalanceRow
  <1>3. InWindow(u, month, month) = u
    BY DEF InWindow
  <1> QED BY <1>2, <1>3 DEF Pays

\* Dropping a hold leaves the free tier and the credits.
LEMMA PaysDropped ==
  ASSUME NEW b \in BalanceRow, NEW e \in Int, NEW m, NEW u, NEW c, Pays(b, m, u, c)
  PROVE  Pays(HoldDropped(b, e), m, u, c)
  <1>1. /\ HoldDropped(b, e).used = b.used /\ HoldDropped(b, e).window = b.window
        /\ HoldDropped(b, e).allowance = b.allowance /\ HoldDropped(b, e).credits = b.credits
    BY DEF HoldDropped, BalanceRow
  <1> QED BY <1>1 DEF Pays

\* Recording a spend uses the free tier first, the credits for the rest.
LEMMA PaysRecorded ==
  ASSUME month \in Nat, NEW b \in BalanceRow, NEW spend \in Nat, NEW hold \in Nat,
         NEW u, NEW c, Pays(b, month, u, c)
  PROVE  Pays(PlatformRecorded(b, spend, hold), month,
              Lesser(u + spend, FreeTier), c - Greater(u + spend - FreeTier, 0))
  <1> DEFINE f == PlatformRolledOver(b)
             n == PlatformRecorded(b, spend, hold)
             x == Lesser(f.used + spend, f.allowance)
             y == Greater(f.used + spend - f.allowance, 0)
  <1>1. /\ f \in BalanceRow /\ f.used = u /\ f.window = month /\ f.allowance = FreeTier /\ f.credits = c
    BY PaysRolled, PlatformRolledOverRow DEF Pays
  <1>2. n = [f EXCEPT !.used = x, !.credits = @ - y, !.reserved = @ - hold]
    BY DEF PlatformRecorded
  <1>3. x = Lesser(u + spend, FreeTier) /\ y = Greater(u + spend - FreeTier, 0)
    BY <1>1
  <1> HIDE DEF f, n, x, y
  <1>4. n.used = x /\ n.window = month /\ n.allowance = FreeTier /\ n.credits = c - y
    BY <1>1, <1>2 DEF BalanceRow
  <1>5. InWindow(x, month, month) = x
    BY DEF InWindow
  <1> QED BY <1>3, <1>4, <1>5 DEF Pays, n

\* A month later the free tier is whole again, in a row nobody touched too.
LEMMA PaysLater ==
  ASSUME NEW b \in BalanceRow, NEW m \in Nat, NEW u, NEW c, Pays(b, m, u, c)
  PROVE  Pays(b, m + 1, 0, c)
  <1>1. b.window \in Nat /\ b.window <= m
    BY DEF Pays, BalanceRow
  <1>2. b.window <= m + 1 /\ b.window < m + 1
    BY <1>1
  <1> QED BY <1>2 DEF Pays, InWindow

-----------------------------------------------------------------------------
(* The overflow of the free tier, month by month.                          *)

\* What the platform jobs of an owner cost in month m, and the excess of that
\* over the free tier.
PlatformSpend(o, m) == BilledSum(PlatformJobsOf(o), Nat, {m})
Over(x) == Greater(x - FreeTier, 0)
Overflow(o) == Total([m \in 0 .. month |-> Over(PlatformSpend(o, m))], 0 .. month)

\* The excess of each month is a natural number.
LEMMA OverflowFigures ==
  ASSUME ChargeInv, NEW o \in Owners
  PROVE  /\ Figures([m \in 0 .. month |-> Over(PlatformSpend(o, m))], 0 .. month)
         /\ Overflow(o) \in Nat /\ month \in 0 .. month
  <1> DEFINE f == [m \in 0 .. month |-> Over(PlatformSpend(o, m))]
  <1>1. month \in Nat /\ FreeTier \in Nat
    BY Defaults DEF ChargeInv, TypeOK
  <1>2. IsFiniteSet(0 .. month) /\ month \in 0 .. month
    BY <1>1, FS_Interval
  <1>3. ASSUME NEW m \in 0 .. month PROVE f[m] \in Nat
    <2>1. PlatformSpend(o, m) \in Nat
      BY BilledAre DEF PlatformSpend
    <2> QED BY <1>1, <2>1 DEF Over, Greater
  <1> HIDE DEF f
  <1>4. Figures(f, 0 .. month) /\ Agree(f, f, 0 .. month)
    BY <1>2, <1>3 DEF Figures, Agree
  <1>5. Total(f, 0 .. month) \in Nat
    BY <1>4, TotalKept
  <1> QED BY <1>2, <1>4, <1>5 DEF Overflow, f

\* A charge of this month adds to the overflow what it adds to this month's.
LEMMA OverflowGains ==
  ASSUME ChargeInv, month' = month, NEW o \in Owners,
         \A m \in 0 .. month : m # month => PlatformSpend(o, m)' = PlatformSpend(o, m),
         NEW x \in Nat, NEW y \in Nat, NEW n \in Nat, n = month,
         PlatformSpend(o, n) = x, PlatformSpend(o, n)' = y
  PROVE  Overflow(o)' = Overflow(o) + (Over(y) - Over(x))
  <1> DEFINE S == 0 .. n
             f == [m \in S |-> Over(PlatformSpend(o, m))]
             g == [m \in S |-> Over(PlatformSpend(o, m)')]
  <1>1. Overflow(o) = Total(f, S) /\ Overflow(o)' = Total(g, S)
    BY DEF Overflow
  <1>2. Figures(f, S) /\ n \in S
    BY OverflowFigures
  <1>3. f[n] = Over(x) /\ g[n] = Over(y) /\ Over(x) \in Nat /\ Over(y) \in Nat
    BY <1>2, Defaults DEF Over, Greater
  <1>4. Agree(f, g, S \ {n})
    BY DEF Agree
  <1> HIDE DEF f, g, S
  <1>5. Figures(f, S) /\ Agree(f, g, S \ {n}) /\ n \in S /\ g[n] \in Nat
    BY <1>2, <1>3, <1>4
  <1>6. Total(g, S) + f[n] = Total(f, S) + g[n] /\ Total(f, S) \in Nat /\ Total(g, S) \in Nat
    BY <1>5, TotalChanges
  <1> QED BY <1>1, <1>3, <1>6

\* A new month, with nothing charged in it yet, overflows nothing.
LEMMA OverflowLater ==
  ASSUME ChargeInv, Uncharged, NEW o \in Owners, month' = month + 1
  PROVE  Overflow(o)' = Overflow(o)
  <1>0. month \in Nat
    BY DEF ChargeInv, TypeOK
  <1>1. PICK n \in Nat : n = month
    BY <1>0
  <1> DEFINE S == 0 .. n
             T == 0 .. (n + 1)
             f == [m \in S |-> Over(PlatformSpend(o, m))]
             g == [m \in T |-> Over(PlatformSpend(o, m)')]
  <1>2. Overflow(o) = Total(f, S) /\ Overflow(o)' = Total(g, T)
    BY <1>1 DEF Overflow
  <1>3. Figures(f, S)
    BY <1>1, OverflowFigures
  <1>4. \A m \in T : PlatformSpend(o, m)' = PlatformSpend(o, m)
    BY BilledSame DEF PlatformSpend
  <1>5. Agree(f, g, S)
    BY <1>4 DEF Agree
  <1>6. PlatformSpend(o, n + 1) = 0
    <2>1. \A r \in Reservations : charge[r].times > 0 => charge[r].day \notin Nat \/ charge[r].month \notin {n + 1}
      BY <1>1 DEF ChargeInv, TypeOK
    <2> QED BY <2>1, BilledNone DEF PlatformSpend
  <1>7. g[n + 1] = 0
    BY <1>4, <1>6, Defaults DEF Over, Greater
  <1>8. S \cup {n + 1} = T /\ n + 1 \notin S
    OBVIOUS
  <1> HIDE DEF f, g, S, T
  <1>9. Total(g, S \cup {n + 1}) = Total(f, S) + g[n + 1]
    <2>1. Figures(f, S) /\ Agree(f, g, S) /\ n + 1 \notin S /\ g[n + 1] \in Nat
      BY <1>3, <1>5, <1>7, <1>8
    <2> QED BY <2>1, TotalGains
  <1>10. Total(f, S) \in Nat
    BY <1>3, <1>5, TotalKept
  <1>11. Total(g, T) = Total(f, S) + g[n + 1]
    BY <1>8, <1>9
  <1> QED BY <1>2, <1>7, <1>10, <1>11

-----------------------------------------------------------------------------
(* The windows and the credits.                                            *)

SpentToday(o) == BilledSum(JobsOf(o), {day}, Nat)
SpentThisMonth(o) == BilledSum(JobsOf(o), Nat, {month})
FreeTierUsed(o) == Lesser(PlatformSpend(o, month), FreeTier)

\* An owner's rows show the sums of its charges.
WindowInv ==
  /\ ChargeInv
  /\ \A o \in Owners :
       /\ Shows(guardrail[o], day, month, SpentToday(o), SpentThisMonth(o))
       /\ Pays(balance[o], month, FreeTierUsed(o), StartCredits - Overflow(o))

\* What was spent is a natural number.
LEMMA SpentAre ==
  ASSUME ChargeInv, NEW o \in Owners
  PROVE  SpentToday(o) \in Nat /\ SpentThisMonth(o) \in Nat /\ PlatformSpend(o, month) \in Nat
  BY BilledAre DEF SpentToday, SpentThisMonth, PlatformSpend

\* Neither time nor charges: the figures stay.
LEMMA FiguresStay ==
  ASSUME Uncharged, UNCHANGED <<day, month>>, NEW o \in Owners
  PROVE  /\ SpentToday(o)' = SpentToday(o) /\ SpentThisMonth(o)' = SpentThisMonth(o)
         /\ FreeTierUsed(o)' = FreeTierUsed(o) /\ Overflow(o)' = Overflow(o)
  <1>1. UNCHANGED <<day, month, charge>>
    BY DEF Uncharged
  <1>2. \A J, D, M : BilledSum(J, D, M)' = BilledSum(J, D, M)
    BY BilledSame
  <1>3. \A m : PlatformSpend(o, m)' = PlatformSpend(o, m)
    BY <1>2 DEF PlatformSpend
  <1>4. SpentToday(o)' = SpentToday(o)
    <2>1. PICK d : d = day
      OBVIOUS
    <2>2. SpentToday(o)' = BilledSum(JobsOf(o), {d}, Nat)' /\ SpentToday(o) = BilledSum(JobsOf(o), {d}, Nat)
      BY <1>1, <2>1 DEF SpentToday, BilledSum, Billed, ChargeOf
    <2> QED BY <1>2, <2>2
  <1>5. PICK n : n = month
    OBVIOUS
  <1>6. SpentThisMonth(o)' = SpentThisMonth(o)
    <2>1. /\ SpentThisMonth(o)' = BilledSum(JobsOf(o), Nat, {n})'
          /\ SpentThisMonth(o) = BilledSum(JobsOf(o), Nat, {n})
      BY <1>1, <1>5 DEF SpentThisMonth, BilledSum, Billed, ChargeOf
    <2> QED BY <1>2, <2>1
  <1>7. FreeTierUsed(o)' = FreeTierUsed(o)
    <2>1. FreeTierUsed(o)' = Lesser(PlatformSpend(o, n)', FreeTier)
      BY <1>1, <1>5 DEF FreeTierUsed, PlatformSpend, BilledSum, Billed, ChargeOf, Lesser
    <2>2. FreeTierUsed(o) = Lesser(PlatformSpend(o, n), FreeTier)
      BY <1>5 DEF FreeTierUsed
    <2> QED BY <1>3, <2>1, <2>2
  <1>8. Overflow(o)' = Overflow(o)
    BY <1>1, <1>3 DEF Overflow
  <1> QED BY <1>4, <1>6, <1>7, <1>8

\* A charge of spend to a job of the owner enters today's, this month's and,
\* on the platform, the free tier's figures.
LEMMA FiguresGain ==
  ASSUME ChargeInv, UNCHANGED <<day, month>>, NEW r \in Reservations, NEW spend \in Nat,
         Charges(r, spend), NEW o \in Owners
  PROVE  LET mine == reservation[r].job \in JobsOf(o)
             own == reservation[r].job \in PlatformJobsOf(o)
             before == PlatformSpend(o, month)
             after == before + (IF own THEN spend ELSE 0)
         IN  /\ SpentToday(o)' = SpentToday(o) + (IF mine THEN spend ELSE 0)
             /\ SpentThisMonth(o)' = SpentThisMonth(o) + (IF mine THEN spend ELSE 0)
             /\ FreeTierUsed(o)' = Lesser(after, FreeTier)
             /\ Overflow(o)' = Overflow(o) + (Over(after) - Over(before))
  <1> DEFINE mine == reservation[r].job \in JobsOf(o)
             own == reservation[r].job \in PlatformJobsOf(o)
             before == PlatformSpend(o, month)
             after == before + (IF own THEN spend ELSE 0)
  <1>0. day \in Nat /\ month \in Nat /\ before \in Nat /\ after \in Nat
    BY SpentAre DEF ChargeInv, TypeOK
  <1>1. PICK d \in Nat, n \in Nat : d = day /\ n = month
    BY <1>0
  <1>2. \A J, D, M :
          BilledSum(J, D, M)' = BilledSum(J, D, M) +
            (IF reservation[r].job \in J /\ day \in D /\ month \in M THEN spend ELSE 0)
    BY BilledGains
  <1>3. SpentToday(o)' = SpentToday(o) + (IF mine THEN spend ELSE 0)
    <2>1. SpentToday(o)' = BilledSum(JobsOf(o), {d}, Nat)' /\ SpentToday(o) = BilledSum(JobsOf(o), {d}, Nat)
      BY <1>1 DEF SpentToday, BilledSum, Billed, ChargeOf
    <2>2. day \in {d} /\ month \in Nat
      BY <1>0, <1>1
    <2> QED BY <1>2, <2>1, <2>2
  <1>4. SpentThisMonth(o)' = SpentThisMonth(o) + (IF mine THEN spend ELSE 0)
    <2>1. /\ SpentThisMonth(o)' = BilledSum(JobsOf(o), Nat, {n})'
          /\ SpentThisMonth(o) = BilledSum(JobsOf(o), Nat, {n})
      BY <1>1 DEF SpentThisMonth, BilledSum, Billed, ChargeOf
    <2>2. day \in Nat /\ month \in {n}
      BY <1>0, <1>1
    <2> QED BY <1>2, <2>1, <2>2
  <1>5. PlatformSpend(o, n)' = after /\ PlatformSpend(o, n) = before
    <2>1. day \in Nat /\ month \in {n}
      BY <1>0, <1>1
    <2> QED BY <1>1, <1>2, <2>1 DEF PlatformSpend
  <1>6. FreeTierUsed(o)' = Lesser(after, FreeTier)
    <2>1. FreeTierUsed(o)' = Lesser(PlatformSpend(o, n)', FreeTier)
      BY <1>1 DEF FreeTierUsed, PlatformSpend, BilledSum, Billed, ChargeOf, Lesser
    <2> QED BY <1>5, <2>1
  <1>7. \A m \in 0 .. month : m # month => PlatformSpend(o, m)' = PlatformSpend(o, m)
    <2> SUFFICES ASSUME NEW m \in 0 .. month, m # month PROVE PlatformSpend(o, m)' = PlatformSpend(o, m)
      OBVIOUS
    <2>1. month \notin {m} /\ PlatformSpend(o, m) \in Nat
      BY BilledAre DEF PlatformSpend
    <2> QED BY <1>2, <2>1 DEF PlatformSpend
  <1> HIDE DEF after, before
  <1>8. Overflow(o)' = Overflow(o) + (Over(after) - Over(before))
    <2>1. PICK x \in Nat, y \in Nat : x = before /\ y = after
      BY <1>0
    <2>2. n = month /\ PlatformSpend(o, n) = x /\ PlatformSpend(o, n)' = y
      BY <1>1, <1>5, <2>1
    <2>3. Overflow(o)' = Overflow(o) + (Over(y) - Over(x))
      BY <1>7, <2>2, OverflowGains
    <2> QED BY <2>1, <2>3
  <1> QED BY <1>3, <1>4, <1>6, <1>8 DEF after, before

\* When the day turns, what it shows starts from zero.
LEMMA FiguresLater ==
  ASSUME ChargeInv, Uncharged, Advances, NEW o \in Owners
  PROVE  /\ SpentToday(o)' = 0 /\ Overflow(o)' = Overflow(o)
         /\ month' = month => /\ SpentThisMonth(o)' = SpentThisMonth(o)
                              /\ FreeTierUsed(o)' = FreeTierUsed(o)
         /\ month' = month + 1 => SpentThisMonth(o)' = 0 /\ FreeTierUsed(o)' = 0
  <1>0. /\ day \in Nat /\ month \in Nat /\ day' = day + 1 /\ FreeTier \in Nat
        /\ month' = month \/ month' = month + 1
        /\ \A r \in Reservations : /\ charge[r].day \in Nat /\ charge[r].month \in Nat
                                   /\ charge[r].day <= day /\ charge[r].month <= month
    BY Defaults DEF ChargeInv, TypeOK, Advances
  <1>1. PICK d \in Nat, n \in Nat : d = day' /\ n = month'
    BY <1>0
  <1>2. \A J, D, M : BilledSum(J, D, M)' = BilledSum(J, D, M)
    BY BilledSame
  <1>3. SpentToday(o)' = 0
    <2>1. SpentToday(o)' = BilledSum(JobsOf(o), {d}, Nat)'
      BY <1>1 DEF SpentToday, BilledSum, Billed, ChargeOf
    <2>2. \A r \in Reservations : charge[r].times > 0 => charge[r].day \notin {d} \/ charge[r].month \notin Nat
      BY <1>0, <1>1
    <2>3. BilledSum(JobsOf(o), {d}, Nat) = 0
      BY <2>2, BilledNone
    <2> QED BY <1>2, <2>1, <2>3
  <1>4. /\ SpentThisMonth(o)' = BilledSum(JobsOf(o), Nat, {n})
        /\ FreeTierUsed(o)' = Lesser(PlatformSpend(o, n), FreeTier)
    <2>1. SpentThisMonth(o)' = BilledSum(JobsOf(o), Nat, {n})'
      BY <1>1 DEF SpentThisMonth, BilledSum, Billed, ChargeOf
    <2>2. FreeTierUsed(o)' = Lesser(PlatformSpend(o, n)', FreeTier)
      BY <1>1 DEF FreeTierUsed, PlatformSpend, BilledSum, Billed, ChargeOf, Lesser
    <2>3. PlatformSpend(o, n)' = PlatformSpend(o, n)
      BY <1>2 DEF PlatformSpend
    <2> QED BY <1>2, <2>1, <2>2, <2>3
  <1>5. CASE month' = month
    <2>1. n = month /\ month # month + 1
      BY <1>0, <1>1, <1>5
    <2>2. \A m : PlatformSpend(o, m)' = PlatformSpend(o, m)
      BY <1>2 DEF PlatformSpend
    <2>3. Overflow(o)' = Overflow(o)
      BY <1>5, <2>2 DEF Overflow
    <2>4. SpentThisMonth(o)' = SpentThisMonth(o) /\ FreeTierUsed(o)' = FreeTierUsed(o)
      BY <1>4, <2>1 DEF SpentThisMonth, FreeTierUsed
    <2> QED BY <1>3, <1>5, <2>1, <2>3, <2>4
  <1>6. CASE month' = month + 1
    <2>1. n = month + 1 /\ month # month + 1
      BY <1>0, <1>1, <1>6
    <2>2. \A r \in Reservations : charge[r].times > 0 => charge[r].day \notin Nat \/ charge[r].month \notin {n}
      BY <1>0, <2>1
    <2>3. BilledSum(JobsOf(o), Nat, {n}) = 0 /\ PlatformSpend(o, n) = 0
      BY <2>2, BilledNone DEF PlatformSpend
    <2>4. Lesser(0, FreeTier) = 0
      BY <1>0 DEF Lesser
    <2>5. Overflow(o)' = Overflow(o)
      BY <1>6, OverflowLater
    <2> QED BY <1>3, <1>4, <1>6, <2>1, <2>3, <2>4, <2>5
  <1> QED BY <1>0, <1>5, <1>6

\* A step without charges keeps the invariant if the rows it writes show what
\* they showed.
LEMMA RowsStay ==
  ASSUME WindowInv, [Next]_vars, Uncharged, UNCHANGED <<day, month>>,
         \A o \in Owners :
           /\ Shows(guardrail'[o], day, month, SpentToday(o), SpentThisMonth(o))
           /\ Pays(balance'[o], month, FreeTierUsed(o), StartCredits - Overflow(o))
  PROVE  WindowInv'
  <1>1. ChargeInv'
    BY ChargeNext DEF WindowInv
  <1>2. ASSUME NEW o \in Owners
        PROVE  /\ Shows(guardrail[o], day, month, SpentToday(o), SpentThisMonth(o))'
               /\ Pays(balance[o], month, FreeTierUsed(o), StartCredits - Overflow(o))'
    <2>1. /\ SpentToday(o)' = SpentToday(o) /\ SpentThisMonth(o)' = SpentThisMonth(o)
          /\ FreeTierUsed(o)' = FreeTierUsed(o) /\ Overflow(o)' = Overflow(o)
      BY FiguresStay
    <2>2. /\ Shows(guardrail'[o], day, month, SpentToday(o), SpentThisMonth(o))
          /\ Pays(balance'[o], month, FreeTierUsed(o), StartCredits - Overflow(o))
      OBVIOUS
    <2> QED BY <2>1, <2>2
  <1> QED BY <1>1, <1>2 DEF WindowInv

\* What the invariant says of one owner's rows.
LEMMA RowsAre ==
  ASSUME WindowInv, NEW o \in Owners
  PROVE  /\ ChargeInv /\ TypeOK /\ day \in Nat /\ month \in Nat
         /\ guardrail[o] \in GuardrailRow /\ balance[o] \in BalanceRow
         /\ Shows(guardrail[o], day, month, SpentToday(o), SpentThisMonth(o))
         /\ Pays(balance[o], month, FreeTierUsed(o), StartCredits - Overflow(o))
  BY DEF WindowInv, ChargeInv, TypeOK

\* An accepted reserve rolls both rows over.
LEMMA WindowAccept ==
  ASSUME WindowInv, [Next]_vars, NEW q \in Requests, NEW r \in Reservations, ReserveAccept(q, r),
         Uncharged
  PROVE  WindowInv'
  <1> DEFINE e == request[q].estimate
             u == OwnerOf[request[q].job]
  <1>1. TypeOK /\ -e \in Int
    BY DEF WindowInv, ChargeInv, TypeOK, ReserveAccept
  <1>2. UNCHANGED <<day, month>>
    BY DEF ReserveAccept
  <1>3. ASSUME NEW o \in Owners
        PROVE  /\ Shows(guardrail'[o], day, month, SpentToday(o), SpentThisMonth(o))
               /\ Pays(balance'[o], month, FreeTierUsed(o), StartCredits - Overflow(o))
    <2>1. /\ day \in Nat /\ month \in Nat
          /\ guardrail[o] \in GuardrailRow /\ balance[o] \in BalanceRow
          /\ Shows(guardrail[o], day, month, SpentToday(o), SpentThisMonth(o))
          /\ Pays(balance[o], month, FreeTierUsed(o), StartCredits - Overflow(o))
      BY RowsAre
    <2>2. guardrail'[o] = IF o = u THEN HoldDropped(RolledOver(guardrail[o]), -e) ELSE guardrail[o]
      BY <1>1 DEF ReserveAccept, TypeOK
    <2>3. balance'[o] = balance[o] \/ balance'[o] = HoldDropped(PlatformRolledOver(balance[o]), -e)
      BY <1>1 DEF ReserveAccept, TypeOK
    <2> HIDE DEF e, u
    <2>4. /\ RolledOver(guardrail[o]) \in GuardrailRow
          /\ Shows(RolledOver(guardrail[o]), day, month, SpentToday(o), SpentThisMonth(o))
      BY <2>1, ShowsRolled, RolledOverRow
    <2>5. Shows(HoldDropped(RolledOver(guardrail[o]), -e), day, month, SpentToday(o), SpentThisMonth(o))
      BY <1>1, <2>4, ShowsDropped
    <2>6. /\ PlatformRolledOver(balance[o]) \in BalanceRow
          /\ Pays(PlatformRolledOver(balance[o]), month, FreeTierUsed(o), StartCredits - Overflow(o))
      BY <2>1, PaysRolled, PlatformRolledOverRow
    <2>7. Pays(HoldDropped(PlatformRolledOver(balance[o]), -e), month, FreeTierUsed(o),
               StartCredits - Overflow(o))
      BY <1>1, <2>6, PaysDropped
    <2> QED BY <2>1, <2>2, <2>3, <2>5, <2>7
  <1> QED BY <1>2, <1>3, RowsStay

\* A released or swept hold spends nothing.
LEMMA WindowReleased ==
  ASSUME WindowInv, [Next]_vars, NEW r \in Reservations, HoldReleased(r),
         Uncharged, UNCHANGED <<day, month>>
  PROVE  WindowInv'
  <1> DEFINE e == reservation[r].estimate
             u == OwnerOf[reservation[r].job]
  <1>1. TypeOK /\ e \in Int
    BY DEF WindowInv, ChargeInv, TypeOK, ReservationRow
  <1>2. ASSUME NEW o \in Owners
        PROVE  /\ Shows(guardrail'[o], day, month, SpentToday(o), SpentThisMonth(o))
               /\ Pays(balance'[o], month, FreeTierUsed(o), StartCredits - Overflow(o))
    <2>1. /\ guardrail[o] \in GuardrailRow /\ balance[o] \in BalanceRow
          /\ Shows(guardrail[o], day, month, SpentToday(o), SpentThisMonth(o))
          /\ Pays(balance[o], month, FreeTierUsed(o), StartCredits - Overflow(o))
      BY RowsAre
    <2>2. guardrail'[o] = guardrail[o] \/ guardrail'[o] = HoldDropped(guardrail[o], e)
      BY <1>1 DEF HoldReleased, TypeOK
    <2>3. balance'[o] = balance[o] \/ balance'[o] = HoldDropped(balance[o], e)
      BY <1>1 DEF HoldReleased, PlatformUpdate, TypeOK
    <2> HIDE DEF e, u
    <2>4. Shows(HoldDropped(guardrail[o], e), day, month, SpentToday(o), SpentThisMonth(o))
      BY <1>1, <2>1, ShowsDropped
    <2>5. Pays(HoldDropped(balance[o], e), month, FreeTierUsed(o), StartCredits - Overflow(o))
      BY <1>1, <2>1, PaysDropped
    <2> QED BY <2>1, <2>2, <2>3, <2>4, <2>5
  <1> QED BY <1>2, RowsStay

\* New limits are not spend.
LEMMA WindowPatch ==
  ASSUME WindowInv, [Next]_vars, NEW u \in Owners, NEW d \in Limits \cup {NoAmount},
         NEW m \in Limits \cup {NoAmount}, PatchGuardrail(u, d, m)
  PROVE  WindowInv'
  <1>1. TypeOK /\ UNCHANGED <<day, month, balance, charge, reservation>>
    BY DEF WindowInv, ChargeInv, PatchGuardrail
  <1>2. Uncharged
    BY <1>1 DEF Uncharged
  <1>3. ASSUME NEW o \in Owners
        PROVE  /\ Shows(guardrail'[o], day, month, SpentToday(o), SpentThisMonth(o))
               /\ Pays(balance'[o], month, FreeTierUsed(o), StartCredits - Overflow(o))
    <2>1. /\ Shows(guardrail[o], day, month, SpentToday(o), SpentThisMonth(o))
          /\ Pays(balance[o], month, FreeTierUsed(o), StartCredits - Overflow(o))
      BY RowsAre
    <2>2. /\ guardrail'[o].dailySpent = guardrail[o].dailySpent
          /\ guardrail'[o].dailyWindow = guardrail[o].dailyWindow
          /\ guardrail'[o].monthlySpent = guardrail[o].monthlySpent
          /\ guardrail'[o].monthlyWindow = guardrail[o].monthlyWindow
      BY <1>1 DEF PatchGuardrail, TypeOK, GuardrailRow
    <2> QED BY <1>1, <2>1, <2>2 DEF Shows
  <1> QED BY <1>1, <1>2, <1>3, RowsStay

\* The free tier first, the credits for the rest: in one settlement or two.
LEMMA FreeTierFirst ==
  ASSUME NEW p \in Nat, NEW s \in Nat
  PROVE  /\ Lesser(Lesser(p, FreeTier) + s, FreeTier) = Lesser(p + s, FreeTier)
         /\ Greater(Lesser(p, FreeTier) + s - FreeTier, 0) = Over(p + s) - Over(p)
         /\ Over(p) \in Nat /\ Over(p + s) \in Nat
  BY Defaults DEF Lesser, Greater, Over

\* A reconcile adds its spend to its owner's rows.
LEMMA WindowReconcile ==
  ASSUME WindowInv, [Next]_vars, NEW r \in Reservations, NEW a \in Amounts \cup {NoAmount},
         Reconcile(r, a)
  PROVE  WindowInv'
  <1> DEFINE j == reservation[r].job
             spend == SpendOf(r, a)
             hold == HoldToDrop(r)
  <1>1. ChargeInv /\ TypeOK /\ ChargeInv' /\ UNCHANGED <<day, month>>
    BY ChargeNext DEF WindowInv, ChargeInv, Reconcile
  <1>2. spend \in Nat /\ Charges(r, spend) /\ j \in Jobs
    BY <1>1, ReconcileCharges
  <1>3. hold \in Nat
    BY <1>1 DEF HoldToDrop, TypeOK, ReservationRow
  <1>4. /\ guardrail' = [guardrail EXCEPT ![OwnerOf[j]] = SpendRecorded(guardrail[OwnerOf[j]], spend, hold)]
        /\ balance' = IF SourceOf[j] = "platform_model"
                      THEN [balance EXCEPT ![OwnerOf[j]] = PlatformRecorded(balance[OwnerOf[j]], spend, hold)]
                      ELSE balance
    BY DEF Reconcile, PlatformUpdate, SpendOf
  <1>5. ASSUME NEW o \in Owners
        PROVE  /\ Shows(guardrail[o], day, month, SpentToday(o), SpentThisMonth(o))'
               /\ Pays(balance[o], month, FreeTierUsed(o), StartCredits - Overflow(o))'
    <2> DEFINE before == PlatformSpend(o, month)
               after == before + (IF j \in PlatformJobsOf(o) THEN spend ELSE 0)
    <2>1. /\ day \in Nat /\ month \in Nat
          /\ guardrail[o] \in GuardrailRow /\ balance[o] \in BalanceRow
          /\ Shows(guardrail[o], day, month, SpentToday(o), SpentThisMonth(o))
          /\ Pays(balance[o], month, FreeTierUsed(o), StartCredits - Overflow(o))
      BY RowsAre
    <2>2. /\ SpentToday(o) \in Nat /\ SpentThisMonth(o) \in Nat /\ before \in Nat
          /\ Overflow(o) \in Nat /\ StartCredits \in Nat
      BY <1>1, SpentAre, OverflowFigures, Defaults
    <2>3. /\ SpentToday(o)' = SpentToday(o) + (IF j \in JobsOf(o) THEN spend ELSE 0)
          /\ SpentThisMonth(o)' = SpentThisMonth(o) + (IF j \in JobsOf(o) THEN spend ELSE 0)
          /\ FreeTierUsed(o)' = Lesser(after, FreeTier)
          /\ Overflow(o)' = Overflow(o) + (Over(after) - Over(before))
      BY <1>1, <1>2, FiguresGain
    <2>4. FreeTierUsed(o) = Lesser(before, FreeTier)
      BY DEF FreeTierUsed
    <2>5. j \in JobsOf(o) <=> o = OwnerOf[j]
      BY <1>2 DEF JobsOf
    <2>6. j \in PlatformJobsOf(o) <=> o = OwnerOf[j] /\ SourceOf[j] = "platform_model"
      BY <2>5 DEF PlatformJobsOf
    <2>7. guardrail'[o] = IF j \in JobsOf(o) THEN SpendRecorded(guardrail[o], spend, hold) ELSE guardrail[o]
      BY <1>1, <1>4, <2>5 DEF TypeOK
    <2>8. balance'[o] = IF j \in PlatformJobsOf(o) THEN PlatformRecorded(balance[o], spend, hold) ELSE balance[o]
      BY <1>1, <1>4, <2>6 DEF TypeOK
    <2> HIDE DEF before, spend, hold, j
    <2>9. Shows(guardrail'[o], day, month, SpentToday(o)', SpentThisMonth(o)')
      <3>1. Shows(SpendRecorded(guardrail[o], spend, hold), day, month,
                  SpentToday(o) + spend, SpentThisMonth(o) + spend)
        BY <1>2, <1>3, <2>1, ShowsRecorded
      <3>2. CASE j \in JobsOf(o)
        BY <2>3, <2>7, <3>1, <3>2
      <3>3. CASE j \notin JobsOf(o)
        <4>1. SpentToday(o)' = SpentToday(o) /\ SpentThisMonth(o)' = SpentThisMonth(o)
          BY <2>2, <2>3, <3>3
        <4> QED BY <2>1, <2>7, <3>3, <4>1
      <3> QED BY <3>2, <3>3
    <2>10. Pays(balance'[o], month, FreeTierUsed(o)', StartCredits - Overflow(o)')
      <3>1. CASE j \in PlatformJobsOf(o)
        <4> DEFINE c == StartCredits - Overflow(o)
        <4>1. after = before + spend
          BY <3>1
        <4>2. Pays(balance'[o], month, Lesser(FreeTierUsed(o) + spend, FreeTier),
                   c - Greater(FreeTierUsed(o) + spend - FreeTier, 0))
          BY <1>2, <1>3, <2>1, <2>8, <3>1, PaysRecorded
        <4>3. /\ Lesser(FreeTierUsed(o) + spend, FreeTier) = Lesser(after, FreeTier)
              /\ Greater(FreeTierUsed(o) + spend - FreeTier, 0) = Over(after) - Over(before)
              /\ Over(before) \in Nat /\ Over(after) \in Nat
          <5>1. before \in Nat /\ spend \in Nat
            BY <1>2, <2>2
          <5>2. /\ Lesser(Lesser(before, FreeTier) + spend, FreeTier) = Lesser(before + spend, FreeTier)
                /\ Greater(Lesser(before, FreeTier) + spend - FreeTier, 0) = Over(before + spend) - Over(before)
                /\ Over(before) \in Nat /\ Over(before + spend) \in Nat
            BY <5>1, FreeTierFirst
          <5> HIDE DEF after, c
          <5> QED BY <2>4, <4>1, <5>2
        <4> HIDE DEF after
        <4>4. c - (Over(after) - Over(before)) = StartCredits - Overflow(o)'
          BY <2>2, <2>3, <4>3
        <4> HIDE DEF c
        <4> QED BY <2>3, <4>2, <4>3, <4>4
      <3>2. CASE j \notin PlatformJobsOf(o)
        <4>1. after = before
          BY <2>2, <3>2
        <4>2. Over(before) \in Nat
          BY <2>2, Defaults DEF Over, Greater
        <4>3. FreeTierUsed(o)' = FreeTierUsed(o) /\ Overflow(o)' = Overflow(o)
          BY <2>2, <2>3, <2>4, <4>1, <4>2
        <4> QED BY <2>1, <2>8, <3>2, <4>3
      <3> QED BY <3>1, <3>2
    <2> QED BY <1>1, <2>9, <2>10
  <1> QED BY <1>1, <1>5 DEF WindowInv

\* A day passes: rows nobody touches show their new windows as empty.
LEMMA WindowLater ==
  ASSUME WindowInv, [Next]_vars, Uncharged, Advances
  PROVE  WindowInv'
  <1>1. ChargeInv /\ ChargeInv'
    BY ChargeNext DEF WindowInv
  <1>2. ASSUME NEW o \in Owners
        PROVE  /\ Shows(guardrail[o], day, month, SpentToday(o), SpentThisMonth(o))'
               /\ Pays(balance[o], month, FreeTierUsed(o), StartCredits - Overflow(o))'
    <2>1. /\ day \in Nat /\ month \in Nat
          /\ guardrail[o] \in GuardrailRow /\ balance[o] \in BalanceRow
          /\ Shows(guardrail[o], day, month, SpentToday(o), SpentThisMonth(o))
          /\ Pays(balance[o], month, FreeTierUsed(o), StartCredits - Overflow(o))
      BY RowsAre
    <2>2. /\ guardrail' = guardrail /\ balance' = balance /\ day' = day + 1
          /\ month' = month \/ month' = month + 1
      BY DEF Advances
    <2>3. /\ Shows(guardrail[o], day + 1, month, 0, SpentThisMonth(o))
          /\ Shows(guardrail[o], day + 1, month + 1, 0, 0)
          /\ Pays(balance[o], month + 1, 0, StartCredits - Overflow(o))
      BY <2>1, ShowsLater, PaysLater
    <2>4. /\ SpentToday(o)' = 0 /\ Overflow(o)' = Overflow(o)
          /\ month' = month => /\ SpentThisMonth(o)' = SpentThisMonth(o)
                               /\ FreeTierUsed(o)' = FreeTierUsed(o)
          /\ month' = month + 1 => SpentThisMonth(o)' = 0 /\ FreeTierUsed(o)' = 0
      BY <1>1, FiguresLater
    <2>5. CASE month' = month
      BY <2>1, <2>2, <2>3, <2>4, <2>5
    <2>6. CASE month' = month + 1
      BY <2>2, <2>3, <2>4, <2>6
    <2> QED BY <2>2, <2>5, <2>6
  <1> QED BY <1>1, <1>2 DEF WindowInv

\* Nothing spent, all credits there.
LEMMA WindowInit == Init => WindowInv
  <1> SUFFICES ASSUME Init PROVE WindowInv
    OBVIOUS
  <1>1. ChargeInv
    BY ChargeInit
  <1>2. ASSUME NEW J, NEW D, NEW M PROVE BilledSum(J, D, M) = 0
    <2>1. \A r \in Reservations : charge[r].times > 0 => charge[r].day \notin D \/ charge[r].month \notin M
      BY DEF Init, NoCharge
    <2> QED BY <2>1, BilledNone
  <1>3. ASSUME NEW o \in Owners
        PROVE  /\ Shows(guardrail[o], day, month, SpentToday(o), SpentThisMonth(o))
               /\ Pays(balance[o], month, FreeTierUsed(o), StartCredits - Overflow(o))
    <2>1. day = 0 /\ month = 0 /\ FreeTier \in Nat /\ StartCredits \in Nat
      BY Defaults DEF Init
    <2>2. SpentToday(o) = 0 /\ SpentThisMonth(o) = 0 /\ \A m : PlatformSpend(o, m) = 0
      BY <1>2 DEF SpentToday, SpentThisMonth, PlatformSpend
    <2>3. FreeTierUsed(o) = 0 /\ Over(0) = 0
      BY <2>1, <2>2 DEF FreeTierUsed, Lesser, Over, Greater
    <2>4. Overflow(o) = 0
      <3> DEFINE f == [m \in 0 .. 0 |-> 0]
      <3>1. Overflow(o) = Total(f, 0 .. 0)
        BY <2>1, <2>2, <2>3 DEF Overflow
      <3>2. 0 .. 0 = {} \cup {0} /\ 0 \notin {} /\ f[0] = 0
        OBVIOUS
      <3> HIDE DEF f
      <3>3. Figures(f, {}) /\ Agree(f, f, {}) /\ 0 \notin {} /\ f[0] \in Nat
        BY <3>2, FS_EmptySet DEF Figures, Agree
      <3>4. Total(f, {} \cup {0}) = Total(f, {}) + f[0]
        BY <3>3, TotalGains
      <3> QED BY <3>1, <3>2, <3>4, TotalEmpty
    <2>5. /\ guardrail[o] = [dailyLimit |-> DefaultDaily, monthlyLimit |-> DefaultMonthly,
                             dailySpent |-> 0, monthlySpent |-> 0, reserved |-> 0,
                             dailyWindow |-> 0, monthlyWindow |-> 0]
          /\ balance[o] = [allowance |-> FreeTier, used |-> 0, credits |-> StartCredits,
                           reserved |-> 0, window |-> 0]
      BY DEF Init
    <2> QED BY <2>1, <2>2, <2>3, <2>4, <2>5 DEF Shows, Pays, InWindow
  <1> QED BY <1>1, <1>3 DEF WindowInv

\* Every action keeps the rows equal to the charges.
LEMMA WindowNext == WindowInv /\ [Next]_vars => WindowInv'
  <1> SUFFICES ASSUME WindowInv, [Next]_vars PROVE WindowInv'
    OBVIOUS
  <1>0. ChargeInv
    BY DEF WindowInv
  <1>1. CASE \E r \in Reservations, a \in Amounts \cup {NoAmount} : Reconcile(r, a)
    BY <1>1, WindowReconcile
  <1>2. CASE Uncharged /\ Advances
    BY <1>2, WindowLater
  <1>3. ASSUME Uncharged, UNCHANGED <<day, month>> PROVE WindowInv'
    <2>1. ASSUME NEW q \in Requests, NEW r \in Reservations, ReserveAccept(q, r) PROVE WindowInv'
      BY <1>3, <2>1, WindowAccept
    <2>2. ASSUME NEW r \in Reservations, Release(r) \/ Sweep(r) PROVE WindowInv'
      <3>1. HoldReleased(r)
        BY <2>2 DEF Release, Sweep
      <3> QED BY <1>3, <3>1, WindowReleased
    <2>3. ASSUME NEW o \in Owners, NEW d \in Limits \cup {NoAmount}, NEW m \in Limits \cup {NoAmount},
                 PatchGuardrail(o, d, m)
          PROVE  WindowInv'
      BY <2>3, WindowPatch
    <2>4. ASSUME UNCHANGED <<guardrail, balance>> PROVE WindowInv'
      <3>1. \A o \in Owners :
              /\ Shows(guardrail'[o], day, month, SpentToday(o), SpentThisMonth(o))
              /\ Pays(balance'[o], month, FreeTierUsed(o), StartCredits - Overflow(o))
        BY <2>4, RowsAre
      <3> QED BY <1>3, <3>1, RowsStay
    <2>5. CASE \/ \E q \in Requests, j \in Jobs, e \in Amounts : ReserveBegin(q, j, e)
               \/ \E q \in Requests : ReserveRollback(q)
               \/ \E r \in Reservations : TtlElapses(r)
               \/ \E j \in Jobs, c \in Amounts : WriteUsageLog(j, c)
               \/ \E newMonth \in BOOLEAN : DayPasses(newMonth)
               \/ UNCHANGED vars
      BY <2>4, <2>5
      DEF ReserveBegin, ReserveRollback, TtlElapses, WriteUsageLog, DayPasses, vars, ledger
    <2>6. CASE \E r \in Reservations : Release(r) \/ Sweep(r)
      BY <2>2, <2>6
    <2>7. CASE \E o \in Owners, d, m \in Limits \cup {NoAmount} : PatchGuardrail(o, d, m)
      BY <2>3, <2>7
    <2>8. CASE \E r \in Reservations, a \in Amounts \cup {NoAmount} : Reconcile(r, a)
      BY <2>8, WindowReconcile
    <2> QED BY <2>1, <2>5, <2>6, <2>7, <2>8 DEF Next
  <1> QED BY <1>0, <1>1, <1>2, <1>3, UnchargedSteps

\* The billed reservations of an owner, as the properties name them.
LEMMA ChargedSets ==
  ASSUME ChargeInv, NEW o \in Owners
  PROVE  /\ ChargeOf({r \in ChargedTo(o) : charge[r].day = day}) = SpentToday(o)
         /\ ChargeOf({r \in ChargedTo(o) : charge[r].month = month}) = SpentThisMonth(o)
         /\ \A m : ChargeOf({r \in OnPlatform(ChargedTo(o)) : charge[r].month = m}) = PlatformSpend(o, m)
  <1>1. \A r \in Reservations : /\ charge[r].times > 0 => reservation[r].job \in Jobs
                                /\ charge[r].day \in Nat /\ charge[r].month \in Nat
    BY DEF ChargeInv, ChargedOnce, TypeOK
  <1>2. {r \in ChargedTo(o) : charge[r].day = day} = Billed(JobsOf(o), {day}, Nat)
    BY <1>1 DEF ChargedTo, Billed, JobsOf
  <1>3. {r \in ChargedTo(o) : charge[r].month = month} = Billed(JobsOf(o), Nat, {month})
    BY <1>1 DEF ChargedTo, Billed, JobsOf
  <1>4. ASSUME NEW m
        PROVE  {r \in OnPlatform(ChargedTo(o)) : charge[r].month = m} = Billed(PlatformJobsOf(o), Nat, {m})
    BY <1>1 DEF ChargedTo, OnPlatform, Billed, JobsOf, PlatformJobsOf
  <1> QED BY <1>2, <1>3, <1>4 DEF SpentToday, SpentThisMonth, PlatformSpend, BilledSum

\* Whichever handler touched an owner's row last, and however stale its windows
\* are, what it shows is what was reconciled this day and this month.
THEOREM WindowsAreCharges == Spec => []WindowsMatchCharges
  <1>1. WindowInv => WindowsMatchCharges
    BY ChargedSets DEF WindowInv, Shows, WindowsMatchCharges, DailySpentShown, MonthlySpentShown
  <1> QED BY <1>1, WindowInit, WindowNext, PTL DEF Spec

\* In whatever order the reservations of however many months settle, the
\* credits pay each month's excess over its free tier and nothing else.
THEOREM CreditsPayExactly == Spec => []CreditsPayTheOverflow
  <1>1. WindowInv => CreditsPayTheOverflow
    <2> SUFFICES ASSUME WindowInv, NEW o \in Owners
                 PROVE  LET spentIn(m) == ChargeOf({r \in OnPlatform(ChargedTo(o)) : charge[r].month = m})
                        IN  balance[o].credits = StartCredits -
                              Total([m \in 0 .. month |-> Greater(spentIn(m) - FreeTier, 0)], 0 .. month)
      BY DEF CreditsPayTheOverflow
    <2> DEFINE spentIn(m) == ChargeOf({r \in OnPlatform(ChargedTo(o)) : charge[r].month = m})
    <2>1. \A m : spentIn(m) = PlatformSpend(o, m)
      BY ChargedSets DEF WindowInv
    <2>2. balance[o].credits = StartCredits - Overflow(o)
      BY DEF WindowInv, Pays
    <2> HIDE DEF spentIn
    <2>3. Overflow(o) = Total([m \in 0 .. month |-> Greater(spentIn(m) - FreeTier, 0)], 0 .. month)
      BY <2>1 DEF Overflow, Over
    <2> QED BY <2>2, <2>3 DEF spentIn
  <1> QED BY <1>1, WindowInit, WindowNext, PTL DEF Spec

-----------------------------------------------------------------------------
(* The guardrail implements an account: each action is, in what a reader   *)
(* sees, one step of SpendAccount or none.                                 *)

\* The account's sums are the guardrail's.
LEMMA AccountTotal == ASSUME NEW f, NEW S PROVE Account!Total(f, S) = Total(f, S)
  BY DEF Account!Total, Account!MapThenSumSet, Account!MapThenFoldSet,
         Total, MapThenSumSet, MapThenFoldSet

\* The account's open holds are the held rows.
LEMMA AccountHolds == ASSUME NEW J PROVE Account!HeldOf(J) = HoldsOf(J)
  <1> DEFINE f == [r \in Reservations |-> reservation[r].estimate]
             g == [r \in Reservations |-> HoldShown[r].estimate]
             S == {r \in Reservations : HoldShown[r].status = "held" /\ HoldShown[r].job \in J}
  <1>1. f = g /\ S = Chosen(J)
    BY DEF HoldShown, Chosen, Held
  <1>2. Account!HeldOf(J) = Account!Total(g, S) /\ HoldsOf(J) = Total(f, Chosen(J))
    BY DEF Account!HeldOf, HoldsOf, EstimateOf
  <1> HIDE DEF f, g, S
  <1> QED BY <1>1, <1>2, AccountTotal

\* A reserve call in flight carries an estimate; a usage row is not of a month
\* to come.
Asked == \A q \in Requests : request[q] # NoRequest => request[q].estimate \in Amounts
Dated == \A j \in Jobs : usageLog[j].month <= month

AccountInv == ReservedInv /\ WindowInv /\ KeyInv /\ Asked /\ Dated

\* No calls in flight and no usage rows.
LEMMA AccountInvInit == Init => AccountInv
  <1> SUFFICES ASSUME Init PROVE AccountInv
    OBVIOUS
  <1>1. Asked /\ Dated
    BY DEF Init, Asked, Dated, NoLog
  <1> QED BY <1>1, ReservedInit, WindowInit, KeyInit DEF AccountInv

\* Every action keeps them.
LEMMA AccountInvNext == AccountInv /\ [Next]_vars => AccountInv'
  <1> SUFFICES ASSUME AccountInv, [Next]_vars PROVE AccountInv'
    OBVIOUS
  <1>0. TypeOK /\ Asked /\ Dated
    BY DEF AccountInv, KeyInv
  <1>1. Asked'
    <2>1. ASSUME NEW p \in Requests, NEW j \in Jobs, NEW e \in Amounts, ReserveBegin(p, j, e) PROVE Asked'
      BY <1>0, <2>1 DEF ReserveBegin, Asked, TypeOK
    <2>2. ASSUME NEW p \in Requests, request' = [request EXCEPT ![p] = NoRequest] PROVE Asked'
      BY <1>0, <2>2 DEF Asked, TypeOK
    <2>3. ASSUME UNCHANGED request PROVE Asked'
      BY <1>0, <2>3 DEF Asked
    <2>4. CASE \E p \in Requests, r \in Reservations : ReserveAccept(p, r) \/ ReserveRollback(p)
      BY <2>2, <2>4 DEF ReserveAccept, ReserveRollback
    <2>5. \/ \E p \in Requests, j \in Jobs, e \in Amounts : ReserveBegin(p, j, e)
          \/ \E p \in Requests, r \in Reservations : ReserveAccept(p, r)
          \/ \E p \in Requests : ReserveRollback(p)
          \/ UNCHANGED request
      BY DEF Next, vars, Reconcile, Release, TtlElapses, Sweep, PatchGuardrail, WriteUsageLog, DayPasses
    <2>6. CASE \E p \in Requests : ReserveRollback(p)
      BY <2>2, <2>6 DEF ReserveRollback
    <2> QED BY <2>1, <2>3, <2>4, <2>5, <2>6
  <1>2. Dated'
    <2>0. month \in Nat /\ \A j \in Jobs : usageLog[j].month \in Nat /\ usageLog[j].month <= month
      BY <1>0 DEF TypeOK, Dated
    <2>1. ASSUME NEW j \in Jobs, NEW c \in Amounts, WriteUsageLog(j, c) PROVE Dated'
      BY <1>0, <2>0, <2>1 DEF WriteUsageLog, Dated, TypeOK
    <2>2. ASSUME UNCHANGED usageLog, month' = month \/ month' = month + 1 PROVE Dated'
      BY <2>0, <2>2 DEF Dated
    <2>3. \/ \E j \in Jobs, c \in Amounts : WriteUsageLog(j, c)
          \/ UNCHANGED usageLog /\ (month' = month \/ month' = month + 1)
      BY DEF Next, vars, ReserveBegin, ReserveAccept, ReserveRollback, Reconcile, Release, TtlElapses,
             Sweep, PatchGuardrail, DayPasses
    <2> QED BY <2>1, <2>2, <2>3
  <1> QED BY <1>1, <1>2, ReservedNext, WindowNext, KeyNext DEF AccountInv

\* What the rows of an owner show is in the account.
LEMMA ShownRows ==
  ASSUME AccountInv, NEW o \in Owners
  PROVE  /\ Shows(guardrail[o], day, month, TodayShown[o], MonthShown[o])
         /\ Pays(balance[o], month, FreeShown[o], CreditsShown[o])
         /\ TodayShown[o] \in Nat /\ MonthShown[o] \in Nat
         /\ FreeShown[o] \in Nat /\ CreditsShown[o] \in Int
         /\ day \in Nat /\ month \in Nat
         /\ guardrail[o] \in GuardrailRow /\ balance[o] \in BalanceRow
  <1>1. /\ day \in Nat /\ month \in Nat
        /\ guardrail[o] \in GuardrailRow /\ balance[o] \in BalanceRow
        /\ Shows(guardrail[o], day, month, SpentToday(o), SpentThisMonth(o))
        /\ Pays(balance[o], month, FreeTierUsed(o), StartCredits - Overflow(o))
    BY RowsAre DEF AccountInv
  <1>2. /\ TodayShown[o] = InWindow(guardrail[o].dailySpent, guardrail[o].dailyWindow, day)
        /\ MonthShown[o] = InWindow(guardrail[o].monthlySpent, guardrail[o].monthlyWindow, month)
        /\ FreeShown[o] = InWindow(balance[o].used, balance[o].window, month)
        /\ CreditsShown[o] = balance[o].credits
    BY DEF TodayShown, MonthShown, FreeShown, CreditsShown, DailySpentShown, MonthlySpentShown
  <1>3. /\ Shows(guardrail[o], day, month, TodayShown[o], MonthShown[o])
        /\ Pays(balance[o], month, FreeShown[o], CreditsShown[o])
    BY <1>1, <1>2 DEF Shows, Pays
  <1>4. /\ guardrail[o].dailySpent \in Nat /\ guardrail[o].dailyWindow \in Nat
        /\ guardrail[o].monthlySpent \in Nat /\ guardrail[o].monthlyWindow \in Nat
        /\ balance[o].used \in Nat /\ balance[o].window \in Nat /\ balance[o].credits \in Int
    BY <1>1 DEF GuardrailRow, BalanceRow
  <1>5. /\ TodayShown[o] \in Nat /\ MonthShown[o] \in Nat
        /\ FreeShown[o] \in Nat /\ CreditsShown[o] \in Int
    BY <1>1, <1>2, <1>4 DEF InWindow
  <1> QED BY <1>1, <1>3, <1>5

\* Rows that show these figures after a step put them in the account.
LEMMA ShownNext ==
  ASSUME NEW x, NEW y, NEW u, NEW c,
         x = [o \in Owners |-> x[o]], y = [o \in Owners |-> y[o]],
         u = [o \in Owners |-> u[o]], c = [o \in Owners |-> c[o]],
         \A o \in Owners : /\ Shows(guardrail'[o], day', month', x[o], y[o])
                           /\ Pays(balance'[o], month', u[o], c[o])
  PROVE  TodayShown' = x /\ MonthShown' = y /\ FreeShown' = u /\ CreditsShown' = c
  <1>1. \A o \in Owners :
          /\ InWindow(guardrail'[o].dailySpent, guardrail'[o].dailyWindow, day') = x[o]
          /\ InWindow(guardrail'[o].monthlySpent, guardrail'[o].monthlyWindow, month') = y[o]
          /\ InWindow(balance'[o].used, balance'[o].window, month') = u[o]
          /\ balance'[o].credits = c[o]
    BY DEF Shows, Pays
  <1>2. /\ TodayShown' = [o \in Owners |->
             InWindow(guardrail'[o].dailySpent, guardrail'[o].dailyWindow, day')]
        /\ MonthShown' = [o \in Owners |->
             InWindow(guardrail'[o].monthlySpent, guardrail'[o].monthlyWindow, month')]
        /\ FreeShown' = [o \in Owners |-> InWindow(balance'[o].used, balance'[o].window, month')]
        /\ CreditsShown' = [o \in Owners |-> balance'[o].credits]
    BY DEF TodayShown, MonthShown, FreeShown, CreditsShown, DailySpentShown, MonthlySpentShown, InWindow
  <1> QED BY <1>1, <1>2

\* A step that spends nothing on a day that stays: what is shown stays.
Unspent == /\ TodayShown' = TodayShown /\ MonthShown' = MonthShown
           /\ FreeShown' = FreeShown /\ CreditsShown' = CreditsShown

\* The figures shown are functions of the owners.
LEMMA ShownAre ==
  /\ TodayShown = [o \in Owners |-> TodayShown[o]] /\ MonthShown = [o \in Owners |-> MonthShown[o]]
  /\ FreeShown = [o \in Owners |-> FreeShown[o]] /\ CreditsShown = [o \in Owners |-> CreditsShown[o]]
  BY DEF TodayShown, MonthShown, FreeShown, CreditsShown

\* Rows that show what they showed leave the account's figures alone.
LEMMA ShownStay ==
  ASSUME UNCHANGED <<day, month>>,
         \A o \in Owners : /\ Shows(guardrail'[o], day, month, TodayShown[o], MonthShown[o])
                           /\ Pays(balance'[o], month, FreeShown[o], CreditsShown[o])
  PROVE  Unspent
  BY ShownAre, ShownNext DEF Unspent

\* No usage row and no new month: the keys owe what they owed.
LEMMA KeyedStay ==
  ASSUME UNCHANGED <<usageLog, month>>
  PROVE  Logged' = Logged /\ BilledShown' = BilledShown
  BY DEF Logged, BilledShown, KeyCommitted

\* The limits of a row survive whatever else is written to it.
LEMMA LimitStay ==
  ASSUME \A o \in Owners : /\ guardrail'[o].dailyLimit = guardrail[o].dailyLimit
                           /\ guardrail'[o].monthlyLimit = guardrail[o].monthlyLimit
  PROVE  LimitShown' = LimitShown
  BY DEF LimitShown

\* What a job falls under, in both vocabularies.
LEMMA AccountJobs ==
  /\ \A o : Account!JobsOf(o) = JobsOf(o) /\ Account!PlatformJobsOf(o) = PlatformJobsOf(o)
  /\ \A k : Account!JobsWith(k) = JobsWith(k)
  /\ \A j : Account!OnPlatform(j) <=> SourceOf[j] = "platform_model"
  BY DEF Account!JobsOf, Account!PlatformJobsOf, Account!JobsWith, Account!OnPlatform,
         JobsOf, PlatformJobsOf, JobsWith

\* A positive estimate that passes the three gates of the locked, reset rows
\* fits the account.
LEMMA AffordableFits ==
  ASSUME AccountInv, NEW j \in Jobs, NEW e \in Nat, e > 0, Affordable(j, e)
  PROVE  Account!Fits(j, e)
  <1>0. PICK o \in Owners : o = OwnerOf[j]
    BY JobAttributes
  <1> DEFINE g == RolledOver(guardrail[o])
             b == PlatformRolledOver(balance[o])
             all == HoldsOf(JobsOf(o))
             onPlatform == HoldsOf(PlatformJobsOf(o))
  <1>1. /\ Shows(guardrail[o], day, month, TodayShown[o], MonthShown[o])
        /\ Pays(balance[o], month, FreeShown[o], CreditsShown[o])
        /\ TodayShown[o] \in Nat /\ MonthShown[o] \in Nat
        /\ FreeShown[o] \in Nat /\ CreditsShown[o] \in Int
        /\ day \in Nat /\ month \in Nat
        /\ guardrail[o] \in GuardrailRow /\ balance[o] \in BalanceRow
    BY ShownRows
  <1>2. /\ TypeOK /\ IsFiniteSet(Taken) /\ IsFiniteSet(Logged)
        /\ guardrail[o].reserved = all /\ balance[o].reserved = onPlatform
    BY DEF AccountInv, ReservedInv, KeyInv
  <1>3. all \in Nat /\ onPlatform \in Nat
    BY <1>2, HoldsAre
  <1>4. /\ g.dailySpent = TodayShown[o] /\ g.monthlySpent = MonthShown[o]
        /\ g.dailyLimit = guardrail[o].dailyLimit /\ g.monthlyLimit = guardrail[o].monthlyLimit
        /\ g.reserved = all
    BY <1>1, <1>2, ShowsRolled, RolledOverRow
  <1>5. b.used = FreeShown[o] /\ b.allowance = FreeTier /\ b.credits = CreditsShown[o]
    BY <1>1, PaysRolled DEF Pays
  <1>6. b.reserved = onPlatform
    BY <1>1, <1>2 DEF PlatformRolledOver, BalanceRow
  <1>7. /\ LimitShown[o].daily = guardrail[o].dailyLimit /\ guardrail[o].dailyLimit \in Nat
        /\ LimitShown[o].monthly = guardrail[o].monthlyLimit /\ guardrail[o].monthlyLimit \in Nat
    BY <1>1 DEF LimitShown, GuardrailRow
  <1>8. /\ WithinBudget(g, e)
        /\ SourceOf[j] = "platform_model" => e <= PlatformAvailable(b)
        /\ KeyOf[j] # NoKey => e <= KeyAvailable(KeyOf[j])
    BY <1>0 DEF Affordable
  <1>9. FreeTier \in Nat
    BY Defaults
  <1> HIDE DEF g, b, all, onPlatform
  <1>10. /\ TodayShown[o] + all + e <= LimitShown[o].daily
         /\ MonthShown[o] + all + e <= LimitShown[o].monthly
    <2>1. /\ e <= guardrail[o].dailyLimit - TodayShown[o] - all
          /\ e <= guardrail[o].monthlyLimit - MonthShown[o] - all
      BY <1>4, <1>8 DEF WithinBudget, DailyAvailable, MonthlyAvailable
    <2> QED BY <1>1, <1>3, <1>7, <2>1
  <1>11. SourceOf[j] = "platform_model" =>
           FreeShown[o] + onPlatform + e <= FreeTier + CreditsShown[o]
    <2> SUFFICES ASSUME SourceOf[j] = "platform_model"
                 PROVE  FreeShown[o] + onPlatform + e <= FreeTier + CreditsShown[o]
      OBVIOUS
    <2>1. e <= FreeTier - FreeShown[o] - onPlatform + CreditsShown[o]
      BY <1>5, <1>6, <1>8 DEF PlatformAvailable
    <2> QED BY <1>1, <1>3, <1>9, <2>1
  <1>12. ASSUME KeyOf[j] \in Keys
         PROVE  BilledShown[KeyOf[j]] + HoldsOf(JobsWith(KeyOf[j])) + e <= SpendCap[KeyOf[j]]
    <2>1. PICK k \in Keys : k = KeyOf[j]
      BY <1>12
    <2>2. e <= SpendCap[k] - KeyCommitted(k) - EstimateOf(WithKey(Held, k))
      BY <1>8, <2>1, DistinctNulls DEF KeyAvailable
    <2>3. EstimateOf(WithKey(Held, k)) = HoldsOf(JobsWith(k)) /\ HoldsOf(JobsWith(k)) \in Nat
      BY <1>2, HoldSets, HoldsAre
    <2>4. KeyCommitted(k) \in Nat /\ SpendCap[k] \in Nat /\ BilledShown[k] = KeyCommitted(k)
      BY <1>2, CommittedIsNatural, MoneyIsNatural DEF BilledShown
    <2>5. BilledShown[k] + HoldsOf(JobsWith(k)) + e <= SpendCap[k]
      BY <2>2, <2>3, <2>4
    <2> QED BY <2>1, <2>5
  <1>13. /\ Account!HeldOf(Account!JobsOf(o)) = all
         /\ Account!HeldOf(Account!PlatformJobsOf(o)) = onPlatform
         /\ Account!HeldOf(Account!JobsWith(KeyOf[j])) = HoldsOf(JobsWith(KeyOf[j]))
         /\ Account!OnPlatform(j) <=> SourceOf[j] = "platform_model"
    BY AccountHolds, AccountJobs DEF all, onPlatform
  <1> QED BY <1>0, <1>10, <1>11, <1>12, <1>13 DEF Account!Fits

\* A held row more, in both vocabularies.
LEMMA HoldPlaced ==
  ASSUME TypeOK, NEW r \in Reservations, NEW j, NEW e, NewHold(r, j, e)
  PROVE  /\ HoldShown[r].status = "none"
         /\ HoldShown' = [HoldShown EXCEPT ![r] = [status |-> "held", job |-> j, estimate |-> e]]
  BY DEF NewHold, HoldShown, TypeOK

\* A change of status, in both vocabularies.
LEMMA HoldMoved ==
  ASSUME TypeOK, NEW r \in Reservations, NEW s, SetStatus(r, s)
  PROVE  HoldShown' = [HoldShown EXCEPT ![r].status = s]
  <1>0. reservation \in [Reservations -> ReservationRow]
    BY DEF TypeOK
  <1>1. /\ reservation'[r].status = s /\ reservation'[r].job = reservation[r].job
        /\ reservation'[r].estimate = reservation[r].estimate
        /\ \A x \in Reservations : x # r => reservation'[x] = reservation[x]
    BY <1>0 DEF SetStatus, ReservationRow
  <1>2. HoldShown'[r] = [HoldShown[r] EXCEPT !.status = s]
    BY <1>1 DEF HoldShown
  <1>3. \A x \in Reservations : x # r => HoldShown'[x] = HoldShown[x]
    BY <1>1 DEF HoldShown
  <1> QED BY <1>2, <1>3 DEF HoldShown

\* An accepted reserve is one.
LEMMA AcceptIsReserve ==
  ASSUME AccountInv, NEW q \in Requests, NEW r \in Reservations, ReserveAccept(q, r)
  PROVE  Account!Next
  <1> DEFINE j == request[q].job
             e == request[q].estimate
             u == OwnerOf[j]
  <1>0. TypeOK
    BY DEF AccountInv, KeyInv
  <1>1. j \in Jobs /\ e \in Amounts /\ e \in Nat /\ -e \in Int
    BY <1>0, MoneyIsNatural DEF AccountInv, Asked, ReserveAccept, TypeOK
  <1>2. /\ NewHold(r, j, e) /\ HeldFor(j) = {} /\ Affordable(j, e)
        /\ UNCHANGED <<day, month, usageLog>>
    BY DEF ReserveAccept, NewHold, UniqueHold
  <1>3. /\ HoldShown[r].status = "none"
        /\ HoldShown' = [HoldShown EXCEPT ![r] = [status |-> "held", job |-> j, estimate |-> e]]
    BY <1>0, <1>2, HoldPlaced
  <1>4. \A x \in Reservations : HoldShown[x].status = "held" => HoldShown[x].job # j
    BY <1>2 DEF HoldShown, HeldFor, Held
  <1>5. e > 0 => Account!Fits(j, e)
    BY <1>1, <1>2, AffordableFits
  <1>6. ASSUME NEW o \in Owners
        PROVE  /\ Shows(guardrail'[o], day, month, TodayShown[o], MonthShown[o])
               /\ Pays(balance'[o], month, FreeShown[o], CreditsShown[o])
               /\ guardrail'[o].dailyLimit = guardrail[o].dailyLimit
               /\ guardrail'[o].monthlyLimit = guardrail[o].monthlyLimit
    <2>1. /\ day \in Nat /\ month \in Nat
          /\ guardrail[o] \in GuardrailRow /\ balance[o] \in BalanceRow
          /\ Shows(guardrail[o], day, month, TodayShown[o], MonthShown[o])
          /\ Pays(balance[o], month, FreeShown[o], CreditsShown[o])
      BY ShownRows
    <2>2. guardrail'[o] = IF o = u THEN HoldDropped(RolledOver(guardrail[o]), -e) ELSE guardrail[o]
      BY <1>0 DEF ReserveAccept, TypeOK
    <2>3. balance'[o] = balance[o] \/ balance'[o] = HoldDropped(PlatformRolledOver(balance[o]), -e)
      BY <1>0 DEF ReserveAccept, TypeOK
    <2> HIDE DEF e, u, j
    <2>4. /\ RolledOver(guardrail[o]) \in GuardrailRow
          /\ Shows(RolledOver(guardrail[o]), day, month, TodayShown[o], MonthShown[o])
          /\ RolledOver(guardrail[o]).dailyLimit = guardrail[o].dailyLimit
          /\ RolledOver(guardrail[o]).monthlyLimit = guardrail[o].monthlyLimit
      BY <2>1, ShowsRolled, RolledOverRow
    <2>5. /\ Shows(HoldDropped(RolledOver(guardrail[o]), -e), day, month, TodayShown[o], MonthShown[o])
          /\ HoldDropped(RolledOver(guardrail[o]), -e).dailyLimit = guardrail[o].dailyLimit
          /\ HoldDropped(RolledOver(guardrail[o]), -e).monthlyLimit = guardrail[o].monthlyLimit
      BY <1>1, <2>4, ShowsDropped, HoldDroppedGuardrail
    <2>6. /\ PlatformRolledOver(balance[o]) \in BalanceRow
          /\ Pays(PlatformRolledOver(balance[o]), month, FreeShown[o], CreditsShown[o])
      BY <2>1, PaysRolled, PlatformRolledOverRow
    <2>7. Pays(HoldDropped(PlatformRolledOver(balance[o]), -e), month, FreeShown[o], CreditsShown[o])
      BY <1>1, <2>6, PaysDropped
    <2> QED BY <2>1, <2>2, <2>3, <2>5, <2>7
  <1>7. Unspent
    BY <1>2, <1>6, ShownStay
  <1>8. LimitShown' = LimitShown
    BY <1>6, LimitStay
  <1>9. Logged' = Logged /\ BilledShown' = BilledShown
    BY <1>2, KeyedStay
  <1> HIDE DEF j, e
  <1>10. Account!Reserve(r, j, e)
    BY <1>3, <1>4, <1>5, <1>7, <1>8, <1>9
    DEF Account!Reserve, Unspent, Account!own, Account!platform, Account!keyed
  <1> QED BY <1>1, <1>10 DEF Account!Next

\* A released or swept hold is given back.
LEMMA ReleasedIsGiveBack ==
  ASSUME AccountInv, NEW r \in Reservations, NEW s \in {"released", "swept"},
         reservation[r].status = "held", HoldReleased(r), SetStatus(r, s),
         UNCHANGED <<day, month, usageLog>>
  PROVE  Account!Next
  <1> DEFINE e == reservation[r].estimate
  <1>0. TypeOK
    BY DEF AccountInv, KeyInv
  <1>1. e \in Int
    BY <1>0 DEF TypeOK, ReservationRow
  <1>2. HoldShown[r].status = "held" /\ HoldShown' = [HoldShown EXCEPT ![r].status = s]
    BY <1>0, HoldMoved DEF HoldShown
  <1>3. ASSUME NEW o \in Owners
        PROVE  /\ Shows(guardrail'[o], day, month, TodayShown[o], MonthShown[o])
               /\ Pays(balance'[o], month, FreeShown[o], CreditsShown[o])
               /\ guardrail'[o].dailyLimit = guardrail[o].dailyLimit
               /\ guardrail'[o].monthlyLimit = guardrail[o].monthlyLimit
    <2>1. /\ guardrail[o] \in GuardrailRow /\ balance[o] \in BalanceRow
          /\ Shows(guardrail[o], day, month, TodayShown[o], MonthShown[o])
          /\ Pays(balance[o], month, FreeShown[o], CreditsShown[o])
      BY ShownRows
    <2>2. guardrail'[o] = guardrail[o] \/ guardrail'[o] = HoldDropped(guardrail[o], e)
      BY <1>0 DEF HoldReleased, TypeOK
    <2>3. balance'[o] = balance[o] \/ balance'[o] = HoldDropped(balance[o], e)
      BY <1>0 DEF HoldReleased, PlatformUpdate, TypeOK
    <2> HIDE DEF e
    <2>4. /\ Shows(HoldDropped(guardrail[o], e), day, month, TodayShown[o], MonthShown[o])
          /\ HoldDropped(guardrail[o], e).dailyLimit = guardrail[o].dailyLimit
          /\ HoldDropped(guardrail[o], e).monthlyLimit = guardrail[o].monthlyLimit
      BY <1>1, <2>1, ShowsDropped, HoldDroppedGuardrail
    <2>5. Pays(HoldDropped(balance[o], e), month, FreeShown[o], CreditsShown[o])
      BY <1>1, <2>1, PaysDropped
    <2> QED BY <2>1, <2>2, <2>3, <2>4, <2>5
  <1>4. Unspent
    BY <1>3, ShownStay
  <1>5. LimitShown' = LimitShown
    BY <1>3, LimitStay
  <1>6. Logged' = Logged /\ BilledShown' = BilledShown
    BY KeyedStay
  <1>7. Account!GiveBack(r, s)
    BY <1>2, <1>4, <1>5, <1>6
    DEF Account!GiveBack, Unspent, Account!own, Account!platform, Account!keyed
  <1> QED BY <1>7 DEF Account!Next

\* A reconcile settles, whichever month last touched the rows.
LEMMA ReconcileIsSettle ==
  ASSUME AccountInv, NEW r \in Reservations, NEW a \in Amounts \cup {NoAmount}, Reconcile(r, a)
  PROVE  Account!Next
  <1> DEFINE j == reservation[r].job
             u == OwnerOf[j]
             spend == SpendOf(r, a)
             kept == HoldToDrop(r)
             x == [TodayShown EXCEPT ![u] = @ + spend]
             y == [MonthShown EXCEPT ![u] = @ + spend]
             due == FreeShown[u] + spend
             f == IF SourceOf[j] = "platform_model"
                  THEN [FreeShown EXCEPT ![u] = IF due < FreeTier THEN due ELSE FreeTier]
                  ELSE FreeShown
             c == IF SourceOf[j] = "platform_model"
                  THEN [CreditsShown EXCEPT ![u] = @ - (IF due < FreeTier THEN 0 ELSE due - FreeTier)]
                  ELSE CreditsShown
  <1>0. TypeOK /\ ChargeInv /\ UNCHANGED <<day, month, usageLog>> /\ SetStatus(r, "reconciled")
    BY DEF AccountInv, KeyInv, WindowInv, Reconcile
  <1>1. spend \in Nat /\ j \in Jobs /\ u \in Owners
    BY <1>0, ReconcileCharges, JobAttributes
  <1>2. kept \in Nat
    BY <1>0 DEF HoldToDrop, TypeOK, ReservationRow
  <1>3. spend \in Amounts \cup {HoldShown[r].estimate}
    BY DEF SpendOf, HoldShown
  <1>4. /\ HoldShown[r].status \in {"held", "swept"} /\ HoldShown[r].job = j
        /\ HoldShown' = [HoldShown EXCEPT ![r].status = "reconciled"]
    BY <1>0, HoldMoved DEF HoldShown, Reconcile, Reconcilable
  <1>5. /\ guardrail' = [guardrail EXCEPT ![u] = SpendRecorded(guardrail[u], spend, kept)]
        /\ balance' = IF SourceOf[j] = "platform_model"
                      THEN [balance EXCEPT ![u] = PlatformRecorded(balance[u], spend, kept)]
                      ELSE balance
    BY DEF Reconcile, PlatformUpdate, SpendOf
  <1> HIDE DEF j, u, spend, kept
  <1>6. ASSUME NEW o \in Owners
        PROVE  /\ Shows(guardrail'[o], day, month, x[o], y[o])
               /\ Pays(balance'[o], month, f[o], c[o])
               /\ guardrail'[o].dailyLimit = guardrail[o].dailyLimit
               /\ guardrail'[o].monthlyLimit = guardrail[o].monthlyLimit
    <2>1. /\ day \in Nat /\ month \in Nat
          /\ guardrail[o] \in GuardrailRow /\ balance[o] \in BalanceRow
          /\ Shows(guardrail[o], day, month, TodayShown[o], MonthShown[o])
          /\ Pays(balance[o], month, FreeShown[o], CreditsShown[o])
          /\ FreeShown[o] \in Nat /\ CreditsShown[o] \in Int
      BY ShownRows
    <2>2. guardrail'[o] = IF o = u THEN SpendRecorded(guardrail[o], spend, kept) ELSE guardrail[o]
      BY <1>0, <1>5 DEF TypeOK
    <2>3. balance'[o] = IF o = u /\ SourceOf[j] = "platform_model"
                        THEN PlatformRecorded(balance[o], spend, kept) ELSE balance[o]
      BY <1>0, <1>5 DEF TypeOK
    <2>4. /\ x[o] = IF o = u THEN TodayShown[o] + spend ELSE TodayShown[o]
          /\ y[o] = IF o = u THEN MonthShown[o] + spend ELSE MonthShown[o]
      BY ShownAre
    <2>5. /\ f[o] = IF o = u /\ SourceOf[j] = "platform_model"
                    THEN Lesser(FreeShown[o] + spend, FreeTier) ELSE FreeShown[o]
          /\ c[o] = IF o = u /\ SourceOf[j] = "platform_model"
                    THEN CreditsShown[o] - Greater(FreeShown[o] + spend - FreeTier, 0)
                    ELSE CreditsShown[o]
      <3>1. FreeTier \in Nat
        BY Defaults
      <3>2. CASE o = u /\ SourceOf[j] = "platform_model"
        <4>0. DOMAIN FreeShown = Owners /\ DOMAIN CreditsShown = Owners
          BY DEF FreeShown, CreditsShown
        <4>1. /\ f[u] = IF due < FreeTier THEN due ELSE FreeTier
              /\ c[u] = CreditsShown[u] - (IF due < FreeTier THEN 0 ELSE due - FreeTier)
          BY <1>1, <3>2, <4>0
        <4> HIDE DEF f, c
        <4> QED BY <1>1, <2>1, <3>1, <3>2, <4>1 DEF Lesser, Greater
      <3>3. CASE ~ (o = u /\ SourceOf[j] = "platform_model")
        BY <3>3, ShownAre
      <3> QED BY <3>2, <3>3
    <2> HIDE DEF x, y, f, c
    <2>6. /\ Shows(SpendRecorded(guardrail[o], spend, kept), day, month,
                   TodayShown[o] + spend, MonthShown[o] + spend)
          /\ SpendRecorded(guardrail[o], spend, kept).dailyLimit = guardrail[o].dailyLimit
          /\ SpendRecorded(guardrail[o], spend, kept).monthlyLimit = guardrail[o].monthlyLimit
      BY <1>1, <1>2, <2>1, ShowsRecorded, SpendRecordedRow
    <2>7. Pays(PlatformRecorded(balance[o], spend, kept), month, Lesser(FreeShown[o] + spend, FreeTier),
               CreditsShown[o] - Greater(FreeShown[o] + spend - FreeTier, 0))
      BY <1>1, <1>2, <2>1, PaysRecorded
    <2> QED BY <2>1, <2>2, <2>3, <2>4, <2>5, <2>6, <2>7
  <1>7. /\ x = [o \in Owners |-> x[o]] /\ y = [o \in Owners |-> y[o]]
        /\ f = [o \in Owners |-> f[o]] /\ c = [o \in Owners |-> c[o]]
    BY ShownAre
  <1>8. TodayShown' = x /\ MonthShown' = y /\ FreeShown' = f /\ CreditsShown' = c
    <2> HIDE DEF x, y, f, c
    <2>1. \A o \in Owners : /\ Shows(guardrail'[o], day', month', x[o], y[o])
                            /\ Pays(balance'[o], month', f[o], c[o])
      BY <1>0, <1>6
    <2> QED BY <1>7, <2>1, ShownNext
  <1>9. LimitShown' = LimitShown
    BY <1>6, LimitStay
  <1>10. Logged' = Logged /\ BilledShown' = BilledShown
    BY <1>0, KeyedStay
  <1>11. Account!Settle(r, spend)
    BY <1>4, <1>8, <1>9, <1>10
    DEF Account!Settle, Account!OnPlatform, Account!platform, Account!keyed, u
  <1> QED BY <1>3, <1>11 DEF Account!Next

\* A PATCH of either limit sets both, the other one to what it was.
LEMMA PatchIsSetLimits ==
  ASSUME AccountInv, NEW o \in Owners, NEW d \in Limits \cup {NoAmount}, NEW m \in Limits \cup {NoAmount},
         PatchGuardrail(o, d, m)
  PROVE  Account!Next
  <1> DEFINE dl == IF d = NoAmount THEN guardrail[o].dailyLimit ELSE d
             ml == IF m = NoAmount THEN guardrail[o].monthlyLimit ELSE m
  <1>0. TypeOK /\ UNCHANGED <<day, month, usageLog, balance, reservation>>
    BY DEF AccountInv, KeyInv, PatchGuardrail
  <1>1. guardrail' = [guardrail EXCEPT ![o].dailyLimit = dl, ![o].monthlyLimit = ml]
    BY <1>0 DEF PatchGuardrail, TypeOK
  <1>2. dl \in Limits \cup {LimitShown[o].daily} /\ ml \in Limits \cup {LimitShown[o].monthly}
    BY DEF LimitShown
  <1> HIDE DEF dl, ml
  <1>3. /\ guardrail'[o].dailyLimit = dl /\ guardrail'[o].monthlyLimit = ml
        /\ \A p \in Owners : p # o => guardrail'[p] = guardrail[p]
        /\ \A p \in Owners : /\ guardrail'[p].dailySpent = guardrail[p].dailySpent
                             /\ guardrail'[p].dailyWindow = guardrail[p].dailyWindow
                             /\ guardrail'[p].monthlySpent = guardrail[p].monthlySpent
                             /\ guardrail'[p].monthlyWindow = guardrail[p].monthlyWindow
    BY <1>0, <1>1 DEF TypeOK, GuardrailRow
  <1>4. LimitShown' = [LimitShown EXCEPT ![o] = [daily |-> dl, monthly |-> ml]]
    BY <1>3 DEF LimitShown
  <1>5. \A p \in Owners : /\ Shows(guardrail'[p], day, month, TodayShown[p], MonthShown[p])
                          /\ Pays(balance'[p], month, FreeShown[p], CreditsShown[p])
    BY <1>0, <1>3, ShownRows DEF Shows
  <1>6. Unspent
    BY <1>0, <1>5, ShownStay
  <1>7. HoldShown' = HoldShown
    BY <1>0 DEF HoldShown
  <1>8. Logged' = Logged /\ BilledShown' = BilledShown
    BY <1>0, KeyedStay
  <1>9. Account!SetLimits(o, dl, ml)
    BY <1>4, <1>6, <1>7, <1>8 DEF Account!SetLimits, Unspent, Account!platform, Account!keyed
  <1> QED BY <1>2, <1>9 DEF Account!Next

\* What a key's rows of the month cost, and which they are.
RowsOf(k) == {j \in Jobs : KeyOf[j] = k /\ usageLog[j].written /\ usageLog[j].month >= month}
Costs == [j \in Jobs |-> usageLog[j].cost]

\* Their costs are natural numbers.
LEMMA CostsAre ==
  ASSUME AccountInv, NEW k \in Keys
  PROVE  Figures(Costs, RowsOf(k)) /\ KeyCommitted(k) = Total(Costs, RowsOf(k))
  <1>0. TypeOK /\ IsFiniteSet(Logged)
    BY DEF AccountInv, KeyInv
  <1>1. RowsOf(k) \subseteq Logged /\ RowsOf(k) \subseteq Jobs
    BY DEF RowsOf, Logged
  <1>2. IsFiniteSet(RowsOf(k))
    BY <1>0, <1>1, FS_Subset
  <1>3. \A j \in RowsOf(k) : Costs[j] \in Nat
    BY <1>0, <1>1 DEF TypeOK, Costs
  <1>4. KeyCommitted(k) = Total(Costs, RowsOf(k))
    BY DEF KeyCommitted, Costs, RowsOf
  <1> QED BY <1>2, <1>3, <1>4 DEF Figures

\* A usage row bills the key of its job.
LEMMA LogIsBill ==
  ASSUME AccountInv, NEW j \in Jobs, NEW cost \in Amounts, WriteUsageLog(j, cost)
  PROVE  Account!Next
  <1>0. TypeOK /\ cost \in Nat /\ UNCHANGED <<day, month, guardrail, balance, reservation>>
    BY MoneyIsNatural DEF AccountInv, KeyInv, WriteUsageLog, ledger
  <1>1. PICK k \in Keys : k = KeyOf[j]
    BY JobAttributes DEF WriteUsageLog
  <1>2. /\ usageLog'[j] = [written |-> TRUE, cost |-> cost, month |-> month]
        /\ \A i \in Jobs : i # j => usageLog'[i] = usageLog[i]
        /\ ~ usageLog[j].written
    BY <1>0 DEF WriteUsageLog, TypeOK
  <1>3. j \notin Logged /\ Logged' = Logged \cup {j}
    BY <1>2 DEF Logged
  <1>4. /\ \A p \in Keys : p # k => RowsOf(p)' = RowsOf(p)
        /\ RowsOf(k)' = RowsOf(k) \cup {j} /\ j \notin RowsOf(k)
    <2>1. month \in Nat /\ month >= month
      BY <1>0 DEF TypeOK
    <2> QED BY <1>0, <1>1, <1>2, <2>1 DEF RowsOf
  <1>5. \A p \in Keys : Figures(Costs, RowsOf(p)) /\ Agree(Costs, Costs', RowsOf(p))
    <2>1. \A p \in Keys : j \notin RowsOf(p) /\ RowsOf(p) \subseteq Jobs
      BY <1>2 DEF RowsOf
    <2> QED BY <1>2, <2>1, CostsAre DEF Agree, Costs
  <1>6. ASSUME NEW p \in Keys PROVE KeyCommitted(p)' = Total(Costs', RowsOf(p)')
    BY DEF KeyCommitted, Costs, RowsOf
  <1>7. ASSUME NEW p \in Keys, p # k PROVE KeyCommitted(p)' = KeyCommitted(p)
    <2>1. Total(Costs', RowsOf(p)) = Total(Costs, RowsOf(p))
      BY <1>5, TotalKept
    <2> QED BY <1>4, <1>6, <1>7, <2>1, CostsAre
  <1>8. KeyCommitted(k)' = KeyCommitted(k) + cost
    <2>1. Costs'[j] = cost /\ cost \in Nat
      BY <1>0, <1>2 DEF Costs
    <2>2. /\ Figures(Costs, RowsOf(k)) /\ Agree(Costs, Costs', RowsOf(k))
          /\ j \notin RowsOf(k) /\ Costs'[j] \in Nat
      BY <1>4, <1>5, <2>1
    <2>3. Total(Costs', RowsOf(k) \cup {j}) = Total(Costs, RowsOf(k)) + Costs'[j]
      BY <2>2, TotalGains
    <2> QED BY <1>4, <1>6, <2>1, <2>3, CostsAre
  <1>9. BilledShown' = [BilledShown EXCEPT ![k] = @ + cost]
    BY <1>7, <1>8 DEF BilledShown
  <1>10. \A p \in Owners : /\ Shows(guardrail'[p], day, month, TodayShown[p], MonthShown[p])
                           /\ Pays(balance'[p], month, FreeShown[p], CreditsShown[p])
    BY <1>0, ShownRows
  <1>11. Unspent
    BY <1>0, <1>10, ShownStay
  <1>12. HoldShown' = HoldShown /\ LimitShown' = LimitShown
    BY <1>0 DEF HoldShown, LimitShown
  <1>13. \E r \in Reservations : HoldShown[r].job = j
    BY DEF WriteUsageLog, HoldShown
  <1>14. Account!Bill(j, cost)
    BY <1>1, <1>3, <1>9, <1>11, <1>12, <1>13
    DEF Account!Bill, Unspent, Account!own, Account!platform
  <1> QED BY <1>14 DEF Account!Next

\* A day passes: the account's day, and perhaps its month, starts from nothing.
LEMMA DayIsNew ==
  ASSUME AccountInv, NEW newMonth \in BOOLEAN, DayPasses(newMonth)
  PROVE  Account!Next
  <1> DEFINE zero == [o \in Owners |-> 0]
  <1>0. /\ TypeOK /\ UNCHANGED <<guardrail, balance, reservation, usageLog>>
        /\ day \in Nat /\ month \in Nat /\ day' = day + 1
        /\ month' = IF newMonth THEN month + 1 ELSE month
    BY DEF AccountInv, KeyInv, TypeOK, DayPasses, ledger
  <1>1. HoldShown' = HoldShown /\ LimitShown' = LimitShown /\ Logged' = Logged
    BY <1>0 DEF HoldShown, LimitShown, Logged
  <1>2. ASSUME NEW o \in Owners
        PROVE  /\ Shows(guardrail[o], day + 1, month, 0, MonthShown[o])
               /\ Shows(guardrail[o], day + 1, month + 1, 0, 0)
               /\ Pays(balance[o], month, FreeShown[o], CreditsShown[o])
               /\ Pays(balance[o], month + 1, 0, CreditsShown[o])
    BY ShownRows, ShowsLater, PaysLater
  <1>3. zero = [o \in Owners |-> zero[o]] /\ \A o \in Owners : zero[o] = 0
    OBVIOUS
  <1>4. CASE ~ newMonth
    <2>1. month' = month
      BY <1>0, <1>4
    <2> HIDE DEF zero
    <2>2. \A o \in Owners : /\ Shows(guardrail'[o], day', month', zero[o], MonthShown[o])
                            /\ Pays(balance'[o], month', FreeShown[o], CreditsShown[o])
      BY <1>0, <1>2, <1>3, <2>1
    <2>3. /\ TodayShown' = zero /\ MonthShown' = MonthShown
          /\ FreeShown' = FreeShown /\ CreditsShown' = CreditsShown
      BY <1>3, <2>2, ShownAre, ShownNext
    <2>4. BilledShown' = BilledShown
      BY <1>0, <2>1, KeyedStay
    <2>5. Account!NewDay
      BY <1>1, <2>3, <2>4 DEF Account!NewDay, Account!platform, Account!keyed, zero
    <2> QED BY <2>5 DEF Account!Next
  <1>5. CASE newMonth
    <2>1. month' = month + 1
      BY <1>0, <1>5
    <2> HIDE DEF zero
    <2>2. \A o \in Owners : /\ Shows(guardrail'[o], day', month', zero[o], zero[o])
                            /\ Pays(balance'[o], month', zero[o], CreditsShown[o])
      BY <1>0, <1>2, <1>3, <2>1
    <2>3. /\ TodayShown' = zero /\ MonthShown' = zero
          /\ FreeShown' = zero /\ CreditsShown' = CreditsShown
      BY <1>3, <2>2, ShownAre, ShownNext
    <2>4. ASSUME NEW k \in Keys PROVE KeyCommitted(k)' = 0
      <3>1. \A i \in Jobs : usageLog[i].month \in Nat /\ usageLog[i].month <= month
        BY <1>0 DEF AccountInv, Dated, TypeOK
      <3>2. \A i \in Jobs : ~ (usageLog'[i].month >= month')
        BY <1>0, <2>1, <3>1
      <3>3. RowsOf(k)' = {}
        BY <3>2 DEF RowsOf
      <3>4. KeyCommitted(k)' = Total(Costs', RowsOf(k)')
        BY DEF KeyCommitted, Costs, RowsOf
      <3> QED BY <3>3, <3>4, TotalEmpty
    <2>5. BilledShown' = [k \in Keys |-> 0]
      BY <2>4 DEF BilledShown
    <2>6. Account!NewMonth
      BY <1>1, <2>3, <2>5 DEF Account!NewMonth, zero
    <2> QED BY <2>6 DEF Account!Next
  <1> QED BY <1>4, <1>5

\* The first read, a rollback and the time-to-live change nothing shown.
LEMMA NothingShown ==
  ASSUME UNCHANGED <<day, month, guardrail, balance, usageLog>>,
         \/ UNCHANGED reservation
         \/ TypeOK /\ \E r \in Reservations : reservation' = [reservation EXCEPT ![r].expired = TRUE]
  PROVE  UNCHANGED Account!vars
  <1>1. HoldShown' = HoldShown
    BY DEF HoldShown, TypeOK, ReservationRow
  <1>2. LimitShown' = LimitShown /\ Unspent
    BY DEF LimitShown, Unspent, TodayShown, MonthShown, FreeShown, CreditsShown,
           DailySpentShown, MonthlySpentShown, InWindow
  <1>3. Logged' = Logged /\ BilledShown' = BilledShown
    BY KeyedStay
  <1> QED BY <1>1, <1>2, <1>3
      DEF Unspent, Account!vars, Account!own, Account!platform, Account!keyed

\* The seeded rows are a new account.
LEMMA AccountInit == Init => Account!Init
  <1> SUFFICES ASSUME Init PROVE Account!Init
    OBVIOUS
  <1>1. LimitShown = [o \in Owners |-> [daily |-> DefaultDaily, monthly |-> DefaultMonthly]]
    BY DEF Init, LimitShown
  <1>2. /\ TodayShown = [o \in Owners |-> 0] /\ MonthShown = [o \in Owners |-> 0]
        /\ FreeShown = [o \in Owners |-> 0] /\ CreditsShown = [o \in Owners |-> StartCredits]
    BY DEF Init, TodayShown, MonthShown, FreeShown, CreditsShown, DailySpentShown, MonthlySpentShown,
           InWindow
  <1>3. HoldShown = [r \in Reservations |-> [status |-> "none", job |-> NoJob, estimate |-> 0]]
    BY DEF Init, HoldShown, NoReservation
  <1>4. Logged = {}
    BY DEF Init, Logged, NoLog
  <1>5. BilledShown = [k \in Keys |-> 0]
    <2>1. ASSUME NEW k \in Keys PROVE KeyCommitted(k) = 0
      <3>1. RowsOf(k) = {}
        BY DEF Init, RowsOf, NoLog
      <3>2. KeyCommitted(k) = Total(Costs, RowsOf(k))
        BY DEF KeyCommitted, Costs, RowsOf
      <3> QED BY <3>1, <3>2, TotalEmpty
    <2> QED BY <2>1 DEF BilledShown
  <1> QED BY <1>1, <1>2, <1>3, <1>4, <1>5 DEF Account!Init

\* Every step is one of the account's or shows nothing.
LEMMA AccountNext == AccountInv /\ [Next]_vars => [Account!Next]_(Account!vars)
  <1> SUFFICES ASSUME AccountInv, [Next]_vars PROVE [Account!Next]_(Account!vars)
    OBVIOUS
  <1>1. ASSUME NEW q \in Requests, NEW r \in Reservations, ReserveAccept(q, r) PROVE Account!Next
    BY <1>1, AcceptIsReserve
  <1>2. ASSUME NEW r \in Reservations, NEW a \in Amounts \cup {NoAmount}, Reconcile(r, a)
        PROVE  Account!Next
    BY <1>2, ReconcileIsSettle
  <1>3. ASSUME NEW r \in Reservations, Release(r) \/ Sweep(r) PROVE Account!Next
    <2>1. /\ reservation[r].status = "held" /\ HoldReleased(r)
          /\ SetStatus(r, "released") \/ SetStatus(r, "swept")
          /\ UNCHANGED <<day, month, usageLog>>
      BY <1>3 DEF Release, Releasable, Sweep, Sweepable
    <2> QED BY <2>1, ReleasedIsGiveBack
  <1>4. ASSUME NEW r \in Reservations, TtlElapses(r) PROVE UNCHANGED Account!vars
    <2>1. TypeOK
      BY DEF AccountInv, KeyInv
    <2> QED BY <1>4, <2>1, NothingShown DEF TtlElapses
  <1>5. ASSUME NEW o \in Owners, NEW d \in Limits \cup {NoAmount}, NEW m \in Limits \cup {NoAmount},
               PatchGuardrail(o, d, m)
        PROVE  Account!Next
    BY <1>5, PatchIsSetLimits
  <1>6. ASSUME NEW j \in Jobs, NEW c \in Amounts, WriteUsageLog(j, c) PROVE Account!Next
    BY <1>6, LogIsBill
  <1>7. ASSUME NEW newMonth \in BOOLEAN, DayPasses(newMonth) PROVE Account!Next
    BY <1>7, DayIsNew
  <1>8. CASE \/ \E q \in Requests, j \in Jobs, e \in Amounts : ReserveBegin(q, j, e)
             \/ \E q \in Requests : ReserveRollback(q)
             \/ UNCHANGED vars
    <2>1. UNCHANGED <<day, month, guardrail, balance, usageLog, reservation>>
      BY <1>8 DEF ReserveBegin, ReserveRollback, vars, ledger
    <2> QED BY <2>1, NothingShown
  <1> QED BY <1>1, <1>2, <1>3, <1>4, <1>5, <1>6, <1>7, <1>8 DEF Next

\* For every set of owners, jobs, keys and amounts, and every interleaving: to
\* a reader the guardrail is an account.  What it admits fit every budget when
\* it was admitted, what it charges is charged once, and no stale window, no
\* late reconcile and no sweep shows.
THEOREM ImplementsAccount == Spec => KeepsAccount
  <1>1. Init => AccountInv /\ Account!Init
    BY AccountInvInit, AccountInit
  <1>2. AccountInv /\ [Next]_vars => AccountInv' /\ [Account!Next]_(Account!vars)
    BY AccountInvNext, AccountNext
  <1> QED BY <1>1, <1>2, PTL DEF Spec, KeepsAccount, Account!Spec

=============================================================================
