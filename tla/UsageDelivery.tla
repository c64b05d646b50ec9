----------------------------- MODULE UsageDelivery -----------------------------
(***************************************************************************)
(* What the usage stream promises, apart from how it is carried: every     *)
(* usage row that provider-registry emits is counted once by each service  *)
(* that reads it (usage-billing counts every row, campaign-service the     *)
(* rows of a campaign), unless the row is lost; and nothing is counted     *)
(* that was not emitted.  UsageRelay implements it.                        *)
(***************************************************************************)
EXTENDS Naturals, TLAPS

CONSTANTS
  Rows,
  Tagged            \* rows that carry a campaign_id, a subset of Rows

\* A copy of a row on its way to one of the two services.
Copies == ({"usage"} \X Rows) \cup ({"campaign"} \X Tagged)
CopiesOf(r) == {e \in Copies : e[2] = r}

VARIABLES
  emitted,          \* rows whose job has ended
  counted,          \* how often each copy was counted by its service
  lost              \* copies that no part of the system holds any more

vars == <<emitted, counted, lost>>

TypeOK ==
  /\ emitted \subseteq Rows
  /\ counted \in [Copies -> Nat]
  /\ lost \subseteq Copies

Init ==
  /\ emitted = {}
  /\ counted = [e \in Copies |-> 0]
  /\ lost = {}

Emit(r) ==
  /\ r \notin emitted
  /\ emitted' = emitted \cup {r}
  /\ UNCHANGED <<counted, lost>>

\* Copies under way: emitted, and neither counted nor lost.
UnderWay == {e \in Copies : e[2] \in emitted /\ counted[e] = 0 /\ e \notin lost}

Count(e) ==
  /\ e \in UnderWay
  /\ counted' = [counted EXCEPT ![e] = 1]
  /\ UNCHANGED <<emitted, lost>>

\* One trimming of a stream may lose several copies.
Lose(E) ==
  /\ E # {} /\ E \subseteq UnderWay
  /\ lost' = lost \cup E
  /\ UNCHANGED <<emitted, counted>>

Next ==
  \/ \E r \in Rows : Emit(r)
  \/ \E e \in Copies : Count(e)
  \/ \E E \in SUBSET Copies : Lose(E)

Spec == Init /\ [][Next]_vars

-----------------------------------------------------------------------------

\* No copy stays under way for ever: it is counted, or else it is lost.
EveryCopyEnds == \A e \in Copies : e \in UnderWay ~> e \notin UnderWay

\* A copy is counted at most once, and only when its row was emitted.
CountedOnce ==
  \A e \in Copies : counted[e] <= 1 /\ (counted[e] = 1 => e[2] \in emitted /\ e \notin lost)

\* However copies are counted and lost, none is counted twice, before its row's
\* job has ended or after it was lost.
THEOREM NothingCountedTwice == Spec => []CountedOnce
  <1>1. Init => TypeOK /\ CountedOnce
    BY DEF Init, TypeOK, CountedOnce
  <1>2. TypeOK /\ CountedOnce /\ [Next]_vars => TypeOK' /\ CountedOnce'
    <2> SUFFICES ASSUME TypeOK, CountedOnce, [Next]_vars PROVE TypeOK' /\ CountedOnce'
      OBVIOUS
    <2>1. CASE \E r \in Rows : Emit(r)
      BY <2>1 DEF Emit, TypeOK, CountedOnce
    <2>2. CASE \E e \in Copies : Count(e)
      BY <2>2 DEF Count, UnderWay, TypeOK, CountedOnce
    <2>3. CASE \E E \in SUBSET Copies : Lose(E)
      BY <2>3 DEF Lose, UnderWay, TypeOK, CountedOnce
    <2>4. CASE UNCHANGED vars
      BY <2>4 DEF vars, TypeOK, CountedOnce
    <2> QED BY <2>1, <2>2, <2>3, <2>4 DEF Next
  <1> QED BY <1>1, <1>2, PTL DEF Spec
=============================================================================
