-------------------------- MODULE MCSpendGuardrail --------------------------
(* Instances of SpendGuardrail for TLC.                                    *)
EXTENDS SpendGuardrail, TLC

CONSTANTS o1, j1, j2, k1

\* A platform job and a user job of one owner, first-party.
SameOwner == [j \in Jobs |-> o1]
MixedSources == [j \in Jobs |-> IF j = j1 THEN "platform_model" ELSE "user_model"]
FirstParty == [j \in Jobs |-> NoKey]

\* Jobs of one public key, which may only use the owner's own models.
UserModels == [j \in Jobs |-> "user_model"]
SameKey == [j \in Jobs |-> k1]
KeyCap == [k \in Keys |-> 2]

Symmetry == Permutations(Reservations) \cup Permutations(Requests)
=============================================================================
