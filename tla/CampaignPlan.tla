----------------------------- MODULE CampaignPlan -----------------------------
(***************************************************************************)
(* What a campaign promises of the stages of its chapters, apart from the  *)
(* drivers, ticks, leases, jobs and calls that carry them out: a stage is  *)
(* dispatched in one step with the decision that it may be, done only by a *)
(* result or, the knowledge of a chapter, on the word of an extraction of  *)
(* the project that is complete, and a chapter is translated only once its *)
(* knowledge exists or was so presumed.                                    *)
(* CampaignSaga, where decision and dispatch lie far apart, implements it. *)
(***************************************************************************)
EXTENDS Naturals, FiniteSets

CONSTANT Chapters

VARIABLES
  campaign,         \* chapters in scope, stages, barrier, and the limits cap and window
  stage, attempts,  \* of each stage of each chapter
  results,          \* the stages whose result exists
  extracted,        \* the last extraction of the project is complete
  vouched,          \* knowledge someone was told of by such an extraction
  presumed,         \* knowledge taken for extracted on that word, still without a result
  doomed,           \* the stages someone has resolved to give up
  crowded           \* two drivers have been at work at a time

vars == <<campaign, stage, attempts, results, extracted, vouched, presumed, doomed, crowded>>

Stages == {"knowledge", "translation"}
Units == Chapters \X Stages
Wanted == campaign.chapters \X campaign.stages
Inflight == {c \in Chapters : \E s \in Stages : stage[<<c, s>>] = "dispatched"}
-----------------------------------------------------------------------------

Init ==
  /\ campaign \in [chapters: SUBSET Chapters, stages: SUBSET Stages, barrier: BOOLEAN,
                   cap: Nat \ {0}, window: Nat \ {0}]
  /\ stage = [u \in Units |-> "pending"] /\ attempts = [u \in Units |-> 0]
  /\ results = {} /\ extracted \in BOOLEAN /\ vouched = {} /\ presumed = {}
  /\ doomed = {} /\ crowded = FALSE

\* No chapter is translated before its knowledge is there, or taken to be,
\* whoever is at work.
Grounded(u) ==
  u[2] = "translation" /\ "knowledge" \in campaign.stages =>
    <<u[1], "knowledge">> \in results \cup presumed

\* What one driver at a time keeps to.  Behind a barrier no translation
\* starts beside an extraction.
WithinLimits(u) ==
  /\ attempts[u] < campaign.cap
  /\ Cardinality(Inflight \cup {u[1]}) <= campaign.window
  /\ u[1] \notin Inflight
  /\ u[2] = "translation" /\ "knowledge" \in campaign.stages =>
       /\ stage[<<u[1], "knowledge">>] = "done"
       /\ campaign.barrier => \A c \in Chapters : stage[<<c, "knowledge">>] # "dispatched"

Dispatch(u) ==
  /\ u \in Wanted /\ stage[u] \in {"pending", "failed"}
  /\ Grounded(u)
  /\ crowded \/ WithinLimits(u)
  /\ stage' = [stage EXCEPT ![u] = "dispatched"]
  /\ attempts' = [attempts EXCEPT ![u] = @ + 1]
  /\ UNCHANGED <<campaign, results, extracted, vouched, presumed, doomed, crowded>>

Produce(u) ==
  /\ u \in Wanted /\ Grounded(u)
  /\ results' = results \cup {u}
  /\ presumed' = presumed \ {u}
  /\ UNCHANGED <<campaign, stage, attempts, extracted, vouched, doomed, crowded>>

Finish(u) ==
  /\ u \in results
  /\ stage' = [stage EXCEPT ![u] = "done"]
  /\ vouched' \subseteq vouched
  /\ UNCHANGED <<campaign, attempts, results, extracted, presumed, doomed, crowded>>

\* A complete extraction speaks for every chapter it is asked about: without
\* a result, knowledge that was dispatched counts as done.
Presume(u) ==
  /\ u \in vouched
  /\ stage[u] = "dispatched" \/ crowded
  /\ stage' = [stage EXCEPT ![u] = "done"]
  /\ presumed' = presumed \cup {u}
  /\ vouched' \subseteq vouched
  /\ UNCHANGED <<campaign, attempts, results, extracted, doomed, crowded>>

\* Stages in flight may be given up, others only after it was resolved.
Lapse(U) ==
  /\ \A u \in U : stage[u] = "dispatched"
  /\ stage' = [u \in Units |-> IF u \in U THEN "failed" ELSE stage[u]]
  /\ vouched' \subseteq vouched
  /\ UNCHANGED <<campaign, attempts, results, extracted, presumed, doomed, crowded>>

GiveUp(u) ==
  /\ u \in doomed
  /\ stage' = [stage EXCEPT ![u] = "failed"]
  /\ doomed' \subseteq doomed
  /\ UNCHANGED <<campaign, attempts, results, extracted, vouched, presumed, crowded>>

\* A driver resolves to give stages up, or is told that the extraction is
\* complete; an extraction starts or ends.
Resolve ==
  /\ doomed' \subseteq Wanted
  /\ vouched' \subseteq vouched \/ (extracted /\ vouched' \subseteq campaign.chapters \X {"knowledge"})
  /\ extracted' \in BOOLEAN
  /\ UNCHANGED <<campaign, stage, attempts, results, presumed, crowded>>

\* The user's rerun: the count starts again.
Rearm(U) ==
  /\ \A u \in U : stage[u] = "failed"
  /\ stage' = [u \in Units |-> IF u \in U THEN "pending" ELSE stage[u]]
  /\ attempts' = [u \in Units |-> IF u \in U THEN 0 ELSE attempts[u]]
  /\ UNCHANGED <<campaign, results, extracted, vouched, presumed, doomed, crowded>>

Crowd ==
  /\ crowded' = TRUE
  /\ UNCHANGED <<campaign, stage, attempts, results, extracted, vouched, presumed, doomed>>

Next ==
  \/ \E u \in Units : Dispatch(u) \/ Produce(u) \/ Finish(u) \/ Presume(u) \/ GiveUp(u)
  \/ \E U \in SUBSET Units : Lapse(U) \/ Rearm(U)
  \/ Resolve \/ Crowd

Spec == Init /\ [][Next]_vars
=============================================================================
