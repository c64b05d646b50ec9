---------------------------- MODULE MCCampaignSaga ----------------------------
(* Instances of CampaignSaga for TLC: campaigns of one chapter under each    *)
(* fault, and campaigns of two chapters that compete for one place.          *)
EXTENDS CampaignSaga, TLC

Setup(C, S, barrier, cap, window, f) ==
  [chapters |-> C, stages |-> S, barrier |-> barrier, cap |-> cap, window |-> window, faults |-> f]

MixedSetups ==
  {Setup({1}, Stages, FALSE, 1, 2, {"crash"}),
   Setup({1}, Stages, TRUE, 2, 2, {"other_jobs"}),
   Setup({1}, Stages, FALSE, 1, 2, {"no_answer"}),
   Setup({1}, {"translation"}, FALSE, 2, 2, {"slow"}),
   Setup({1}, {"translation"}, FALSE, 2, 2, {"job_paused"}),
   Setup({1, 2}, {"translation"}, FALSE, 2, 1, {}),
   Setup({1, 2}, Stages, TRUE, 1, 2, {})}

\* One chapter, nothing that fails and no extraction but the campaign's own.
QuietSetups == {Setup({1}, Stages, FALSE, 1, 1, {})}

Symmetry == Permutations(Drivers) \cup Permutations(Jobs)
=============================================================================
