----------------------------- MODULE CampaignSaga -----------------------------
(***************************************************************************)
(* One campaign of campaign-service: the rows of its chapters, the saga    *)
(* drivers that lease it and take it a tick further (app/saga), the        *)
(* projection and spend consumers (app/events), the routes a user calls    *)
(* (app/routers/campaigns.py) and, as far as these see them, the           *)
(* extraction and translation jobs downstream.                             *)
(*                                                                         *)
(* Every statement on the database and every call to a service is a step   *)
(* of its own; what a tick or a handler has read stays in its record until *)
(* it is used.  A completion may be delivered at any time after the work   *)
(* is done, any number of times or never.                                  *)
(***************************************************************************)
EXTENDS Integers, FiniteSets

CONSTANTS
  Chapters,      \* chapters of the book, by chapter_sort
  Drivers,       \* replicas of the service, each with one SagaDriver
  Jobs, NoJob,   \* ids of translation jobs
  Setups,        \* campaigns and deployments: what Init chooses from
  MaxCalls       \* bound: calls of users in flight at once

Stages == {"knowledge", "translation"}
FaultKinds == {"crash", "slow", "no_answer", "job_paused", "other_jobs"}

ASSUME ChaptersAreSorted == Chapters \subseteq Nat /\ IsFiniteSet(Chapters)
ASSUME DriversAreFinite == IsFiniteSet(Drivers)
ASSUME SetupsAreCampaigns ==
  Setups \subseteq [chapters: SUBSET Chapters, stages: SUBSET Stages, barrier: BOOLEAN,
                    cap: Nat \ {0}, window: Nat \ {0}, faults: SUBSET FaultKinds]
ASSUME BoundIsNatural == MaxCalls \in Nat
ASSUME NoJobIsNoJob == NoJob \notin Jobs

VARIABLES
  campaign,    \* campaigns: chapters in scope, stages, gating_mode; and the deployment's
               \* max_stage_attempts (cap) and max_inflight_per_campaign (window)
  status,      \* campaigns.status
  stage,       \* campaign_chapters: the status of each stage of each chapter
  attempts,    \* campaign_chapters: its attempts
  jobOf,       \* campaign_chapters.translation_job_id
  lease,       \* driver_leased_by, while driver_leased_until is ahead
  tick,        \* the tick each driver is in
  calls,       \* handlers of routes between their check and their write
  extraction,  \* knowledge-service: the project's last extraction job, whoever started it
  jobs,        \* translation-service: its jobs for this campaign
  finished,    \* stages whose result exists downstream
  presumed,    \* history: knowledge marked done because the extraction was complete, still without a result
  overlapped,  \* history: a campaign was claimed in the middle of a tick
  faults       \* the faults still to come, once each; but other jobs of the project come any number of times

rows == <<stage, attempts, jobOf>>
downstream == <<extraction, jobs, finished>>
history == <<presumed, overlapped>>
vars == <<campaign, status, rows, lease, tick, calls, downstream, history, faults>>

-----------------------------------------------------------------------------

Units == Chapters \X Stages
StageStatus == {"pending", "dispatched", "done", "failed"}
Statuses == {"created", "running", "paused", "cancelling", "cancelled", "completed"}
Terminal == {"cancelled", "completed"}

Idle == [pc |-> "idle", stuck |-> {}, exhausted |-> {}, todo |-> {}, batch |-> {},
         release |-> {}, job |-> NoJob]
Tick == [pc: {"idle", "cancel", "propagated", "finalize", "reconcile", "probe", "extracted",
              "not_extracted", "loaded", "complete", "work", "stamp"},
         stuck: SUBSET (Units \X (Jobs \cup {NoJob})),
         exhausted: SUBSET Units, todo: SUBSET Units, batch: SUBSET Units,
         release: SUBSET Units, job: Jobs \cup {NoJob}]
Reconciling == {"probe", "extracted", "not_extracted"}
Calls == {"start", "rerun", "rerun_running", "rearm", "pause", "cancel", "drain"}

\* The chapters a job has still to translate.  It is loose once no driver is bound to see it end: its id was lost, a
\* cancel did not reach it, or its user paused it, which job_status calls terminal.
Ended == [state |-> "ended", chapters |-> {}, loose |-> FALSE]
Job == [state: {"ended", "active", "paused"}, chapters: SUBSET Chapters, loose: BOOLEAN]

TypeOK ==
  /\ campaign \in [chapters: SUBSET Chapters, stages: SUBSET Stages, barrier: BOOLEAN,
                  cap: Nat \ {0}, window: Nat \ {0}]
  /\ status \in Statuses
  /\ stage \in [Units -> StageStatus]
  /\ attempts \in [Units -> Nat]
  /\ jobOf \in [Chapters -> Jobs \cup {NoJob}]
  /\ lease \in Drivers \cup {"free"}
  /\ tick \in [Drivers -> Tick]
  /\ calls \subseteq Calls
  /\ extraction \in {"none", "active", "complete"}
  /\ jobs \in [Jobs -> Job]
  /\ finished \subseteq Units
  /\ presumed \subseteq Units
  /\ overlapped \in BOOLEAN
  /\ faults \subseteq FaultKinds

Init ==
  /\ \E s \in Setups :
       /\ campaign = [chapters |-> s.chapters, stages |-> s.stages, barrier |-> s.barrier,
                    cap |-> s.cap, window |-> s.window]
       /\ faults = s.faults
  /\ status = "created"
  /\ stage = [u \in Units |-> "pending"]
  /\ attempts = [u \in Units |-> 0]
  /\ jobOf = [c \in Chapters |-> NoJob]
  /\ lease = "free"
  /\ tick = [d \in Drivers |-> Idle]
  /\ calls = {}
  /\ extraction \in {"none", "active", "complete"}
  /\ extraction = "none" \/ "other_jobs" \in faults
  /\ jobs = [j \in Jobs |-> Ended]
  /\ finished = {}
  /\ presumed = {} /\ overlapped = FALSE

Fault(kind) == kind \in faults /\ faults' = faults \ {kind}

-----------------------------------------------------------------------------
(* saga/gating.py                                                          *)

Dispatchable(u) == stage[u] \in {"pending", "failed"}
\* Mutant: the cap is passed by one.
Exhausted_OffByOne(u) == attempts[u] > campaign.cap
Exhausted(u) == attempts[u] >= campaign.cap
Settled(u) == stage[u] = "done" \/ (stage[u] = "failed" /\ Exhausted(u))

Wanted == campaign.chapters \X campaign.stages

BarrierOpen == \A c \in campaign.chapters : Settled(<<c, "knowledge">>)

\* The stages next_dispatches looks at: a translation waits for the knowledge
\* of its chapter and, behind a barrier, for that of the book.
\* Mutant: a chapter whose knowledge has failed for good is translated too.
KnowledgeReady_Settled(c) ==
  "knowledge" \in campaign.stages =>
    Settled(<<c, "knowledge">>) /\ (campaign.barrier => BarrierOpen)
\* Mutant: the barrier is forgotten.
KnowledgeReady_NoBarrier(c) ==
  "knowledge" \in campaign.stages => stage[<<c, "knowledge">>] = "done"
KnowledgeReady(c) ==
  "knowledge" \in campaign.stages =>
    /\ stage[<<c, "knowledge">>] = "done"
    /\ campaign.barrier => BarrierOpen

Ready ==
  {u \in Wanted : Dispatchable(u) /\ (u[2] = "translation" => KnowledgeReady(u[1]))}

\* dispatches[:max_inflight]: knowledge comes first, then by chapter_sort.
Before(u, v) ==
  \/ u[2] = "knowledge" /\ v[2] = "translation"
  \/ u[2] = v[2] /\ u[1] < v[1]
FirstOf(U, n) == {u \in U : Cardinality({v \in U : Before(v, u)}) < n}

Complete == \A u \in Wanted : Settled(u)

-----------------------------------------------------------------------------
(* A tick: claim, then one statement or one call at a time                 *)

Inflight == {c \in Chapters : \E s \in Stages : stage[<<c, s>>] = "dispatched"}

Mid(d) == tick[d].pc # "idle"

At(pc) == [Idle EXCEPT !.pc = pc]
Becomes(d, t) == tick' = [tick EXCEPT ![d] = t]

\* A tick with nothing left to do is over.
Carry(t) ==
  IF t.exhausted = {} /\ t.todo = {} /\ t.batch = {} /\ t.release = {} THEN Idle ELSE t

Claimable(d) == lease \in {"free", d}

Claim(d) ==
  /\ ~Mid(d)
  /\ status \in {"running", "cancelling"}
  /\ Claimable(d)
  /\ lease' = d
  /\ Becomes(d, At(IF status = "cancelling" THEN "cancel" ELSE "reconcile"))
  /\ overlapped' = (overlapped \/ \E e \in Drivers : Mid(e))
  /\ UNCHANGED <<campaign, status, rows, calls, downstream, presumed, faults>>

\* Mutant: the rows are read after they were marked.
Recorded_AfterMark ==
  {jobOf[c] : c \in {b \in Chapters : stage[<<b, "translation">>] = "failed"}} \ {NoJob}
\* _propagate_cancel: the recorded jobs of dispatched rows, best effort.
Recorded == {jobOf[c] : c \in {b \in Chapters : stage[<<b, "translation">>] = "dispatched"}} \ {NoJob}
KnowledgeInflight == \E c \in Chapters : stage[<<c, "knowledge">>] = "dispatched"

Alive(j) == jobs[j].state # "ended"

Loosened(j) == [jobs[j] EXCEPT !.loose = Alive(j)]

PropagateCancel(d) ==
  /\ tick[d].pc = "cancel"
  /\ \E failing \in SUBSET Recorded :
       /\ failing = {} \/ "no_answer" \in faults
       /\ jobs' = [j \in Jobs |-> IF j \in failing THEN Loosened(j)
                                  ELSE IF j \in Recorded THEN Ended ELSE jobs[j]]
  /\ extraction' \in IF extraction = "active" /\ KnowledgeInflight THEN {"active", "none"} ELSE {extraction}
  /\ Becomes(d, At("propagated"))
  /\ UNCHANGED <<campaign, status, rows, lease, calls, finished, history, faults>>

MarkCancelled(d) ==
  /\ tick[d].pc = "propagated"
  /\ stage' = [u \in Units |-> IF stage[u] = "dispatched" THEN "failed" ELSE stage[u]]
  /\ Becomes(d, At("finalize"))
  /\ UNCHANGED <<campaign, status, attempts, jobOf, lease, calls, downstream, history, faults>>

FinalizeCancel(d) ==
  /\ tick[d].pc = "finalize"
  /\ status' = "cancelled"
  /\ Becomes(d, Idle)
  /\ UNCHANGED <<campaign, rows, lease, calls, downstream, history, faults>>

\* find_stuck_dispatched: how long a row has waited is left open.
FindStuckAmong(d, U) ==
  /\ tick[d].pc = "reconcile"
  /\ Becomes(d, [At("probe") EXCEPT !.stuck = {<<u, jobOf[u[1]]>> : u \in U}])
  /\ UNCHANGED <<campaign, status, rows, lease, calls, downstream, history, faults>>

DispatchedUnits == {u \in Units : stage[u] = "dispatched"}
FindStuck(d) == \E U \in SUBSET DispatchedUnits : FindStuckAmong(d, U)

\* _reconcile_knowledge asks once for all its rows how the project's last
\* extraction stands, whoever started it and whatever it left out.  One that
\* is active, or no answer, leaves the rows alone.
KnowledgeStuck(d) == {r \in tick[d].stuck : r[1][2] = "knowledge"}
AskKnowledge(d) ==
  /\ tick[d].pc = "probe" /\ KnowledgeStuck(d) # {}
  /\ \/ Becomes(d, [tick[d] EXCEPT !.stuck = @ \ KnowledgeStuck(d)])
     \/ extraction = "complete" /\ Becomes(d, [tick[d] EXCEPT !.pc = "extracted"])
     \/ extraction = "none" /\ Becomes(d, [tick[d] EXCEPT !.pc = "not_extracted"])
  /\ UNCHANGED <<campaign, status, rows, lease, calls, downstream, history, faults>>

\* Mutant: a job that is still at work is taken for a stuck one.
Truth_Impatient(d, u, j) ==
  CASE u[2] = "knowledge" -> IF tick[d].pc = "extracted" THEN "done" ELSE "reset"
    [] u[2] = "translation" /\ j # NoJob /\ u \in finished -> "done"
    [] OTHER -> "reset"
\* What a tick believes of a stuck stage dispatched with job j.
Truth(d, u, j) ==
  CASE u[2] = "knowledge" -> IF tick[d].pc = "extracted" THEN "done" ELSE "reset"
    [] u[2] = "translation" /\ j # NoJob /\ jobs[j].state = "active" -> "leave"
    [] u[2] = "translation" /\ j # NoJob /\ u \in finished -> "done"
    [] OTHER -> "reset"

Active == status \in {"running", "cancelling", "paused"}

\* mark_stage_done_by_chapter, the one write of every completion.
MarkedDone(u) == [stage EXCEPT ![u] = IF Active THEN "done" ELSE @]
ResetStuck(u) == [stage EXCEPT ![u] = IF @ = "dispatched" THEN "failed" ELSE @]

\* The knowledge a completed extraction vouches for without having extracted it.
Presumed(u) == IF Active THEN {u} \ finished ELSE {}

\* Rows of knowledge first, each with a write of its own.  Of a translation
\* the answer and the write are one step: a job that is over stays so and a
\* result stays.  A call that fails leaves the row alone.
Probe(d) ==
  /\ tick[d].pc \in Reconciling
  /\ \E r \in tick[d].stuck :
       /\ IF r[1][2] = "knowledge" THEN tick[d].pc # "probe" ELSE KnowledgeStuck(d) = {}
       /\ \/ r[1][2] = "translation" /\ UNCHANGED <<stage, presumed>>
          \/ /\ Truth(d, r[1], r[2]) = "done"
             /\ stage' = MarkedDone(r[1]) /\ presumed' = presumed \cup Presumed(r[1])
          \/ Truth(d, r[1], r[2]) = "reset" /\ stage' = ResetStuck(r[1]) /\ UNCHANGED presumed
       /\ Becomes(d, [tick[d] EXCEPT !.stuck = @ \ {r}])
  /\ UNCHANGED <<campaign, status, attempts, jobOf, lease, calls, downstream, overlapped, faults>>

\* load_chapter_states, with what gating makes of them.
Load(d) ==
  /\ tick[d].pc \in Reconciling /\ tick[d].stuck = {}
  /\ Becomes(d,
       IF Complete THEN At("complete")
       ELSE [At("loaded") EXCEPT !.todo = {u \in Ready : ~Exhausted(u)},
                                 !.exhausted = {u \in Ready : Exhausted(u)}])
  /\ UNCHANGED <<campaign, status, rows, lease, calls, downstream, history, faults>>

FinishCampaign(d) ==
  /\ tick[d].pc = "complete"
  /\ status' = "completed"
  /\ Becomes(d, Idle)
  /\ UNCHANGED <<campaign, rows, lease, calls, downstream, history, faults>>

\* Mutant: the ceiling is per tick.
Count_PerTick(d) ==
  /\ tick[d].pc = "loaded"
  /\ Becomes(d, Carry([tick[d] EXCEPT !.pc = "work", !.todo = FirstOf(@, campaign.window)]))
  /\ UNCHANGED <<campaign, status, rows, lease, calls, downstream, history, faults>>
\* count_inflight, then the batch within what is left of the ceiling.
Count(d) ==
  /\ tick[d].pc = "loaded"
  /\ LET budget == campaign.window - Cardinality(Inflight) IN
     Becomes(d, IF budget <= 0 THEN Idle
                ELSE Carry([tick[d] EXCEPT !.pc = "work", !.todo = FirstOf(@, budget)]))
  /\ UNCHANGED <<campaign, status, rows, lease, calls, downstream, history, faults>>

MarkExhausted(d) ==
  /\ tick[d].pc = "work"
  /\ \E u \in tick[d].exhausted :
       /\ stage' = [stage EXCEPT ![u] = "failed"]
       /\ Becomes(d, Carry([tick[d] EXCEPT !.exhausted = @ \ {u}]))
  /\ UNCHANGED <<campaign, status, attempts, jobOf, lease, calls, downstream, history, faults>>

\* Rows that mark_stage_failed has still to release come before the next batch.
Upcoming(d, U) ==
  {u \in U : tick[d].exhausted = {} /\ tick[d].release = {} /\ \A v \in U : ~Before(v, u)}

\* Claim-first: mark_stage_dispatched, whose result nobody looks at.
MarkDispatched(d) ==
  /\ tick[d].pc = "work"
  /\ \E u \in Upcoming(d, tick[d].todo) :
       /\ \A v \in tick[d].batch : v[2] = u[2]
       /\ IF Dispatchable(u)
            THEN /\ stage' = [stage EXCEPT ![u] = "dispatched"]
                 /\ attempts' = [attempts EXCEPT ![u] = @ + 1]
            ELSE UNCHANGED <<stage, attempts>>
       /\ Becomes(d, [tick[d] EXCEPT !.todo = @ \ {u}, !.batch = @ \cup {u}])
  /\ UNCHANGED <<campaign, status, jobOf, lease, calls, downstream, history, faults>>

BatchMarked(d, s) ==
  /\ tick[d].pc = "work"
  /\ \E u \in tick[d].batch : u[2] = s
  /\ \A u \in tick[d].todo : u[2] # s

\* An error answer, or none: every row of the batch is to be released.
Refused(d) == Becomes(d, [tick[d] EXCEPT !.release = tick[d].batch, !.batch = {}])

\* Another extraction is active: 409.
CallKnowledge(d) ==
  /\ BatchMarked(d, "knowledge")
  /\ \/ Refused(d) /\ UNCHANGED <<extraction, faults>>
     \/ /\ extraction # "active" /\ extraction' = "active"
        /\ \/ Becomes(d, Carry([tick[d] EXCEPT !.batch = {}])) /\ UNCHANGED faults
           \/ Refused(d) /\ Fault("no_answer")
  /\ UNCHANGED <<campaign, status, rows, lease, calls, jobs, finished, history>>

\* An id nobody holds any more may stand for a fresh one.
Unused(j) ==
  /\ ~Alive(j)
  /\ \A c \in Chapters : jobOf[c] # j
  /\ \A d \in Drivers : tick[d].job # j /\ \A r \in tick[d].stuck : r[2] # j

\* dispatch_job skips the chapters that have a fresh translation already.
Created(U, loose) ==
  [state |-> "active", chapters |-> {u[1] : u \in U \ finished}, loose |-> loose]

CallTranslation(d) ==
  /\ BatchMarked(d, "translation")
  /\ \/ Refused(d) /\ UNCHANGED <<jobs, faults>>
     \/ \E j \in Jobs :
          /\ Unused(j)
          /\ \/ /\ jobs' = [jobs EXCEPT ![j] = Created(tick[d].batch, FALSE)]
                /\ Becomes(d, [tick[d] EXCEPT !.pc = "stamp", !.job = j])
                /\ UNCHANGED faults
             \/ /\ jobs' = [jobs EXCEPT ![j] = Created(tick[d].batch, TRUE)]
                /\ Refused(d)
                /\ Fault("no_answer")
  /\ UNCHANGED <<campaign, status, rows, lease, calls, extraction, finished, history>>

SetJobId(d) ==
  /\ tick[d].pc = "stamp"
  /\ jobOf' = [c \in Chapters |->
                 IF <<c, "translation">> \in tick[d].batch /\ stage[<<c, "translation">>] = "dispatched"
                 THEN tick[d].job ELSE jobOf[c]]
  /\ Becomes(d, Idle)
  /\ UNCHANGED <<campaign, status, stage, attempts, lease, calls, downstream, history, faults>>

\* mark_stage_failed after a failed call; it does not look at the row.
Release(d) ==
  /\ tick[d].pc = "work"
  /\ \E u \in tick[d].release :
       /\ stage' = [stage EXCEPT ![u] = "failed"]
       /\ Becomes(d, Carry([tick[d] EXCEPT !.release = @ \ {u}]))
  /\ UNCHANGED <<campaign, status, attempts, jobOf, lease, calls, downstream, history, faults>>

\* The process dies, or process_campaign raises and the loop carries on.
Crash(d) ==
  /\ Mid(d)
  /\ Fault("crash")
  /\ Becomes(d, Idle)
  /\ jobs' = [j \in Jobs |-> IF j = tick[d].job THEN Loosened(j) ELSE jobs[j]]
  /\ UNCHANGED <<campaign, status, rows, lease, calls, extraction, finished, history>>

\* A live driver renews its lease at every tick, if the tick is shorter than
\* the lease; the one lease covers every campaign claimed with it.
LeaseExpires ==
  /\ \/ lease \in Drivers /\ ~Mid(lease) /\ UNCHANGED faults
     \/ lease \in Drivers /\ Mid(lease) /\ Fault("slow")
  /\ lease' = "free"
  /\ UNCHANGED <<campaign, status, rows, tick, calls, downstream, history>>

-----------------------------------------------------------------------------
(* Downstream, as dispatch_clients.py sees it                              *)

Extract(c) ==
  /\ extraction = "active"
  /\ <<c, "knowledge">> \in Wanted \ finished
  /\ finished' = finished \cup {<<c, "knowledge">>}
  /\ presumed' = presumed \ {<<c, "knowledge">>}
  /\ UNCHANGED <<campaign, status, rows, lease, tick, calls, extraction, jobs, overlapped, faults>>

\* An extraction completes whatever it extracted: a chapter whose text is not
\* to be had, or whose retries ran out, is skipped.
ExtractionEnds ==
  /\ extraction = "active"
  /\ extraction' \in {"none", "complete"}
  /\ UNCHANGED <<campaign, status, rows, lease, tick, calls, jobs, finished, history, faults>>

\* An extraction of the project that is not the campaign's own.  It may have
\* been there before the campaign, too.
OtherExtraction ==
  /\ "other_jobs" \in faults
  /\ extraction # "active"
  /\ extraction' = "active"
  /\ UNCHANGED <<campaign, status, rows, lease, tick, calls, jobs, finished, history, faults>>

Translate(j, c) ==
  /\ jobs[j].state = "active" /\ c \in jobs[j].chapters
  /\ finished' = finished \cup {<<c, "translation">>}
  /\ jobs' = [jobs EXCEPT ![j] = [jobs[j] EXCEPT !.chapters = @ \ {c}]]
  /\ UNCHANGED <<campaign, status, rows, lease, tick, calls, extraction, history, faults>>

JobBecomes(j, state, job) ==
  /\ jobs[j].state = state
  /\ jobs' = [jobs EXCEPT ![j] = job]
  /\ UNCHANGED <<campaign, status, rows, lease, tick, calls, extraction, finished, history>>

JobEnds(j) == JobBecomes(j, "active", Ended) /\ UNCHANGED faults
JobPaused(j) == Fault("job_paused") /\ JobBecomes(j, "active", [Loosened(j) EXCEPT !.state = "paused"])
JobResumed(j) == JobBecomes(j, "paused", [jobs[j] EXCEPT !.state = "active"]) /\ UNCHANGED faults

-----------------------------------------------------------------------------
(* The consumers                                                           *)

\* handle_event, for a completion of any age.
Absorb(u) ==
  /\ u \in finished /\ Active /\ stage[u] # "done"
  /\ stage' = MarkedDone(u)
  /\ UNCHANGED <<campaign, status, attempts, jobOf, lease, tick, calls, downstream, history, faults>>

\* _handle_circuit_failure.
CircuitOpen(u) ==
  /\ status = "running" /\ stage[u] = "dispatched"
  /\ status' = "paused"
  /\ UNCHANGED <<campaign, rows, lease, tick, calls, downstream, history, faults>>

\* accumulate_and_maybe_pause, for the event that reaches the budget.
SpendCapReached ==
  /\ status = "running"
  /\ status' = "paused"
  /\ UNCHANGED <<campaign, rows, lease, tick, calls, downstream, history, faults>>

-----------------------------------------------------------------------------
(* The routes: each checks the row it has read and writes later            *)

\* The write a route goes on to, by the status it has read.
Admitted ==
  {c \in Calls :
     \/ c = "start" /\ status \in {"created", "paused"}
     \/ c = "rerun" /\ status \in {"created", "paused", "completed"}
     \/ c = "rerun_running" /\ status = "running"
     \/ c = "pause" /\ status = "running"
     \/ c = "cancel" /\ status \in {"created", "paused"}
     \/ c = "drain" /\ status \in {"running", "cancelling"}}

CallRoute(c) ==
  /\ Cardinality(calls) < MaxCalls
  /\ c \in Admitted \ calls
  /\ calls' = calls \cup {c}
  /\ UNCHANGED <<campaign, status, rows, lease, tick, downstream, history, faults>>

\* Mutant: a status of the job vocabulary, which campaigns do not have.
Written_JobStatus(c) ==
  CASE c \in {"start", "rearm"} -> "running" [] c = "pause" -> "paused"
    [] c = "cancel" -> "cancelled" [] c = "drain" -> "cancel_requested"
Written(c) ==
  CASE c \in {"start", "rearm"} -> "running" [] c = "pause" -> "paused"
    [] c = "cancel" -> "cancelled" [] c = "drain" -> "cancelling"

SetStatus(c) ==
  /\ c \in calls \cap {"start", "rearm", "pause", "cancel", "drain"}
  /\ status' = Written(c)
  /\ calls' = calls \ {c}
  /\ UNCHANGED <<campaign, rows, lease, tick, downstream, history, faults>>

\* reset_failed_stages for some chapters; a campaign that was not running is
\* re-armed afterwards, if a row was reset.
ResetFailed(c, C) ==
  LET failed == {u \in Units : u[1] \in C /\ stage[u] = "failed"} IN
  /\ c \in calls \cap {"rerun", "rerun_running"}
  /\ stage' = [u \in Units |-> IF u \in failed THEN "pending" ELSE stage[u]]
  /\ attempts' = [u \in Units |-> IF u \in failed THEN 0 ELSE attempts[u]]
  /\ calls' = (calls \ {c}) \cup (IF c = "rerun" /\ failed # {} THEN {"rearm"} ELSE {})
  /\ UNCHANGED <<campaign, status, jobOf, lease, tick, downstream, history, faults>>

-----------------------------------------------------------------------------

TickStep(d) ==
  \/ PropagateCancel(d) \/ MarkCancelled(d) \/ FinalizeCancel(d)
  \/ FindStuck(d) \/ AskKnowledge(d) \/ Probe(d) \/ Load(d) \/ FinishCampaign(d) \/ Count(d)
  \/ MarkExhausted(d) \/ MarkDispatched(d) \/ CallKnowledge(d) \/ CallTranslation(d)
  \/ SetJobId(d) \/ Release(d)

Next ==
  \/ \E d \in Drivers : Claim(d) \/ TickStep(d) \/ Crash(d)
  \/ LeaseExpires
  \/ \E c \in Chapters : Extract(c)
  \/ ExtractionEnds \/ OtherExtraction
  \/ \E j \in Jobs : JobEnds(j) \/ JobPaused(j) \/ JobResumed(j) \/ \E c \in Chapters : Translate(j, c)
  \/ \E u \in Units : Absorb(u) \/ CircuitOpen(u)
  \/ SpendCapReached
  \/ \E c \in Calls : CallRoute(c) \/ SetStatus(c) \/ \E C \in SUBSET Chapters : ResetFailed(c, C)

Spec == Init /\ [][Next]_vars
-----------------------------------------------------------------------------

\* The ceiling of rows in flight holds across ticks, whatever the consumers,
\* routes and reconciles do to the rows between the count and the marks.
InflightBounded == ~overlapped => Cardinality(Inflight) <= campaign.window

\* The two stages of a chapter are never in flight together, which is what
\* lets one updated_at time the stage that is.
OneStageInFlight ==
  ~overlapped => \A c \in Chapters : \E s \in Stages : stage[<<c, s>>] # "dispatched"

\* Retries end: a stage is dispatched no more often than its cap, and once
\* more for each further driver that works on the same campaign.
AttemptsBounded ==
  \A u \in Units :
    attempts[u] <= campaign.cap + (IF overlapped THEN Cardinality(Drivers) - 1 ELSE 0)

\* Claim-first: the work of a chapter is paid for twice at a time only if one
\* of the jobs is out of the campaign's control or two drivers were at work.
OneJobPerChapter ==
  overlapped \/ \A j, k \in Jobs :
    jobs[j].chapters \cap jobs[k].chapters # {} =>
      j = k \/ jobs[j].loose \/ jobs[k].loose

\* By the time a campaign is finally cancelled nothing of it is in flight:
\* no row, and no job on a chapter still to do but those a cancel could not reach.
CancelLeavesNothing ==
  \A d \in Drivers :
    tick[d].pc = "finalize" /\ ~overlapped =>
      /\ Inflight = {}
      /\ \A j \in Jobs : \A c \in jobs[j].chapters : jobs[j].loose \/ stage[<<c, "translation">>] = "done"

\* What ExtractionStatusResponse of knowledge-service says of a completed
\* extraction, that a chapter still dispatched was extracted and only its
\* event was lost.  It does not hold: the extraction may have skipped the
\* chapter, or may be older than its dispatch.
DoneWasExtracted == \A u \in Units : stage[u] = "done" => u \in finished

\* The stages a tick has resolved to fail, whatever becomes of them meanwhile.
Doomed == UNION {tick[d].exhausted \cup tick[d].release : d \in Drivers}

\* The project's last extraction is complete; the rows a tick is to mark done because it was.
Extracted == extraction = "complete"
Vouched == UNION {{r[1] : r \in KnowledgeStuck(d)} : d \in {e \in Drivers : tick[e].pc = "extracted"}}

\* Decided on loaded rows, marked later, among consumers, routes, reconciles
\* and crashes: a dispatch is still within every limit when it is written; a
\* stage is done only by a result or, the knowledge of a row still dispatched,
\* on the word of an extraction found complete; no chapter is translated
\* before one of the two; and only mark_stage_failed, from a tick that planned it before,
\* takes a stage back from done.
Plan == INSTANCE CampaignPlan
          WITH results <- finished, extracted <- Extracted, vouched <- Vouched, doomed <- Doomed,
               crowded <- overlapped
FollowsPlan == Plan!Spec
=============================================================================
