------------------------- MODULE CampaignSaga_proofs -------------------------
(***************************************************************************)
(* Proofs about CampaignSaga, in two layers.  The first says of every step *)
(* how it moves the rows and the ticks (StageMoves, HeldShrinks, ...); the *)
(* second derives the invariants from that.  Most of them rest on one      *)
(* fact: a campaign that was never claimed in the middle of a tick has one *)
(* driver at work at most (OneMid).                                        *)
(***************************************************************************)
EXTENDS CampaignSaga, FiniteSetTheorems, TLAPS

-----------------------------------------------------------------------------
(* Records                                                                 *)

\* t is the tick record with these fields.
Is(t, pc, stuck, exhausted, todo, batch, release, job) ==
  /\ t \in Tick
  /\ t.pc = pc /\ t.stuck = stuck /\ t.exhausted = exhausted /\ t.todo = todo
  /\ t.batch = batch /\ t.release = release /\ t.job = job

PCs == {"idle", "cancel", "propagated", "finalize", "reconcile", "probe", "extracted",
        "not_extracted", "loaded", "complete", "work", "stamp"}

LEMMA IdleIs == Is(Idle, "idle", {}, {}, {}, {}, {}, NoJob)
BY DEF Is, Idle, Tick
LEMMA AtIs == ASSUME NEW pc \in PCs PROVE Is(At(pc), pc, {}, {}, {}, {}, {}, NoJob)
BY DEF Is, PCs, At, Idle, Tick
LEMMA StuckAtIs ==
  ASSUME NEW R \in SUBSET (Units \X (Jobs \cup {NoJob}))
  PROVE  Is([At("probe") EXCEPT !.stuck = R], "probe", R, {}, {}, {}, {}, NoJob)
BY DEF Is, At, Idle, Tick
LEMMA LoadedIs ==
  ASSUME NEW X \in SUBSET Units, NEW Y \in SUBSET Units
  PROVE  Is([At("loaded") EXCEPT !.todo = X, !.exhausted = Y], "loaded", {}, Y, X, {}, {}, NoJob)
BY DEF Is, At, Idle, Tick
LEMMA StuckIs ==
  ASSUME NEW t \in Tick, NEW R \in SUBSET (Units \X (Jobs \cup {NoJob}))
  PROVE  Is([t EXCEPT !.stuck = R], t.pc, R, t.exhausted, t.todo, t.batch, t.release, t.job)
BY DEF Is, Tick
LEMMA PcIs ==
  ASSUME NEW t \in Tick, NEW pc \in {"extracted", "not_extracted"}
  PROVE  Is([t EXCEPT !.pc = pc], pc, t.stuck, t.exhausted, t.todo, t.batch, t.release, t.job)
BY DEF Is, Tick
LEMMA WorkIs ==
  ASSUME NEW t \in Tick, NEW X \in SUBSET Units
  PROVE  Is([t EXCEPT !.pc = "work", !.todo = X],
            "work", t.stuck, t.exhausted, X, t.batch, t.release, t.job)
BY DEF Is, Tick
LEMMA ExhaustedIs ==
  ASSUME NEW t \in Tick, NEW X \in SUBSET Units
  PROVE  Is([t EXCEPT !.exhausted = X], t.pc, t.stuck, X, t.todo, t.batch, t.release, t.job)
BY DEF Is, Tick
LEMMA MarkedIs ==
  ASSUME NEW t \in Tick, NEW X \in SUBSET Units, NEW Y \in SUBSET Units
  PROVE  Is([t EXCEPT !.todo = X, !.batch = Y], t.pc, t.stuck, t.exhausted, X, Y, t.release, t.job)
BY DEF Is, Tick
LEMMA BatchIs ==
  ASSUME NEW t \in Tick, NEW X \in SUBSET Units
  PROVE  Is([t EXCEPT !.batch = X], t.pc, t.stuck, t.exhausted, t.todo, X, t.release, t.job)
BY DEF Is, Tick
LEMMA ReleaseIs ==
  ASSUME NEW t \in Tick, NEW X \in SUBSET Units
  PROVE  Is([t EXCEPT !.release = X], t.pc, t.stuck, t.exhausted, t.todo, t.batch, X, t.job)
BY DEF Is, Tick
LEMMA RefusedIs ==
  ASSUME NEW t \in Tick, NEW X \in SUBSET Units, NEW Y \in SUBSET Units
  PROVE  Is([t EXCEPT !.release = X, !.batch = Y], t.pc, t.stuck, t.exhausted, t.todo, Y, X, t.job)
BY DEF Is, Tick
LEMMA StampIs ==
  ASSUME NEW t \in Tick, NEW j \in Jobs
  PROVE  Is([t EXCEPT !.pc = "stamp", !.job = j],
            "stamp", t.stuck, t.exhausted, t.todo, t.batch, t.release, j)
BY DEF Is, Tick

LEMMA TickTypes ==
  ASSUME NEW t \in Tick
  PROVE  /\ t.pc \in PCs /\ t.stuck \in SUBSET (Units \X (Jobs \cup {NoJob}))
         /\ t.exhausted \in SUBSET Units /\ t.todo \in SUBSET Units
         /\ t.batch \in SUBSET Units /\ t.release \in SUBSET Units
         /\ t.job \in Jobs \cup {NoJob}
BY DEF Tick, PCs

LEMMA JobFields ==
  ASSUME NEW k \in Job, NEW C \in SUBSET Chapters, NEW b \in BOOLEAN,
         NEW s \in {"ended", "active", "paused"}
  PROVE  /\ Ended \in Job /\ Ended.state = "ended" /\ Ended.chapters = {}
         /\ [state |-> s, chapters |-> C, loose |-> b] \in Job
         /\ LET x == [k EXCEPT !.chapters = C]
            IN  x \in Job /\ x.state = k.state /\ x.chapters = C /\ x.loose = k.loose
         /\ LET x == [k EXCEPT !.loose = b]
            IN  x \in Job /\ x.state = k.state /\ x.chapters = k.chapters /\ x.loose = b
         /\ LET x == [k EXCEPT !.state = s]
            IN  x \in Job /\ x.state = s /\ x.chapters = k.chapters /\ x.loose = k.loose
         /\ k.state \in {"ended", "active", "paused"} /\ k.chapters \in SUBSET Chapters
         /\ k.loose \in BOOLEAN
BY DEF Job, Ended

LEMMA UnitFields == ASSUME NEW u \in Units PROVE u[1] \in Chapters /\ u[2] \in Stages /\ u = <<u[1], u[2]>>
BY DEF Units

LEMMA CarryIs == ASSUME NEW t PROVE Carry(t) = Idle \/ Carry(t) = t
BY DEF Carry
LEMMA BecomesFields ==
  ASSUME tick \in [Drivers -> Tick], NEW d \in Drivers, NEW t \in Tick, Becomes(d, t)
  PROVE  /\ tick' \in [Drivers -> Tick] /\ tick'[d] = t
         /\ \A e \in Drivers : e # d => tick'[e] = tick[e]
BY DEF Becomes

LEMMA CarryType == ASSUME NEW t \in Tick PROVE Carry(t) \in Tick /\ Idle \in Tick
BY CarryIs, IdleIs DEF Is

-----------------------------------------------------------------------------
(* What every step makes of the tick it belongs to                         *)

\* The tick of d turns into one with these fields, the others are left alone.
Turns(d, pc, stuck, exhausted, todo, batch, release, job) ==
  /\ tick' \in [Drivers -> Tick]
  /\ Is(tick'[d], pc, stuck, exhausted, todo, batch, release, job)
  /\ \A e \in Drivers : e # d => tick'[e] = tick[e]
Ends(d) == Turns(d, "idle", {}, {}, {}, {}, {}, NoJob)

LEMMA Turning ==
  ASSUME tick \in [Drivers -> Tick], NEW d \in Drivers, NEW t, Becomes(d, t),
         NEW pc, NEW stuck, NEW exhausted, NEW todo, NEW batch, NEW release, NEW job,
         Is(t, pc, stuck, exhausted, todo, batch, release, job)
  PROVE  Turns(d, pc, stuck, exhausted, todo, batch, release, job)
<1>1. t \in Tick
  BY DEF Is
<1> QED
  BY <1>1, BecomesFields DEF Turns

LEMMA Carrying ==
  ASSUME tick \in [Drivers -> Tick], NEW d \in Drivers, NEW t, Becomes(d, Carry(t)),
         NEW pc, NEW stuck, NEW exhausted, NEW todo, NEW batch, NEW release, NEW job,
         Is(t, pc, stuck, exhausted, todo, batch, release, job)
  PROVE  Turns(d, pc, stuck, exhausted, todo, batch, release, job) \/ Ends(d)
BY CarryIs, IdleIs, Turning DEF Ends

LEMMA ClaimTurns ==
  ASSUME TypeOK, NEW d \in Drivers, Claim(d)
  PROVE  \E pc \in {"cancel", "reconcile"} : Turns(d, pc, {}, {}, {}, {}, {}, NoJob)
<1>1. PICK pc \in {"cancel", "reconcile"} : Becomes(d, At(pc))
  BY DEF Claim
<1> QED
  BY <1>1, AtIs, Turning DEF TypeOK, PCs

LEMMA CancelTurns ==
  ASSUME TypeOK, NEW d \in Drivers
  PROVE  /\ PropagateCancel(d) => Turns(d, "propagated", {}, {}, {}, {}, {}, NoJob)
         /\ MarkCancelled(d) => Turns(d, "finalize", {}, {}, {}, {}, {}, NoJob)
BY AtIs, Turning DEF TypeOK, PropagateCancel, MarkCancelled, PCs

LEMMA EndTurns ==
  ASSUME TypeOK, NEW d \in Drivers,
         FinalizeCancel(d) \/ FinishCampaign(d) \/ SetJobId(d) \/ Crash(d)
  PROVE  Ends(d)
BY IdleIs, Turning DEF TypeOK, FinalizeCancel, FinishCampaign, SetJobId, Crash, Ends

LEMMA FindStuckTurns ==
  ASSUME TypeOK, NEW d \in Drivers, FindStuck(d)
  PROVE  \E U \in SUBSET DispatchedUnits :
           Turns(d, "probe", {<<u, jobOf[u[1]]>> : u \in U}, {}, {}, {}, {}, NoJob)
<1>1. PICK U \in SUBSET DispatchedUnits :
        Becomes(d, [At("probe") EXCEPT !.stuck = {<<u, jobOf[u[1]]>> : u \in U}])
  BY DEF FindStuck, FindStuckAmong
<1>2. {<<u, jobOf[u[1]]>> : u \in U} \in SUBSET (Units \X (Jobs \cup {NoJob}))
  BY UnitFields DEF DispatchedUnits, TypeOK
<1> QED
  BY <1>1, <1>2, StuckAtIs, Turning DEF TypeOK

LEMMA LoadTurns ==
  ASSUME TypeOK, NEW d \in Drivers, Load(d)
  PROVE  \/ Turns(d, "complete", {}, {}, {}, {}, {}, NoJob)
         \/ Turns(d, "loaded", {}, {u \in Ready : Exhausted(u)}, {u \in Ready : ~Exhausted(u)},
                  {}, {}, NoJob)
<1>1. {u \in Ready : ~Exhausted(u)} \in SUBSET Units /\ {u \in Ready : Exhausted(u)} \in SUBSET Units
  BY DEF Ready, Wanted, Units, TypeOK
<1>2. tick \in [Drivers -> Tick] /\ "complete" \in PCs
  BY DEF TypeOK, PCs
<1>3. \/ Becomes(d, At("complete"))
      \/ Becomes(d, [At("loaded") EXCEPT !.todo = {u \in Ready : ~Exhausted(u)},
                                         !.exhausted = {u \in Ready : Exhausted(u)}])
  BY DEF Load
<1>4. Is(At("complete"), "complete", {}, {}, {}, {}, {}, NoJob)
  BY <1>2, AtIs
<1>5. Is([At("loaded") EXCEPT !.todo = {u \in Ready : ~Exhausted(u)},
                              !.exhausted = {u \in Ready : Exhausted(u)}],
         "loaded", {}, {u \in Ready : Exhausted(u)}, {u \in Ready : ~Exhausted(u)}, {}, {}, NoJob)
  BY <1>1, LoadedIs
<1> QED
  BY <1>2, <1>3, <1>4, <1>5, Turning

LEMMA ProbeTurns ==
  ASSUME TypeOK, NEW d \in Drivers, Probe(d)
  PROVE  \E r \in tick[d].stuck :
           Turns(d, tick[d].pc, tick[d].stuck \ {r}, tick[d].exhausted, tick[d].todo,
                 tick[d].batch, tick[d].release, tick[d].job)
<1>1. PICK r \in tick[d].stuck : Becomes(d, [tick[d] EXCEPT !.stuck = @ \ {r}])
  BY DEF Probe
<1>2. tick[d] \in Tick /\ tick \in [Drivers -> Tick]
  BY DEF TypeOK
<1>3. tick[d].stuck \ {r} \in SUBSET (Units \X (Jobs \cup {NoJob}))
  BY <1>2, TickTypes
<1> QED
  BY <1>1, <1>2, <1>3, StuckIs, Turning

LEMMA AskTurns ==
  ASSUME TypeOK, NEW d \in Drivers, AskKnowledge(d)
  PROVE  \E pc \in Reconciling, R \in SUBSET tick[d].stuck :
           /\ Turns(d, pc, R, tick[d].exhausted, tick[d].todo, tick[d].batch, tick[d].release,
                    tick[d].job)
           /\ pc = "extracted" => extraction = "complete"
<1>1. tick[d] \in Tick /\ tick \in [Drivers -> Tick] /\ tick[d].pc = "probe"
  BY DEF TypeOK, AskKnowledge
<1>2. CASE Becomes(d, [tick[d] EXCEPT !.stuck = tick[d].stuck \ KnowledgeStuck(d)])
  <2>1. tick[d].stuck \ KnowledgeStuck(d) \in SUBSET (Units \X (Jobs \cup {NoJob}))
    BY <1>1, TickTypes
  <2> QED
    <3>1. "probe" \in Reconciling /\ tick[d].stuck \ KnowledgeStuck(d) \in SUBSET tick[d].stuck
      BY DEF Reconciling
    <3>2. Turns(d, "probe", tick[d].stuck \ KnowledgeStuck(d), tick[d].exhausted, tick[d].todo,
                tick[d].batch, tick[d].release, tick[d].job)
      BY <1>1, <1>2, <2>1, StuckIs, Turning
    <3> QED
      BY <3>1, <3>2
<1>3. ASSUME NEW pc \in {"extracted", "not_extracted"}, Becomes(d, [tick[d] EXCEPT !.pc = pc]),
             pc = "extracted" => extraction = "complete"
      PROVE  Turns(d, pc, tick[d].stuck, tick[d].exhausted, tick[d].todo, tick[d].batch,
                   tick[d].release, tick[d].job)
  BY <1>1, <1>3, PcIs, Turning
<1> QED
  BY <1>2, <1>3 DEF AskKnowledge, Reconciling

LEMMA CountTurns ==
  ASSUME TypeOK, NEW d \in Drivers, Count(d)
  PROVE  \/ Ends(d)
         \/ LET budget == campaign.window - Cardinality(Inflight)
            IN  budget > 0 /\ Turns(d, "work", tick[d].stuck, tick[d].exhausted,
                                    FirstOf(tick[d].todo, budget), tick[d].batch,
                                    tick[d].release, tick[d].job)
<1> DEFINE budget == campaign.window - Cardinality(Inflight)
<1>0. tick[d] \in Tick /\ tick \in [Drivers -> Tick]
  BY DEF TypeOK
<1>1. CASE budget <= 0
  BY <1>0, <1>1, IdleIs, Turning DEF Count, Ends
<1>2. CASE ~(budget <= 0)
  <2>1. Becomes(d, Carry([tick[d] EXCEPT !.pc = "work", !.todo = FirstOf(@, budget)]))
    BY <1>2 DEF Count
  <2>2. FirstOf(tick[d].todo, budget) \in SUBSET Units
    BY <1>0, TickTypes DEF FirstOf
  <2>3. Is([tick[d] EXCEPT !.pc = "work", !.todo = FirstOf(tick[d].todo, budget)],
           "work", tick[d].stuck, tick[d].exhausted, FirstOf(tick[d].todo, budget),
           tick[d].batch, tick[d].release, tick[d].job)
    BY <1>0, <2>2, WorkIs
  <2>4. Ends(d) \/ Turns(d, "work", tick[d].stuck, tick[d].exhausted, FirstOf(tick[d].todo, budget),
                         tick[d].batch, tick[d].release, tick[d].job)
    BY <1>0, <2>1, <2>3, Carrying
  <2>5. budget > 0 \/ Ends(d)
    <3>1. CASE Cardinality(Inflight) \in Int
      BY <1>2, <3>1 DEF TypeOK
    <3>2. Cardinality(Inflight) \in Int
      BY ChaptersAreSorted, FS_Subset, FS_CardinalityType DEF Inflight
    <3> QED
      BY <3>1, <3>2
  <2> QED
    BY <2>4, <2>5
<1> QED
  BY <1>1, <1>2

LEMMA ExhaustedTurns ==
  ASSUME TypeOK, NEW d \in Drivers, MarkExhausted(d)
  PROVE  \E u \in tick[d].exhausted :
           /\ stage' = [stage EXCEPT ![u] = "failed"]
           /\ \/ Ends(d)
              \/ Turns(d, tick[d].pc, tick[d].stuck, tick[d].exhausted \ {u}, tick[d].todo,
                       tick[d].batch, tick[d].release, tick[d].job)
<1>1. PICK u \in tick[d].exhausted :
        stage' = [stage EXCEPT ![u] = "failed"]
        /\ Becomes(d, Carry([tick[d] EXCEPT !.exhausted = @ \ {u}]))
  BY DEF MarkExhausted
<1>2. tick[d] \in Tick /\ tick \in [Drivers -> Tick]
  BY DEF TypeOK
<1>3. tick[d].exhausted \ {u} \in SUBSET Units
  BY <1>2, TickTypes
<1> QED
  BY <1>1, <1>2, <1>3, ExhaustedIs, Carrying

LEMMA ReleaseTurns ==
  ASSUME TypeOK, NEW d \in Drivers, Release(d)
  PROVE  \E u \in tick[d].release :
           /\ stage' = [stage EXCEPT ![u] = "failed"]
           /\ \/ Ends(d)
              \/ Turns(d, tick[d].pc, tick[d].stuck, tick[d].exhausted, tick[d].todo,
                       tick[d].batch, tick[d].release \ {u}, tick[d].job)
<1>1. PICK u \in tick[d].release :
        stage' = [stage EXCEPT ![u] = "failed"]
        /\ Becomes(d, Carry([tick[d] EXCEPT !.release = @ \ {u}]))
  BY DEF Release
<1>2. tick[d] \in Tick /\ tick \in [Drivers -> Tick]
  BY DEF TypeOK
<1>3. tick[d].release \ {u} \in SUBSET Units
  BY <1>2, TickTypes
<1> QED
  BY <1>1, <1>2, <1>3, ReleaseIs, Carrying

\* The unit of a mark, and what the mark makes of it.
Marks(d, u) ==
  /\ u \in tick[d].todo /\ tick[d].exhausted = {} /\ tick[d].release = {}
  /\ \A v \in tick[d].batch : v[2] = u[2]
  /\ IF Dispatchable(u)
       THEN /\ stage' = [stage EXCEPT ![u] = "dispatched"]
            /\ attempts' = [attempts EXCEPT ![u] = @ + 1]
       ELSE UNCHANGED <<stage, attempts>>
  /\ Turns(d, tick[d].pc, tick[d].stuck, tick[d].exhausted, tick[d].todo \ {u},
           tick[d].batch \cup {u}, tick[d].release, tick[d].job)

LEMMA MarkTurns ==
  ASSUME TypeOK, NEW d \in Drivers, MarkDispatched(d)
  PROVE  \E u \in tick[d].todo : Marks(d, u)
<1>1. PICK u \in Upcoming(d, tick[d].todo) :
        /\ \A v \in tick[d].batch : v[2] = u[2]
        /\ IF Dispatchable(u)
             THEN /\ stage' = [stage EXCEPT ![u] = "dispatched"]
                  /\ attempts' = [attempts EXCEPT ![u] = @ + 1]
             ELSE UNCHANGED <<stage, attempts>>
        /\ Becomes(d, [tick[d] EXCEPT !.todo = @ \ {u}, !.batch = @ \cup {u}])
  BY DEF MarkDispatched
<1>2. tick[d] \in Tick /\ tick \in [Drivers -> Tick]
  BY DEF TypeOK
<1>3. u \in tick[d].todo /\ tick[d].exhausted = {} /\ tick[d].release = {}
  BY DEF Upcoming
<1>4. tick[d].todo \ {u} \in SUBSET Units /\ tick[d].batch \cup {u} \in SUBSET Units
  BY <1>2, <1>3, TickTypes
<1>5. Turns(d, tick[d].pc, tick[d].stuck, tick[d].exhausted, tick[d].todo \ {u},
            tick[d].batch \cup {u}, tick[d].release, tick[d].job)
  BY <1>1, <1>2, <1>4, MarkedIs, Turning
<1> QED
  BY <1>1, <1>3, <1>5 DEF Marks

Refuses(d) ==
  Turns(d, tick[d].pc, tick[d].stuck, tick[d].exhausted, tick[d].todo, {}, tick[d].batch, tick[d].job)
Sends(d, j) ==
  Turns(d, "stamp", tick[d].stuck, tick[d].exhausted, tick[d].todo, tick[d].batch, tick[d].release, j)

LEMMA RefusedTurns == ASSUME TypeOK, NEW d \in Drivers, Refused(d) PROVE Refuses(d)
<1>1. tick[d] \in Tick /\ tick \in [Drivers -> Tick]
  BY DEF TypeOK
<1>2. tick[d].batch \in SUBSET Units /\ {} \in SUBSET Units
  BY <1>1, TickTypes
<1> QED
  BY <1>1, <1>2, RefusedIs, Turning DEF Refused, Refuses

LEMMA KnowledgeTurns ==
  ASSUME TypeOK, NEW d \in Drivers, CallKnowledge(d)
  PROVE  \/ Ends(d) \/ Refuses(d)
         \/ Turns(d, tick[d].pc, tick[d].stuck, tick[d].exhausted, tick[d].todo, {},
                  tick[d].release, tick[d].job)
<1>1. tick[d] \in Tick /\ tick \in [Drivers -> Tick] /\ {} \in SUBSET Units
  BY DEF TypeOK
<1>2. Refused(d) \/ Becomes(d, Carry([tick[d] EXCEPT !.batch = {}]))
  BY DEF CallKnowledge
<1> QED
  BY <1>1, <1>2, RefusedTurns, BatchIs, Carrying

LEMMA SendTurns ==
  ASSUME TypeOK, NEW d \in Drivers, NEW j \in Jobs, Becomes(d, [tick[d] EXCEPT !.pc = "stamp", !.job = j])
  PROVE  Sends(d, j)
<1>1. tick[d] \in Tick /\ tick \in [Drivers -> Tick]
  BY DEF TypeOK
<1> QED
  BY <1>1, StampIs, Turning DEF Sends

LEMMA TranslationTurns ==
  ASSUME TypeOK, NEW d \in Drivers, CallTranslation(d)
  PROVE  Refuses(d) \/ \E j \in Jobs : Sends(d, j)
BY RefusedTurns, SendTurns DEF CallTranslation

-----------------------------------------------------------------------------
(* Types                                                                   *)

LEMMA TypeInit == Init => TypeOK
<1> SUFFICES ASSUME Init PROVE TypeOK
  OBVIOUS
<1>1. campaign \in [chapters: SUBSET Chapters, stages: SUBSET Stages, barrier: BOOLEAN,
                    cap: Nat \ {0}, window: Nat \ {0}] /\ faults \in SUBSET FaultKinds
  <2>1. PICK s \in Setups :
          /\ campaign = [chapters |-> s.chapters, stages |-> s.stages, barrier |-> s.barrier,
                         cap |-> s.cap, window |-> s.window]
          /\ faults = s.faults
    BY DEF Init
  <2>2. s \in [chapters: SUBSET Chapters, stages: SUBSET Stages, barrier: BOOLEAN,
               cap: Nat \ {0}, window: Nat \ {0}, faults: SUBSET FaultKinds]
    BY SetupsAreCampaigns
  <2> QED
    BY <2>1, <2>2
<1>2. Idle \in Tick /\ Ended \in Job
  BY DEF Idle, Tick, Ended, Job
<1>3. /\ status \in Statuses /\ stage \in [Units -> StageStatus] /\ attempts \in [Units -> Nat]
      /\ jobOf \in [Chapters -> Jobs \cup {NoJob}] /\ lease \in Drivers \cup {"free"}
      /\ calls \subseteq Calls /\ extraction \in {"none", "active", "complete"}
      /\ finished \subseteq Units /\ presumed \subseteq Units /\ overlapped \in BOOLEAN
  BY DEF Init, Statuses, StageStatus
<1>4. tick \in [Drivers -> Tick] /\ jobs \in [Jobs -> Job]
  BY <1>2 DEF Init
<1> QED
  BY <1>1, <1>3, <1>4 DEF TypeOK

\* A step of a driver is of its own tick.
LEMMA OthersWait ==
  ASSUME TypeOK, NEW d \in Drivers, Claim(d) \/ TickStep(d) \/ Crash(d)
  PROVE  tick' \in [Drivers -> Tick] /\ \A e \in Drivers : e # d => tick'[e] = tick[e]
BY ClaimTurns, CancelTurns, EndTurns, FindStuckTurns, AskTurns, LoadTurns, ProbeTurns, CountTurns,
   ExhaustedTurns, ReleaseTurns, MarkTurns, KnowledgeTurns, TranslationTurns
   DEF TickStep, Turns, Ends, Marks, Refuses, Sends

\* Every other step leaves the ticks alone.
Outside ==
  \/ LeaseExpires
  \/ \E c \in Chapters : Extract(c)
  \/ ExtractionEnds \/ OtherExtraction
  \/ \E j \in Jobs : JobEnds(j) \/ JobPaused(j) \/ JobResumed(j) \/ \E c \in Chapters : Translate(j, c)
  \/ \E u \in Units : Absorb(u) \/ CircuitOpen(u)
  \/ SpendCapReached
  \/ \E c \in Calls : CallRoute(c) \/ SetStatus(c) \/ \E C \in SUBSET Chapters : ResetFailed(c, C)
  \/ UNCHANGED vars

LEMMA TicksRest == ASSUME Outside PROVE UNCHANGED <<tick, overlapped, campaign>>
BY DEF Outside, LeaseExpires, Extract, ExtractionEnds, OtherExtraction, JobEnds, JobPaused, JobResumed, JobBecomes,
       Translate, Absorb, CircuitOpen, SpendCapReached, CallRoute, SetStatus, ResetFailed, vars, history

LEMMA Sides ==
  [Next]_vars => Outside \/ \E d \in Drivers : Claim(d) \/ TickStep(d) \/ Crash(d)
BY DEF Next, Outside

LEMMA TickNext == TypeOK /\ [Next]_vars => tick' \in [Drivers -> Tick]
BY OthersWait, TicksRest, Sides DEF TypeOK

LEMMA CampaignKept == [Next]_vars => campaign' = campaign
<1>1. ASSUME NEW d \in Drivers, Claim(d) \/ TickStep(d) \/ Crash(d) PROVE campaign' = campaign
  BY <1>1 DEF Claim, TickStep, Crash, PropagateCancel, MarkCancelled, FinalizeCancel, FindStuck,
       FindStuckAmong, AskKnowledge, Probe, Load, FinishCampaign, Count, MarkExhausted, MarkDispatched,
       CallKnowledge, CallTranslation, SetJobId, Release
<1> QED
  BY <1>1, Sides, TicksRest

-----------------------------------------------------------------------------
(* Types of the rows and the jobs                                          *)

LEMMA MarkedDoneType ==
  ASSUME stage \in [Units -> StageStatus], NEW u \in Units
  PROVE  /\ MarkedDone(u) \in [Units -> StageStatus]
         /\ ResetStuck(u) \in [Units -> StageStatus]
         /\ \A s \in StageStatus : [stage EXCEPT ![u] = s] \in [Units -> StageStatus]
BY DEF MarkedDone, ResetStuck, StageStatus

LEMMA RowsNext ==
  TypeOK /\ [Next]_vars =>
    /\ stage' \in [Units -> StageStatus] /\ attempts' \in [Units -> Nat]
    /\ jobOf' \in [Chapters -> Jobs \cup {NoJob}]
<1> SUFFICES ASSUME TypeOK, [Next]_vars
             PROVE  /\ stage' \in [Units -> StageStatus] /\ attempts' \in [Units -> Nat]
                    /\ jobOf' \in [Chapters -> Jobs \cup {NoJob}]
  OBVIOUS
<1> DEFINE Goal == /\ stage' \in [Units -> StageStatus] /\ attempts' \in [Units -> Nat]
                   /\ jobOf' \in [Chapters -> Jobs \cup {NoJob}]
<1>0. /\ stage \in [Units -> StageStatus] /\ attempts \in [Units -> Nat]
      /\ jobOf \in [Chapters -> Jobs \cup {NoJob}] /\ tick \in [Drivers -> Tick]
      /\ "failed" \in StageStatus /\ "dispatched" \in StageStatus /\ "pending" \in StageStatus
  BY DEF TypeOK, StageStatus
<1>1. CASE UNCHANGED rows
  BY <1>0, <1>1 DEF rows
<1>2. ASSUME NEW d \in Drivers, MarkCancelled(d) PROVE Goal
  BY <1>0, <1>2 DEF MarkCancelled
<1>3. ASSUME NEW d \in Drivers, Probe(d) PROVE Goal
  <2>1. PICK r \in tick[d].stuck : stage' \in {stage, MarkedDone(r[1]), ResetStuck(r[1])}
    BY <1>3 DEF Probe
  <2>2. r[1] \in Units
    BY <1>0, TickTypes
  <2> QED
    BY <1>0, <1>3, <2>1, <2>2, MarkedDoneType DEF Probe
<1>4. ASSUME NEW d \in Drivers, MarkExhausted(d) PROVE Goal
  <2>1. PICK u \in tick[d].exhausted : stage' = [stage EXCEPT ![u] = "failed"]
    BY <1>4, ExhaustedTurns
  <2> QED
    BY <1>0, <1>4, <2>1 DEF MarkExhausted
<1>5. ASSUME NEW d \in Drivers, Release(d) PROVE Goal
  <2>1. PICK u \in tick[d].release : stage' = [stage EXCEPT ![u] = "failed"]
    BY <1>5, ReleaseTurns
  <2> QED
    BY <1>0, <1>5, <2>1 DEF Release
<1>6. ASSUME NEW d \in Drivers, MarkDispatched(d) PROVE Goal
  <2>1. PICK u \in tick[d].todo : Marks(d, u)
    BY <1>6, MarkTurns
  <2>2. stage' \in [Units -> StageStatus] /\ attempts' \in [Units -> Nat]
    BY <1>0, <2>1 DEF Marks
  <2> QED
    BY <1>0, <1>6, <2>2 DEF MarkDispatched
<1>7. ASSUME NEW d \in Drivers, SetJobId(d) PROVE Goal
  <2>1. tick[d].job \in Jobs \cup {NoJob}
    BY <1>0, TickTypes
  <2> QED
    BY <1>0, <1>7, <2>1 DEF SetJobId
<1>8. ASSUME NEW u \in Units, Absorb(u) PROVE Goal
  BY <1>0, <1>8, MarkedDoneType DEF Absorb
<1>9. ASSUME NEW c \in Calls, NEW C \in SUBSET Chapters, ResetFailed(c, C) PROVE Goal
  BY <1>0, <1>9 DEF ResetFailed
<1>10. ASSUME NEW d \in Drivers,
              \/ Claim(d) \/ PropagateCancel(d) \/ FinalizeCancel(d) \/ FindStuck(d) \/ AskKnowledge(d) \/ Load(d)
              \/ FinishCampaign(d) \/ Count(d) \/ CallKnowledge(d) \/ CallTranslation(d) \/ Crash(d)
       PROVE  UNCHANGED rows
  BY <1>10 DEF Claim, PropagateCancel, FinalizeCancel, FindStuck, FindStuckAmong, AskKnowledge, Load,
       FinishCampaign, Count, CallKnowledge, CallTranslation, Crash, rows
<1>11. \/ \E u \in Units : Absorb(u)
       \/ \E c \in Calls : \E C \in SUBSET Chapters : ResetFailed(c, C)
       \/ UNCHANGED rows
       \/ ~Outside
  BY DEF Outside, LeaseExpires, Extract, ExtractionEnds, OtherExtraction, JobEnds, JobPaused, JobResumed, JobBecomes,
       Translate, CircuitOpen, SpendCapReached, CallRoute, SetStatus, vars, rows
<1> QED
  BY <1>1, <1>2, <1>3, <1>4, <1>5, <1>6, <1>7, <1>8, <1>9, <1>10, <1>11, Sides DEF TickStep

LEMMA LoosenedType ==
  ASSUME jobs \in [Jobs -> Job], NEW j \in Jobs
  PROVE  /\ Loosened(j) \in Job /\ Loosened(j).chapters = jobs[j].chapters
         /\ Loosened(j).state = jobs[j].state
         /\ Loosened(j).loose <=> jobs[j].state # "ended"
<1>1. ASSUME NEW k \in Job, NEW b \in BOOLEAN
      PROVE  LET x == [k EXCEPT !.loose = b]
             IN  x \in Job /\ x.state = k.state /\ x.chapters = k.chapters /\ (x.loose <=> b)
  BY DEF Job
<1>2. Alive(j) \in BOOLEAN
  BY DEF Alive
<1> QED
  BY <1>1, <1>2 DEF Loosened, Alive

LEMMA CreatedType ==
  ASSUME NEW U \in SUBSET Units, NEW b \in BOOLEAN
  PROVE  /\ Created(U, b) \in Job /\ Created(U, b).state = "active"
         /\ Created(U, b).chapters = {u[1] : u \in U \ finished}
         /\ Created(U, b).loose <=> b
<1>1. {u[1] : u \in U \ finished} \in SUBSET Chapters
  BY UnitFields
<1>2. ASSUME NEW C \in SUBSET Chapters
      PROVE  LET k == [state |-> "active", chapters |-> C, loose |-> b]
             IN  k \in Job /\ k.state = "active" /\ k.chapters = C /\ (k.loose <=> b)
  BY DEF Job
<1> QED
  BY <1>1, <1>2 DEF Created

LEMMA JobsNext == TypeOK /\ [Next]_vars => jobs' \in [Jobs -> Job]
<1> SUFFICES ASSUME TypeOK, [Next]_vars PROVE jobs' \in [Jobs -> Job]
  OBVIOUS
<1>0. jobs \in [Jobs -> Job] /\ Ended \in Job /\ tick \in [Drivers -> Tick]
  BY DEF TypeOK, Ended, Job
<1>1. ASSUME NEW d \in Drivers, PropagateCancel(d) PROVE jobs' \in [Jobs -> Job]
  <2>1. PICK failing \in SUBSET Recorded :
          jobs' = [j \in Jobs |-> IF j \in failing THEN Loosened(j)
                                  ELSE IF j \in Recorded THEN Ended ELSE jobs[j]]
    BY <1>1 DEF PropagateCancel
  <2> QED
    BY <1>0, <2>1, LoosenedType
<1>2. ASSUME NEW d \in Drivers, CallTranslation(d) PROVE jobs' \in [Jobs -> Job]
  <2>1. tick[d].batch \in SUBSET Units
    BY <1>0, TickTypes
  <2>2. \/ jobs' = jobs
        \/ \E j \in Jobs, b \in BOOLEAN : jobs' = [jobs EXCEPT ![j] = Created(tick[d].batch, b)]
    BY <1>2 DEF CallTranslation
  <2> QED
    BY <1>0, <2>1, <2>2, CreatedType
<1>3. ASSUME NEW d \in Drivers, Crash(d) PROVE jobs' \in [Jobs -> Job]
  BY <1>0, <1>3, LoosenedType DEF Crash
<1>4. ASSUME NEW j \in Jobs, NEW c \in Chapters, Translate(j, c) PROVE jobs' \in [Jobs -> Job]
  <2>1. jobs[j].chapters \ {c} \in SUBSET Chapters
    BY <1>0, JobFields
  <2>2. [jobs[j] EXCEPT !.chapters = jobs[j].chapters \ {c}] \in Job
    BY <1>0, <2>1 DEF Job
  <2> QED
    BY <1>0, <1>4, <2>2 DEF Translate
<1>5. ASSUME NEW j \in Jobs, JobEnds(j) \/ JobPaused(j) \/ JobResumed(j) PROVE jobs' \in [Jobs -> Job]
  <2>1. /\ [Loosened(j) EXCEPT !.state = "paused"] \in Job
        /\ [jobs[j] EXCEPT !.state = "active"] \in Job
    BY <1>0, LoosenedType DEF Job
  <2> QED
    BY <1>0, <1>5, <2>1 DEF JobEnds, JobPaused, JobResumed, JobBecomes
<1>6. \/ jobs' = jobs
      \/ \E d \in Drivers : PropagateCancel(d) \/ CallTranslation(d) \/ Crash(d)
      \/ \E j \in Jobs : JobEnds(j) \/ JobPaused(j) \/ JobResumed(j) \/ \E c \in Chapters : Translate(j, c)
  BY DEF Next, TickStep, vars, downstream, Claim, MarkCancelled, FinalizeCancel, FindStuck,
         FindStuckAmong, AskKnowledge, Probe, Load, FinishCampaign, Count, MarkExhausted, MarkDispatched,
         CallKnowledge, SetJobId, Release, LeaseExpires, Extract, ExtractionEnds, OtherExtraction, Absorb,
         CircuitOpen, SpendCapReached, CallRoute, SetStatus, ResetFailed
<1> QED
  BY <1>0, <1>1, <1>2, <1>3, <1>4, <1>5, <1>6

LEMMA OthersNext ==
  TypeOK /\ [Next]_vars =>
    /\ status' \in Statuses /\ lease' \in Drivers \cup {"free"} /\ calls' \subseteq Calls
    /\ extraction' \in {"none", "active", "complete"} /\ finished' \subseteq Units /\ presumed' \subseteq Units
    /\ overlapped' \in BOOLEAN /\ faults' \subseteq FaultKinds
<1> SUFFICES ASSUME TypeOK, [Next]_vars
             PROVE  /\ status' \in Statuses /\ lease' \in Drivers \cup {"free"} /\ calls' \subseteq Calls
                    /\ extraction' \in {"none", "active", "complete"} /\ finished' \subseteq Units /\ presumed' \subseteq Units
                    /\ overlapped' \in BOOLEAN /\ faults' \subseteq FaultKinds
  OBVIOUS
<1> DEFINE Goal == /\ status' \in Statuses /\ lease' \in Drivers \cup {"free"} /\ calls' \subseteq Calls
                   /\ extraction' \in {"none", "active", "complete"} /\ finished' \subseteq Units /\ presumed' \subseteq Units
                   /\ overlapped' \in BOOLEAN /\ faults' \subseteq FaultKinds
<1> USE DEF TypeOK, Statuses, downstream, history, Fault
<1>1. ASSUME NEW d \in Drivers, Claim(d) PROVE Goal
  BY <1>1 DEF Claim
<1>2. ASSUME NEW d \in Drivers, PropagateCancel(d) PROVE Goal
  BY <1>2 DEF PropagateCancel
<1>3. ASSUME NEW d \in Drivers,
             \/ MarkCancelled(d) \/ FinalizeCancel(d) \/ FindStuck(d) \/ AskKnowledge(d) \/ Load(d)
             \/ FinishCampaign(d) \/ Count(d) \/ MarkExhausted(d) \/ MarkDispatched(d)
             \/ SetJobId(d) \/ Release(d)
      PROVE  Goal
  BY <1>3 DEF MarkCancelled, FinalizeCancel, FindStuck, FindStuckAmong, AskKnowledge, Load,
       FinishCampaign, Count, MarkExhausted, MarkDispatched, SetJobId, Release
<1>14. ASSUME NEW d \in Drivers, Probe(d) PROVE Goal
  <2>1. PICK r \in tick[d].stuck : presumed' \in {presumed, presumed \cup Presumed(r[1])}
    BY <1>14 DEF Probe
  <2>2. r[1] \in Units
    BY TickTypes
  <2>3. Presumed(r[1]) \subseteq Units
    BY <2>2 DEF Presumed
  <2>4. presumed' \subseteq Units
    BY <2>1, <2>3
  <2> QED
    BY <1>14, <2>4 DEF Probe
<1>4. ASSUME NEW d \in Drivers, CallKnowledge(d) \/ CallTranslation(d) \/ Crash(d) PROVE Goal
  BY <1>4 DEF CallKnowledge, CallTranslation, Crash
<1>5. CASE LeaseExpires
  BY <1>5 DEF LeaseExpires
<1>6. ASSUME NEW c \in Chapters, Extract(c) PROVE Goal
  <2>1. <<c, "knowledge">> \in Units
    BY DEF Units, Stages
  <2> QED
    BY <1>6, <2>1 DEF Extract
<1>7. CASE ExtractionEnds \/ OtherExtraction
  BY <1>7 DEF ExtractionEnds, OtherExtraction
<1>8. ASSUME NEW j \in Jobs, NEW c \in Chapters, Translate(j, c) PROVE Goal
  <2>1. <<c, "translation">> \in Units
    BY DEF Units, Stages
  <2> QED
    BY <1>8, <2>1 DEF Translate
<1>9. ASSUME NEW j \in Jobs, JobEnds(j) \/ JobPaused(j) \/ JobResumed(j) PROVE Goal
  BY <1>9 DEF JobEnds, JobPaused, JobResumed, JobBecomes
<1>10. ASSUME NEW u \in Units, Absorb(u) \/ CircuitOpen(u) PROVE Goal
  BY <1>10 DEF Absorb, CircuitOpen
<1>11. CASE SpendCapReached
  BY <1>11 DEF SpendCapReached
<1>12. ASSUME NEW c \in Calls, CallRoute(c) \/ SetStatus(c) \/ \E C \in SUBSET Chapters : ResetFailed(c, C)
       PROVE  Goal
  BY <1>12 DEF CallRoute, SetStatus, ResetFailed, Written, Calls
<1>13. CASE UNCHANGED vars
  BY <1>13 DEF vars
<1> QED
  BY <1>1, <1>2, <1>3, <1>4, <1>5, <1>6, <1>7, <1>8, <1>9, <1>10, <1>11, <1>12, <1>13, <1>14
     DEF Next, TickStep

LEMMA TypeNext == TypeOK /\ [Next]_vars => TypeOK'
BY TickNext, CampaignKept, RowsNext, JobsNext, OthersNext DEF TypeOK

\* The types of CampaignSaga.
THEOREM CampaignTypes == Spec => []TypeOK
BY TypeInit, TypeNext, PTL DEF Spec

-----------------------------------------------------------------------------
(* What a tick holds                                                       *)

Held(t) == t.exhausted \cup t.todo \cup t.batch \cup t.release

\* Which parts of a tick are in use, by how far it has come.
Shape(t) ==
  /\ t.pc \notin {"loaded", "work", "stamp"} => Held(t) = {}
  /\ t.pc = "loaded" => t.batch = {} /\ t.release = {}
  /\ t.pc # "stamp" => t.job = NoJob
  /\ t.pc \notin Reconciling => t.stuck = {}
  /\ t.batch # {} => t.exhausted = {} /\ t.release = {}
  /\ \A u, v \in t.batch : u[2] = v[2]

ShapeInv == \A d \in Drivers : Shape(tick[d])

LEMMA ShapeOf ==
  ASSUME NEW d \in Drivers, NEW pc, NEW stuck, NEW exhausted, NEW todo, NEW batch, NEW release,
         NEW job, Turns(d, pc, stuck, exhausted, todo, batch, release, job),
         pc \notin {"loaded", "work", "stamp"} => exhausted \cup todo \cup batch \cup release = {},
         pc = "loaded" => batch = {} /\ release = {},
         pc # "stamp" => job = NoJob,
         pc \notin Reconciling => stuck = {},
         batch # {} => exhausted = {} /\ release = {},
         \A u, v \in batch : u[2] = v[2]
  PROVE  Shape(tick'[d])
BY DEF Turns, Is, Shape, Held

LEMMA EndShape == ASSUME NEW d \in Drivers, Ends(d) PROVE Shape(tick'[d]) /\ Held(tick'[d]) = {}
<1>1. Turns(d, "idle", {}, {}, {}, {}, {}, NoJob)
  BY DEF Ends
<1> QED
  BY <1>1 DEF Turns, Is, Shape, Held

LEMMA StepShape ==
  ASSUME TypeOK, NEW d \in Drivers, Shape(tick[d]), Claim(d) \/ TickStep(d) \/ Crash(d)
  PROVE  Shape(tick'[d])
<1>0. tick[d].pc = "work" =>
        tick[d].job = NoJob /\ tick[d].stuck = {} /\ (tick[d].batch # {} => tick[d].release = {})
  BY DEF Shape, Reconciling
<1>1. CASE Claim(d)
  BY <1>1, ClaimTurns, ShapeOf
<1>2. CASE PropagateCancel(d) \/ MarkCancelled(d)
  BY <1>2, CancelTurns, ShapeOf
<1>3. CASE FinalizeCancel(d) \/ FinishCampaign(d) \/ SetJobId(d) \/ Crash(d)
  BY <1>3, EndTurns, EndShape
<1>4. CASE FindStuck(d)
  <2>1. PICK R : Turns(d, "probe", R, {}, {}, {}, {}, NoJob)
    BY <1>4, FindStuckTurns
  <2> QED
    BY <2>1 DEF Shape, Turns, Is, Held, Reconciling
<1>14. CASE AskKnowledge(d)
  <2>1. tick[d].pc = "probe"
    BY <1>14 DEF AskKnowledge
  <2>2. PICK pc \in Reconciling, R \in SUBSET tick[d].stuck :
          Turns(d, pc, R, tick[d].exhausted, tick[d].todo, tick[d].batch, tick[d].release, tick[d].job)
    BY <1>14, AskTurns
  <2>3. pc \notin {"loaded", "work", "stamp"}
    BY DEF Reconciling
  <2> QED
    BY <2>1, <2>2, <2>3 DEF Shape, Turns, Is, Held
<1>5. CASE Probe(d)
  <2>1. tick[d].pc \in Reconciling
    BY <1>5 DEF Probe
  <2>2. PICK r \in tick[d].stuck :
          Turns(d, tick[d].pc, tick[d].stuck \ {r}, tick[d].exhausted, tick[d].todo,
                tick[d].batch, tick[d].release, tick[d].job)
    BY <1>5, ProbeTurns
  <2> QED
    BY <2>1, <2>2 DEF Shape, Turns, Is, Held
<1>6. CASE Load(d)
  <2> DEFINE Gone == {u \in Ready : Exhausted(u)}
             Left == {u \in Ready : ~Exhausted(u)}
  <2>1. \/ Turns(d, "complete", {}, {}, {}, {}, {}, NoJob)
        \/ Turns(d, "loaded", {}, Gone, Left, {}, {}, NoJob)
    BY <1>6, LoadTurns
  <2> HIDE DEF Gone, Left
  <2> QED
    BY <2>1 DEF Shape, Turns, Is, Held
<1>7. CASE Count(d)
  <2>1. tick[d].pc = "loaded"
    BY <1>7 DEF Count
  <2>2. ASSUME NEW T, Turns(d, "work", tick[d].stuck, tick[d].exhausted, T, tick[d].batch,
                            tick[d].release, tick[d].job)
        PROVE  Shape(tick'[d])
    BY <2>1, <2>2 DEF Shape, Reconciling, Turns, Is, Held
  <2> QED
    BY <1>7, <2>2, CountTurns, EndShape
<1>8. CASE MarkExhausted(d)
  <2>1. tick[d].pc = "work"
    BY <1>8 DEF MarkExhausted
  <2>2. PICK u \in tick[d].exhausted :
          \/ Ends(d)
          \/ Turns(d, tick[d].pc, tick[d].stuck, tick[d].exhausted \ {u}, tick[d].todo,
                   tick[d].batch, tick[d].release, tick[d].job)
    BY <1>8, ExhaustedTurns
  <2> QED
    BY <2>1, <2>2, EndShape DEF Shape, Turns, Is, Held
<1>9. CASE Release(d)
  <2>1. tick[d].pc = "work"
    BY <1>9 DEF Release
  <2>2. PICK u \in tick[d].release :
          \/ Ends(d)
          \/ Turns(d, tick[d].pc, tick[d].stuck, tick[d].exhausted, tick[d].todo,
                   tick[d].batch, tick[d].release \ {u}, tick[d].job)
    BY <1>9, ReleaseTurns
  <2> QED
    BY <2>1, <2>2, EndShape DEF Shape, Turns, Is, Held
<1>10. CASE MarkDispatched(d)
  <2>1. tick[d].pc = "work"
    BY <1>10 DEF MarkDispatched
  <2>2. PICK u \in tick[d].todo : Marks(d, u)
    BY <1>10, MarkTurns
  <2> QED
    BY <2>1, <2>2 DEF Marks, Shape, Turns, Is, Held
<1>11. ASSUME tick[d].pc = "work", Refuses(d) PROVE Shape(tick'[d])
  BY <1>11 DEF Refuses, Shape, Turns, Is, Held
<1>12. CASE CallKnowledge(d)
  <2>1. tick[d].pc = "work"
    BY <1>12 DEF CallKnowledge, BatchMarked
  <2>2. ASSUME Turns(d, tick[d].pc, tick[d].stuck, tick[d].exhausted, tick[d].todo, {},
                     tick[d].release, tick[d].job)
        PROVE  Shape(tick'[d])
    BY <2>1, <2>2 DEF Shape, Turns, Is, Held
  <2> QED
    BY <1>11, <1>12, <2>1, <2>2, KnowledgeTurns, EndShape
<1>13. CASE CallTranslation(d)
  <2>1. tick[d].pc = "work"
    BY <1>13 DEF CallTranslation, BatchMarked
  <2>2. ASSUME NEW j \in Jobs, Sends(d, j) PROVE Shape(tick'[d])
    BY <2>1, <2>2 DEF Sends, Shape, Reconciling, Turns, Is, Held
  <2> QED
    BY <1>11, <1>13, <2>1, <2>2, TranslationTurns
<1> QED
  BY <1>1, <1>2, <1>3, <1>4, <1>5, <1>6, <1>7, <1>8, <1>9, <1>10, <1>12, <1>13, <1>14 DEF TickStep

LEMMA ShapeNext == TypeOK /\ ShapeInv /\ [Next]_vars => ShapeInv'
<1> SUFFICES ASSUME TypeOK, ShapeInv, [Next]_vars, NEW e \in Drivers PROVE Shape(tick'[e])
  BY DEF ShapeInv, Shape, Held
<1>1. CASE Outside
  BY <1>1, TicksRest DEF ShapeInv
<1>2. ASSUME NEW d \in Drivers, Claim(d) \/ TickStep(d) \/ Crash(d) PROVE Shape(tick'[e])
  BY <1>2, StepShape, OthersWait DEF ShapeInv
<1> QED
  BY <1>1, <1>2, Sides

LEMMA ShapeInit == Init => ShapeInv
BY IdleIs DEF Init, ShapeInv, Shape, Held, Is

\* Only Load puts something into the hands of a tick, and only a tick that is
\* under way has something.
LEMMA HeldShrinks ==
  ASSUME TypeOK, ShapeInv, NEW d \in Drivers, TickStep(d) \/ Crash(d), ~Load(d)
  PROVE  /\ Held(tick'[d]) \subseteq Held(tick[d])
         /\ tick'[d].todo \subseteq tick[d].todo
         /\ tick'[d].exhausted \cup tick'[d].release \subseteq
              tick[d].exhausted \cup tick[d].release \cup tick[d].batch
<1> DEFINE Goal == /\ Held(tick'[d]) \subseteq Held(tick[d])
                   /\ tick'[d].todo \subseteq tick[d].todo
                   /\ tick'[d].exhausted \cup tick'[d].release \subseteq
                        tick[d].exhausted \cup tick[d].release \cup tick[d].batch
<1>0. tick[d] \in Tick
  BY DEF TypeOK
<1>1. ASSUME Ends(d) PROVE Goal
  BY <1>1 DEF Ends, Turns, Is, Held
<1>2. ASSUME NEW pc, NEW stuck, Turns(d, pc, stuck, {}, {}, {}, {}, NoJob) PROVE Goal
  BY <1>2 DEF Turns, Is, Held
<1>3. CASE FinalizeCancel(d) \/ FinishCampaign(d) \/ SetJobId(d) \/ Crash(d)
  BY <1>1, <1>3, EndTurns
<1>4. CASE PropagateCancel(d) \/ MarkCancelled(d) \/ FindStuck(d)
  BY <1>2, <1>4, CancelTurns, FindStuckTurns
<1>5. ASSUME NEW pc, NEW stuck, NEW E \in SUBSET tick[d].exhausted, NEW T \in SUBSET tick[d].todo,
             NEW R \in SUBSET tick[d].release, NEW job,
             Turns(d, pc, stuck, E, T, tick[d].batch, R, job)
      PROVE  Goal
  BY <1>5 DEF Turns, Is, Held
<1>6. CASE AskKnowledge(d) \/ Probe(d)
  BY <1>5, <1>6, AskTurns, ProbeTurns
<1>7. CASE Count(d)
  <2>1. \A n : FirstOf(tick[d].todo, n) \in SUBSET tick[d].todo
    BY DEF FirstOf
  <2> QED
    BY <1>1, <1>5, <1>7, <2>1, CountTurns
<1>8. CASE MarkExhausted(d)
  BY <1>1, <1>5, <1>8, ExhaustedTurns
<1>9. CASE Release(d)
  BY <1>1, <1>5, <1>9, ReleaseTurns
<1>10. CASE MarkDispatched(d)
  <2>1. PICK u \in tick[d].todo : Marks(d, u)
    BY <1>10, MarkTurns
  <2> QED
    BY <2>1 DEF Marks, Turns, Is, Held
<1>11. ASSUME Refuses(d) PROVE Goal
  BY <1>11 DEF Refuses, Turns, Is, Held
<1>12. CASE CallKnowledge(d)
  <2>1. ASSUME Turns(d, tick[d].pc, tick[d].stuck, tick[d].exhausted, tick[d].todo, {},
                     tick[d].release, tick[d].job)
        PROVE  Goal
    BY <2>1 DEF Turns, Is, Held
  <2> QED
    BY <1>1, <1>11, <1>12, <2>1, KnowledgeTurns
<1>13. CASE CallTranslation(d)
  BY <1>5, <1>11, <1>13, TranslationTurns DEF Sends
<1> QED
  BY <1>3, <1>4, <1>6, <1>7, <1>8, <1>9, <1>10, <1>12, <1>13 DEF TickStep

LEMMA MidSteps == ASSUME NEW d, TickStep(d) \/ Crash(d) PROVE Mid(d) /\ overlapped' = overlapped
BY DEF history, TickStep, Reconciling, Crash, Mid, PropagateCancel, MarkCancelled, FinalizeCancel,
       FindStuck, FindStuckAmong, AskKnowledge, Probe, Load, FinishCampaign, Count, MarkExhausted,
       MarkDispatched, CallKnowledge, CallTranslation, BatchMarked, SetJobId, Release

-----------------------------------------------------------------------------
(* One driver at work                                                      *)

OneMid == ~overlapped => \A d, e \in Drivers : Mid(d) /\ Mid(e) => d = e

LEMMA OneMidNext == TypeOK /\ OneMid /\ [Next]_vars => OneMid'
<1> SUFFICES ASSUME TypeOK, OneMid, [Next]_vars, ~overlapped' PROVE \A d, e \in Drivers : Mid(d)' /\ Mid(e)' => d = e
  BY DEF OneMid
<1>1. CASE Outside
  BY <1>1, TicksRest DEF OneMid, Mid
<1>2. ASSUME NEW d \in Drivers, Claim(d)
      PROVE  \A a, b \in Drivers : Mid(a)' /\ Mid(b)' => a = b
  <2>1. \A e \in Drivers : ~Mid(e)
    BY <1>2 DEF Claim
  <2> QED
    BY <1>2, <2>1, OthersWait DEF Mid
<1>3. ASSUME NEW d \in Drivers, TickStep(d) \/ Crash(d)
      PROVE  \A a, b \in Drivers : Mid(a)' /\ Mid(b)' => a = b
  <2>1. Mid(d) /\ ~overlapped
    BY <1>3, MidSteps
  <2>2. \A e \in Drivers : e # d => ~Mid(e)
    BY <2>1 DEF OneMid
  <2> QED
    BY <1>3, <2>2, OthersWait DEF Mid
<1> QED
  BY <1>1, <1>2, <1>3, Sides

\* A driver at work is alone with the campaign: nobody else holds anything.
LEMMA Alone ==
  ASSUME TypeOK, ShapeInv, OneMid, ~overlapped, NEW d \in Drivers, Mid(d), NEW e \in Drivers, e # d
  PROVE  ~Mid(e) /\ Held(tick[e]) = {} /\ tick[e].job = NoJob /\ tick[e].stuck = {}
<1>1. ~Mid(e)
  BY DEF OneMid
<1> QED
  BY <1>1 DEF Mid, ShapeInv, Shape, Reconciling

-----------------------------------------------------------------------------
(* How the rows move                                                       *)

Kept(u) == stage'[u] = stage[u] /\ attempts'[u] = attempts[u]
Finishes(u) ==
  /\ stage'[u] = "done" /\ attempts'[u] = attempts[u]
  /\ \/ u \in finished
     \/ /\ u[2] = "knowledge" /\ u \in presumed'
        /\ \E d \in Drivers : tick[d].pc = "extracted" /\ \E r \in tick[d].stuck : r[1] = u
Cancelled(u) ==
  /\ stage[u] = "dispatched" /\ stage'[u] = "failed" /\ attempts'[u] = attempts[u]
  /\ \E d \in Drivers : MarkCancelled(d)
Reset(u) ==
  /\ stage[u] = "dispatched" /\ stage'[u] = "failed" /\ attempts'[u] = attempts[u]
  /\ \E d \in Drivers : \E r \in tick[d].stuck :
       /\ Probe(d) /\ r[1] = u /\ Truth(d, r[1], r[2]) = "reset"
       /\ u[2] = "knowledge" => tick[d].pc # "probe"
GivenUp(u) ==
  /\ stage'[u] = "failed" /\ attempts'[u] = attempts[u]
  /\ \E d \in Drivers : (MarkExhausted(d) \/ Release(d)) /\ u \in tick[d].exhausted \cup tick[d].release
Dispatches(u) ==
  /\ stage[u] \in {"pending", "failed"} /\ stage'[u] = "dispatched" /\ attempts'[u] = attempts[u] + 1
  /\ \E d \in Drivers : MarkDispatched(d) /\ Marks(d, u)
Rearmed(u) == stage[u] = "failed" /\ stage'[u] = "pending" /\ attempts'[u] = 0

LEMMA StageMoves ==
  ASSUME TypeOK, [Next]_vars, NEW u \in Units
  PROVE  Kept(u) \/ Finishes(u) \/ Cancelled(u) \/ Reset(u) \/ GivenUp(u) \/ Dispatches(u) \/ Rearmed(u)
<1> DEFINE Goal == Kept(u) \/ Finishes(u) \/ Cancelled(u) \/ Reset(u) \/ GivenUp(u) \/ Dispatches(u) \/ Rearmed(u)
<1>0. /\ stage \in [Units -> StageStatus] /\ attempts \in [Units -> Nat]
      /\ tick \in [Drivers -> Tick]
  BY DEF TypeOK
<1>1. CASE UNCHANGED <<stage, attempts>>
  BY <1>1 DEF Kept
<1>2. ASSUME NEW d \in Drivers, MarkCancelled(d) PROVE Goal
  BY <1>0, <1>2 DEF MarkCancelled, Kept, Cancelled
<1>3. ASSUME NEW d \in Drivers, Probe(d) PROVE Goal
  <2>1. PICK r \in tick[d].stuck :
          \/ UNCHANGED stage
          \/ /\ Truth(d, r[1], r[2]) = "done"
             /\ stage' = MarkedDone(r[1]) /\ presumed' = presumed \cup Presumed(r[1])
          \/ /\ Truth(d, r[1], r[2]) = "reset" /\ stage' = ResetStuck(r[1])
             /\ r[1][2] = "knowledge" => tick[d].pc # "probe"
    BY <1>3 DEF Probe
  <2>2. attempts' = attempts /\ r[1] \in Units
    BY <1>0, <1>3, TickTypes DEF Probe
  <2>3. CASE UNCHANGED stage
    BY <1>1, <2>2, <2>3
  <2>4. CASE /\ Truth(d, r[1], r[2]) = "done"
             /\ stage' = MarkedDone(r[1]) /\ presumed' = presumed \cup Presumed(r[1])
    <3>1. r[1] \in finished \/ (r[1][2] = "knowledge" /\ tick[d].pc = "extracted")
      BY <2>4 DEF Truth
    <3>2. CASE r[1] = u /\ Active
      <4>1. u \in finished \/ u \in presumed'
        BY <2>4, <3>2 DEF Presumed
      <4> QED
        BY <1>0, <2>2, <2>4, <3>1, <3>2, <4>1 DEF MarkedDone, Finishes
    <3>3. CASE ~(r[1] = u /\ Active)
      BY <1>0, <2>2, <2>4, <3>3 DEF MarkedDone, Kept
    <3> QED
      BY <3>2, <3>3
  <2>5. CASE /\ Truth(d, r[1], r[2]) = "reset" /\ stage' = ResetStuck(r[1])
             /\ r[1][2] = "knowledge" => tick[d].pc # "probe"
    <3>1. CASE r[1] = u /\ stage[u] = "dispatched"
      BY <1>0, <1>3, <2>2, <2>5, <3>1 DEF ResetStuck, Reset
    <3>2. CASE ~(r[1] = u /\ stage[u] = "dispatched")
      BY <1>0, <2>2, <2>5, <3>2 DEF ResetStuck, Kept
    <3> QED
      BY <3>1, <3>2
  <2> QED
    BY <2>1, <2>3, <2>4, <2>5
<1>4. ASSUME NEW d \in Drivers, MarkExhausted(d) \/ Release(d) PROVE Goal
  <2>1. PICK v \in tick[d].exhausted \cup tick[d].release : stage' = [stage EXCEPT ![v] = "failed"]
    BY <1>4 DEF MarkExhausted, Release
  <2>2. attempts' = attempts
    BY <1>4 DEF MarkExhausted, Release
  <2> QED
    BY <1>0, <1>4, <2>1, <2>2 DEF GivenUp, Kept
<1>5. ASSUME NEW d \in Drivers, MarkDispatched(d) PROVE Goal
  <2>1. PICK v \in tick[d].todo : Marks(d, v)
    BY <1>5, MarkTurns
  <2>2. CASE v = u /\ Dispatchable(u)
    BY <1>0, <1>5, <2>1, <2>2 DEF Marks, Dispatchable, Dispatches
  <2>3. CASE ~(v = u /\ Dispatchable(u))
    BY <1>0, <2>1, <2>3 DEF Marks, Kept
  <2> QED
    BY <2>2, <2>3
<1>6. ASSUME NEW v \in Units, Absorb(v) PROVE Goal
  BY <1>0, <1>6 DEF Absorb, MarkedDone, Kept, Finishes
<1>7. ASSUME NEW c \in Calls, NEW C \in SUBSET Chapters, ResetFailed(c, C) PROVE Goal
  BY <1>0, <1>7 DEF ResetFailed, Kept, Rearmed
<1>8. ASSUME NEW d \in Drivers,
             \/ Claim(d) \/ PropagateCancel(d) \/ FinalizeCancel(d) \/ FindStuck(d) \/ AskKnowledge(d) \/ Load(d)
             \/ FinishCampaign(d) \/ Count(d) \/ CallKnowledge(d) \/ CallTranslation(d)
             \/ SetJobId(d) \/ Crash(d)
      PROVE  UNCHANGED <<stage, attempts>>
  BY <1>8 DEF Claim, PropagateCancel, FinalizeCancel, FindStuck, FindStuckAmong, AskKnowledge, Load,
       FinishCampaign, Count, CallKnowledge, CallTranslation, SetJobId, Crash, rows
<1>9. Outside =>
       \/ \E v \in Units : Absorb(v)
       \/ \E c \in Calls : \E C \in SUBSET Chapters : ResetFailed(c, C)
       \/ UNCHANGED <<stage, attempts>>
  BY DEF Outside, LeaseExpires, Extract, ExtractionEnds, OtherExtraction, JobEnds, JobPaused, JobResumed, JobBecomes,
       Translate, CircuitOpen, SpendCapReached, CallRoute, SetStatus, vars, rows
<1> QED
  BY <1>1, <1>2, <1>3, <1>4, <1>5, <1>6, <1>7, <1>8, <1>9, Sides DEF TickStep

-----------------------------------------------------------------------------
(* Retries end                                                             *)

\* A step leaves a tick with what it had or less, or loads it.
LEMMA HeldSteps ==
  ASSUME TypeOK, ShapeInv, [Next]_vars, NEW e \in Drivers
  PROVE  \/ Held(tick'[e]) \subseteq Held(tick[e]) /\ tick'[e].todo \subseteq tick[e].todo
         \/ /\ Load(e) /\ UNCHANGED rows /\ overlapped' = overlapped
            /\ Held(tick'[e]) \subseteq Ready /\ tick'[e].todo \subseteq {u \in Ready : ~Exhausted(u)}
<1> DEFINE Goal ==
      \/ Held(tick'[e]) \subseteq Held(tick[e]) /\ tick'[e].todo \subseteq tick[e].todo
      \/ /\ Load(e) /\ UNCHANGED rows /\ overlapped' = overlapped
         /\ Held(tick'[e]) \subseteq Ready /\ tick'[e].todo \subseteq {u \in Ready : ~Exhausted(u)}
<1>1. CASE tick'[e] = tick[e]
  BY <1>1
<1>2. CASE Outside
  BY <1>1, <1>2, TicksRest
<1>3. ASSUME NEW d \in Drivers, Claim(d) \/ TickStep(d) \/ Crash(d), d # e PROVE Goal
  BY <1>1, <1>3, OthersWait
<1>4. CASE Claim(e)
  <2>1. Held(tick'[e]) = {} /\ tick'[e].todo = {}
    BY <1>4, ClaimTurns DEF Turns, Is, Held
  <2> QED
    BY <2>1
<1>5. CASE Load(e)
  <2>1. Held(tick'[e]) \subseteq Ready /\ tick'[e].todo \subseteq {u \in Ready : ~Exhausted(u)}
    BY <1>5, LoadTurns DEF Turns, Is, Held
  <2> QED
    BY <1>5, <2>1 DEF history, Load, Reconciling
<1>6. CASE (TickStep(e) \/ Crash(e)) /\ ~Load(e)
  BY <1>6, HeldShrinks
<1> QED
  BY <1>2, <1>3, <1>4, <1>5, <1>6, Sides

Holders(u) == {d \in Drivers : u \in tick[d].todo}

\* Every driver that may still dispatch a stage has counted it below its cap.
RetryInv ==
  \A u \in Units :
    /\ attempts[u] + Cardinality(Holders(u)) <= campaign.cap + Cardinality(Drivers) - 1
    /\ ~overlapped => attempts[u] <= campaign.cap
    /\ ~overlapped => \A d \in Drivers : u \in tick[d].todo => attempts[u] < campaign.cap

LEMMA HoldersFinite ==
  ASSUME NEW H \in SUBSET Drivers
  PROVE  /\ IsFiniteSet(H) /\ Cardinality(H) \in Nat /\ Cardinality(Drivers) \in Nat
         /\ Cardinality(H) <= Cardinality(Drivers)
         /\ \A G \in SUBSET H : Cardinality(G) <= Cardinality(H) /\ Cardinality(G) \in Nat
         /\ \A d \in H : Cardinality(H \ {d}) = Cardinality(H) - 1
BY DriversAreFinite, FS_Subset, FS_CardinalityType, FS_RemoveElement

LEMMA RetryNext ==
  TypeOK /\ ShapeInv /\ OneMid /\ RetryInv /\ [Next]_vars => RetryInv'
<1> SUFFICES ASSUME TypeOK, ShapeInv, OneMid, RetryInv, [Next]_vars, NEW u \in Units
             PROVE  /\ attempts'[u] + Cardinality(Holders(u)') <= campaign.cap + Cardinality(Drivers) - 1
                    /\ ~overlapped' => attempts'[u] <= campaign.cap
                    /\ ~overlapped' => \A d \in Drivers : u \in tick'[d].todo => attempts'[u] < campaign.cap
  BY CampaignKept DEF RetryInv
<1>0. /\ attempts[u] \in Nat /\ campaign.cap \in Nat \ {0} /\ attempts'[u] \in Nat
      /\ Cardinality(Drivers) \in Nat
      /\ Cardinality(Holders(u)) \in Nat /\ Cardinality(Holders(u)') \in Nat
      /\ Cardinality(Holders(u)') <= Cardinality(Drivers)
  <2>1. Holders(u) \in SUBSET Drivers /\ Holders(u)' \in SUBSET Drivers
    BY DEF Holders
  <2> QED
    BY <2>1, HoldersFinite, TypeNext DEF TypeOK
<1>1. ~overlapped' => ~overlapped
  BY Sides, TicksRest, MidSteps DEF Claim, TypeOK
<1>2. attempts'[u] <= attempts[u] \/ Dispatches(u)
  BY <1>0, StageMoves DEF Kept, Finishes, Cancelled, Reset, GivenUp, Rearmed
<1>3. ASSUME Dispatches(u)
      PROVE  /\ attempts'[u] + Cardinality(Holders(u)') <= campaign.cap + Cardinality(Drivers) - 1
             /\ ~overlapped' => attempts'[u] <= campaign.cap
             /\ ~overlapped' => \A d \in Drivers : u \in tick'[d].todo => attempts'[u] < campaign.cap
  <2>1. PICK d \in Drivers : MarkDispatched(d) /\ Marks(d, u)
    BY <1>3 DEF Dispatches
  <2>2. u \in tick[d].todo /\ u \notin tick'[d].todo /\ \A e \in Drivers : e # d => tick'[e] = tick[e]
    BY <2>1 DEF Marks, Turns, Is
  <2>3. Holders(u)' = Holders(u) \ {d} /\ d \in Holders(u)
    BY <2>2 DEF Holders
  <2>4. Cardinality(Holders(u)') = Cardinality(Holders(u)) - 1
    <3>1. Holders(u) \in SUBSET Drivers
      BY DEF Holders
    <3> QED
      BY <2>3, <3>1, HoldersFinite
  <2>5. attempts'[u] = attempts[u] + 1
    BY <1>3 DEF Dispatches
  <2>6. Mid(d)
    BY <2>1, MidSteps DEF TickStep
  <2>7. ~overlapped => \A e \in Drivers : u \notin tick'[e].todo
    BY <2>2, <2>6, Alone DEF Held
  <2> QED
    BY <1>0, <1>1, <2>2, <2>4, <2>5, <2>7 DEF RetryInv
<1>4. ASSUME attempts'[u] <= attempts[u]
      PROVE  /\ attempts'[u] + Cardinality(Holders(u)') <= campaign.cap + Cardinality(Drivers) - 1
             /\ ~overlapped' => attempts'[u] <= campaign.cap
             /\ ~overlapped' => \A d \in Drivers : u \in tick'[d].todo => attempts'[u] < campaign.cap
  <2>1. ASSUME NEW d \in Drivers, u \in tick'[d].todo
        PROVE  u \in tick[d].todo \/ attempts'[u] < campaign.cap
    <3>1. CASE tick'[d].todo \subseteq tick[d].todo
      BY <2>1, <3>1
    <3>2. CASE UNCHANGED rows /\ tick'[d].todo \subseteq {v \in Ready : ~Exhausted(v)}
      <4>1. ~Exhausted(u) /\ attempts' = attempts
        BY <2>1, <3>2 DEF rows
      <4> QED
        BY <1>0, <4>1 DEF Exhausted
    <3> QED
      BY <3>1, <3>2, HeldSteps
  <2>2. CASE attempts'[u] < campaign.cap
    BY <1>0, <2>2
  <2>3. CASE ~(attempts'[u] < campaign.cap)
    <3>1. Holders(u)' \in SUBSET Holders(u) /\ Holders(u) \in SUBSET Drivers
      BY <2>1, <2>3 DEF Holders
    <3>2. Cardinality(Holders(u)') <= Cardinality(Holders(u))
      BY <3>1, HoldersFinite
    <3> QED
      BY <1>0, <1>1, <1>4, <2>1, <2>3, <3>2 DEF RetryInv
  <2> QED
    BY <2>2, <2>3
<1> QED
  BY <1>2, <1>3, <1>4

LEMMA RetryInit == Init => RetryInv
<1> SUFFICES ASSUME Init, NEW u \in Units
             PROVE  /\ attempts[u] + Cardinality(Holders(u)) <= campaign.cap + Cardinality(Drivers) - 1
                    /\ attempts[u] <= campaign.cap
                    /\ \A d \in Drivers : u \in tick[d].todo => attempts[u] < campaign.cap
  BY DEF RetryInv
<1>1. attempts[u] = 0 /\ campaign.cap \in Nat \ {0} /\ Cardinality(Drivers) \in Nat
  BY TypeInit, DriversAreFinite, FS_CardinalityType DEF Init, TypeOK
<1>2. \A d \in Drivers : tick[d].todo = {}
  BY IdleIs DEF Init, Is
<1>3. Holders(u) = {}
  BY <1>2 DEF Holders
<1>4. Cardinality(Holders(u)) = 0
  BY <1>3, FS_EmptySet
<1> QED
  BY <1>1, <1>2, <1>4

OneDriver == TypeOK /\ ShapeInv /\ OneMid

LEMMA OneDriverAlways == Spec => []OneDriver
<1>1. Init => OneDriver
  <2> SUFFICES ASSUME Init PROVE OneDriver
    OBVIOUS
  <2>1. \A d \in Drivers : ~Mid(d)
    BY IdleIs DEF Init, Mid, Is
  <2> QED
    BY <2>1, TypeInit, ShapeInit DEF OneDriver, OneMid
<1>2. OneDriver /\ [Next]_vars => OneDriver'
  BY TypeNext, ShapeNext, OneMidNext DEF OneDriver
<1> QED
  BY <1>1, <1>2, PTL DEF Spec

\* A stage is dispatched no more often than its cap, and once more for each
\* further driver that works on the same campaign.
THEOREM RetriesEnd == Spec => []AttemptsBounded
<1>1. OneDriver /\ RetryInv /\ [Next]_vars => RetryInv'
  BY RetryNext DEF OneDriver
<1>2. TypeOK /\ OneDriver /\ RetryInv => AttemptsBounded
  <2> SUFFICES ASSUME TypeOK, RetryInv, NEW u \in Units
               PROVE  attempts[u] <= campaign.cap + (IF overlapped THEN Cardinality(Drivers) - 1 ELSE 0)
    BY DEF AttemptsBounded
  <2>1. Holders(u) \in SUBSET Drivers
    BY DEF Holders
  <2>2. attempts[u] \in Nat /\ campaign.cap \in Nat \ {0}
    BY DEF TypeOK
  <2> QED
    BY <2>1, <2>2, HoldersFinite DEF RetryInv
<1> QED
  BY <1>1, <1>2, RetryInit, OneDriverAlways, CampaignTypes, PTL DEF Spec

-----------------------------------------------------------------------------
(* The two stages of a chapter                                             *)

Knowledge(c) == <<c, "knowledge">>
Translation(c) == <<c, "translation">>

WantedInv ==
  /\ \A u \in Units : stage[u] = "dispatched" => u \in Wanted
  /\ \A d \in Drivers : Held(tick[d]) \subseteq Wanted

\* A translation is in flight, or about to be, only where the knowledge of
\* its chapter is done and stays so.
StageInv ==
  ~overlapped => \A c \in Chapters :
    /\ stage[Translation(c)] = "dispatched" \/ \E d \in Drivers : Translation(c) \in tick[d].todo
    /\ Knowledge(c) \in Wanted
    => stage[Knowledge(c)] = "done" /\ \A d \in Drivers : Knowledge(c) \notin Held(tick[d])

LEMMA WantedNext == TypeOK /\ ShapeInv /\ WantedInv /\ [Next]_vars => WantedInv'
<1> SUFFICES ASSUME TypeOK, ShapeInv, WantedInv, [Next]_vars PROVE WantedInv'
  OBVIOUS
<1>1. Wanted' = Wanted /\ Ready \subseteq Wanted
  BY CampaignKept DEF Wanted, Ready
<1>2. ASSUME NEW u \in Units, stage'[u] = "dispatched" PROVE u \in Wanted
  <2>1. CASE Dispatches(u)
    BY <2>1 DEF Dispatches, Marks, WantedInv, Held
  <2>2. CASE Kept(u)
    BY <1>2, <2>2 DEF Kept, WantedInv
  <2> QED
    BY <1>2, <2>1, <2>2, StageMoves DEF Finishes, Cancelled, Reset, GivenUp, Rearmed
<1>3. ASSUME NEW d \in Drivers PROVE Held(tick'[d]) \subseteq Wanted
  BY <1>1, HeldSteps DEF WantedInv
<1> QED
  BY <1>1, <1>2, <1>3 DEF WantedInv, Held

LEMMA StageNext ==
  TypeOK /\ ShapeInv /\ OneMid /\ WantedInv /\ StageInv /\ [Next]_vars => StageInv'
<1> SUFFICES ASSUME TypeOK, ShapeInv, OneMid, WantedInv, StageInv, [Next]_vars, ~overlapped',
                    NEW c \in Chapters, Knowledge(c) \in Wanted,
                    \/ stage'[Translation(c)] = "dispatched"
                    \/ \E d \in Drivers : Translation(c) \in tick'[d].todo
             PROVE  /\ stage'[Knowledge(c)] = "done"
                    /\ \A d \in Drivers : Knowledge(c) \notin Held(tick'[d])
  BY CampaignKept DEF StageInv, Held, Wanted, Knowledge, Translation
<1>0. Knowledge(c) \in Units /\ Translation(c) \in Units
  BY DEF Knowledge, Translation, Units, Stages
<1>1. ~overlapped
  BY Sides, TicksRest, MidSteps DEF Claim, TypeOK
<1>2. \A u \in Ready : stage[u] # "done"
  BY DEF Ready, Dispatchable
<1>3. CASE stage[Translation(c)] = "dispatched" \/ \E d \in Drivers : Translation(c) \in tick[d].todo
  <2>1. stage[Knowledge(c)] = "done" /\ \A d \in Drivers : Knowledge(c) \notin Held(tick[d])
    BY <1>1, <1>3 DEF StageInv
  <2>2. stage'[Knowledge(c)] = "done"
    BY <1>0, <2>1, StageMoves DEF Kept, Finishes, Cancelled, Reset, GivenUp, Dispatches, Rearmed, Held
  <2>3. ASSUME NEW d \in Drivers PROVE Knowledge(c) \notin Held(tick'[d])
    BY <1>2, <2>1, HeldSteps
  <2> QED
    BY <2>2, <2>3
<1>4. CASE ~(stage[Translation(c)] = "dispatched" \/ \E d \in Drivers : Translation(c) \in tick[d].todo)
  <2>1. ~Dispatches(Translation(c))
    BY <1>4 DEF Dispatches, Marks
  <2>2. stage'[Translation(c)] # "dispatched"
    BY <1>0, <1>4, <2>1, StageMoves DEF Kept, Finishes, Cancelled, Reset, GivenUp, Rearmed
  <2>3. PICK d \in Drivers : Translation(c) \in tick'[d].todo
    BY <2>2
  <2>4. Load(d) /\ UNCHANGED rows /\ Held(tick'[d]) \subseteq Ready /\ Translation(c) \in Ready
    BY <1>4, <2>3, HeldSteps
  <2>5. stage[Knowledge(c)] = "done"
    <3>1. "knowledge" \in campaign.stages
      BY DEF Wanted, Knowledge
    <3>2. Translation(c)[2] = "translation" /\ Translation(c)[1] = c
      BY DEF Translation
    <3> QED
      BY <2>4, <3>1, <3>2 DEF Ready, KnowledgeReady, Knowledge
  <2>6. Mid(d)
    BY <2>4, MidSteps DEF TickStep
  <2>7. ASSUME NEW e \in Drivers PROVE Knowledge(c) \notin Held(tick'[e])
    <3>1. CASE e = d
      BY <1>2, <2>4, <2>5, <3>1
    <3>2. CASE e # d
      <4>1. Held(tick[e]) = {} /\ tick'[e] = tick[e]
        BY <1>1, <2>4, <2>6, <3>2, Alone, OthersWait DEF TickStep
      <4> QED
        BY <4>1
    <3> QED
      BY <3>1, <3>2
  <2> QED
    BY <2>4, <2>5, <2>7 DEF rows
<1> QED
  BY <1>3, <1>4

\* The two stages of a chapter are never in flight together.
THEOREM StagesTakeTurns == Spec => []OneStageInFlight
<1>1. Init => WantedInv /\ StageInv
  <2> SUFFICES ASSUME Init PROVE WantedInv /\ StageInv
    OBVIOUS
  <2>1. (\A u \in Units : stage[u] # "dispatched") /\ \A d \in Drivers : Held(tick[d]) = {} /\ tick[d].todo = {}
    BY IdleIs DEF Init, Is, Held
  <2> QED
    BY <2>1 DEF WantedInv, StageInv, Translation, Units, Stages
<1>2. OneDriver /\ WantedInv /\ StageInv /\ [Next]_vars => WantedInv' /\ StageInv'
  BY WantedNext, StageNext DEF OneDriver
<1>3. TypeOK /\ WantedInv /\ StageInv => OneStageInFlight
  <2> SUFFICES ASSUME WantedInv, StageInv, ~overlapped, NEW c \in Chapters,
                      \A s \in Stages : stage[<<c, s>>] = "dispatched"
               PROVE  FALSE
    BY DEF OneStageInFlight
  <2>1. stage[Knowledge(c)] = "dispatched" /\ stage[Translation(c)] = "dispatched"
    BY DEF Knowledge, Translation, Stages
  <2>2. Knowledge(c) \in Wanted
    BY <2>1 DEF WantedInv, Knowledge, Units, Stages
  <2> QED
    BY <2>1, <2>2 DEF StageInv
<1> QED
  BY <1>1, <1>2, <1>3, OneDriverAlways, CampaignTypes, PTL DEF Spec

-----------------------------------------------------------------------------
(* The ceiling                                                             *)

ChaptersOf(U) == {u[1] : u \in U}

\* Where a place within the ceiling is planned for, it is counted in.
RoomInv ==
  ~overlapped =>
    /\ Cardinality(Inflight) <= campaign.window
    /\ \A d \in Drivers : tick[d].pc = "work" =>
         Cardinality(Inflight \cup ChaptersOf(tick[d].todo)) <= campaign.window

LEMMA BeforeIsAnOrder ==
  ASSUME NEW u \in Units, NEW v \in Units, NEW w \in Units
  PROVE  /\ ~Before(u, u)
         /\ u # v => Before(u, v) \/ Before(v, u)
         /\ Before(u, v) /\ Before(v, w) => Before(u, w)
<1>1. /\ u[1] \in Nat /\ v[1] \in Nat /\ w[1] \in Nat
      /\ u[2] \in Stages /\ v[2] \in Stages /\ w[2] \in Stages
      /\ u = <<u[1], u[2]>> /\ v = <<v[1], v[2]>> /\ w = <<w[1], w[2]>>
  BY ChaptersAreSorted, UnitFields
<1> QED
  BY <1>1 DEF Before, Stages

\* A batch is cut to the places that are left.
LEMMA FirstOfSize ==
  ASSUME NEW U \in SUBSET Units, IsFiniteSet(U), NEW n \in Nat \ {0}
  PROVE  IsFiniteSet(FirstOf(U, n)) /\ Cardinality(FirstOf(U, n)) <= n
<1> DEFINE Earlier(u) == {v \in U : Before(v, u)}
           f == [u \in FirstOf(U, n) |-> Cardinality(Earlier(u))]
<1>1. FirstOf(U, n) \subseteq U /\ IsFiniteSet(FirstOf(U, n))
  BY FS_Subset DEF FirstOf
<1>2. ASSUME NEW u \in U PROVE IsFiniteSet(Earlier(u)) /\ Cardinality(Earlier(u)) \in Nat
  BY FS_Subset, FS_CardinalityType
<1>3. ASSUME NEW u \in U, NEW v \in U, Before(u, v)
      PROVE  Cardinality(Earlier(u)) < Cardinality(Earlier(v))
  <2>1. Earlier(u) \in SUBSET Earlier(v)
    BY <1>3, BeforeIsAnOrder
  <2>2. u \in Earlier(v) /\ u \notin Earlier(u)
    BY <1>3, BeforeIsAnOrder
  <2>3. Cardinality(Earlier(u)) <= Cardinality(Earlier(v)) /\ Cardinality(Earlier(u)) # Cardinality(Earlier(v))
    BY <1>2, <2>1, <2>2, FS_Subset
  <2> QED
    BY <1>2, <2>3
<1>4. \A u \in FirstOf(U, n) : f[u] \in 0..(n - 1)
  BY <1>1, <1>2 DEF FirstOf
<1>5. \A u, v \in FirstOf(U, n) : f[u] = f[v] => u = v
  <2> SUFFICES ASSUME NEW u \in FirstOf(U, n), NEW v \in FirstOf(U, n), u # v PROVE f[u] # f[v]
    OBVIOUS
  <2>1. Before(u, v) \/ Before(v, u)
    BY <1>1, BeforeIsAnOrder
  <2> QED
    BY <1>1, <1>2, <1>3, <2>1
<1>6. f \in Injection(FirstOf(U, n), 0..(n - 1))
  BY <1>4, <1>5 DEF Injection, IsInjective
<1>7. IsFiniteSet(0..(n - 1)) /\ Cardinality(0..(n - 1)) = n
  BY FS_Interval
<1> QED
  BY <1>1, <1>6, <1>7, FS_Injection

LEMMA Places ==
  ASSUME NEW U \in SUBSET Units, IsFiniteSet(U)
  PROVE  /\ IsFiniteSet(ChaptersOf(U)) /\ Cardinality(ChaptersOf(U)) <= Cardinality(U)
         /\ ChaptersOf(U) \subseteq Chapters
<1> DEFINE f == [c \in ChaptersOf(U) |-> CHOOSE u \in U : u[1] = c]
<1>1. \A c \in ChaptersOf(U) : f[c] \in U /\ f[c][1] = c
  BY DEF ChaptersOf
<1>2. f \in Injection(ChaptersOf(U), U)
  BY <1>1 DEF Injection, IsInjective
<1> QED
  BY <1>2, FS_Injection, UnitFields DEF ChaptersOf

LEMMA UnitsFinite == IsFiniteSet(Units) /\ \A U \in SUBSET Units : IsFiniteSet(U)
<1>1. IsFiniteSet(Stages)
  <2>1. IsFiniteSet({"knowledge"}) /\ IsFiniteSet({"translation"})
    BY FS_Singleton
  <2>2. Stages = {"knowledge"} \cup {"translation"}
    BY DEF Stages
  <2> QED
    BY <2>1, <2>2, FS_Union
<1> QED
  BY <1>1, ChaptersAreSorted, FS_Product, FS_Subset DEF Units

LEMMA RowsFinite ==
  ASSUME NEW C \in SUBSET Chapters, NEW B \in SUBSET C
  PROVE  /\ IsFiniteSet(C) /\ Cardinality(C) \in Nat /\ Cardinality(B) \in Nat
         /\ Cardinality(B) <= Cardinality(C)
BY ChaptersAreSorted, FS_Subset, FS_CardinalityType

\* A tick gets to work by counting, and does not plan more after that.
LEMMA WorkSteps ==
  ASSUME TypeOK, ShapeInv, [Next]_vars, NEW e \in Drivers, tick'[e].pc = "work", ~Count(e)
  PROVE  tick[e].pc = "work" /\ tick'[e].todo \subseteq tick[e].todo
<1>1. tick[e].pc = "work"
  <2>1. CASE tick'[e] = tick[e]
    BY <2>1
  <2>2. CASE Outside
    BY <2>1, <2>2, TicksRest
  <2>3. ASSUME NEW d \in Drivers, Claim(d) \/ TickStep(d) \/ Crash(d), d # e PROVE tick[e].pc = "work"
    BY <2>1, <2>3, OthersWait
  <2>4. ASSUME NEW pc, pc # "work", NEW a, NEW b, NEW c, NEW f, NEW g, NEW h,
               Turns(e, pc, a, b, c, f, g, h)
        PROVE  FALSE
    BY <2>4 DEF Turns, Is
  <2>5. CASE Claim(e)
    BY <2>4, <2>5, ClaimTurns
  <2>6. ~Ends(e)
    BY <2>4 DEF Ends
  <2>7. CASE PropagateCancel(e) \/ MarkCancelled(e)
    BY <2>4, <2>7, CancelTurns
  <2>8. CASE FinalizeCancel(e) \/ FinishCampaign(e) \/ SetJobId(e) \/ Crash(e)
    BY <2>6, <2>8, EndTurns
  <2>9. CASE FindStuck(e)
    BY <2>4, <2>9, FindStuckTurns
  <2>10. CASE AskKnowledge(e) \/ Probe(e)
    BY <2>4, <2>10, AskTurns, ProbeTurns DEF Probe, Reconciling
  <2>11. CASE Load(e)
    BY <2>4, <2>11, LoadTurns
  <2>12. CASE \/ MarkExhausted(e) \/ Release(e) \/ MarkDispatched(e)
              \/ CallKnowledge(e) \/ CallTranslation(e)
    BY <2>12 DEF MarkExhausted, Release, MarkDispatched, CallKnowledge, CallTranslation, BatchMarked
  <2> QED
    BY <2>2, <2>3, <2>5, <2>7, <2>8, <2>9, <2>10, <2>11, <2>12, Sides DEF TickStep
<1>2. ~Load(e)
  BY <1>1 DEF Load, Reconciling
<1> QED
  BY <1>1, <1>2, HeldSteps

LEMMA RoomNext == TypeOK /\ ShapeInv /\ OneMid /\ RoomInv /\ [Next]_vars => RoomInv'
<1> SUFFICES ASSUME TypeOK, ShapeInv, OneMid, RoomInv, [Next]_vars, ~overlapped'
             PROVE  /\ Cardinality(Inflight') <= campaign.window
                    /\ \A d \in Drivers : tick'[d].pc = "work" =>
                         Cardinality(Inflight' \cup ChaptersOf(tick'[d].todo)) <= campaign.window
  BY CampaignKept DEF RoomInv, ChaptersOf
<1>0. /\ ~overlapped /\ campaign.window \in Nat \ {0} /\ campaign' = campaign
      /\ Inflight \in SUBSET Chapters /\ Inflight' \in SUBSET Chapters
      /\ \A d \in Drivers : tick[d].todo \in SUBSET Units /\ tick'[d].todo \in SUBSET Units
  <2>1. ~overlapped
    BY Sides, TicksRest, MidSteps DEF Claim, TypeOK
  <2>2. tick \in [Drivers -> Tick] /\ tick' \in [Drivers -> Tick]
    BY TypeNext DEF TypeOK
  <2> QED
    BY <2>1, <2>2, TickTypes, CampaignKept DEF TypeOK, Inflight
<1>1. \A d \in Drivers : /\ ChaptersOf(tick[d].todo) \in SUBSET Chapters
                         /\ ChaptersOf(tick'[d].todo) \in SUBSET Chapters
  BY <1>0, UnitsFinite, Places
<1>2. ASSUME NEW u \in Units, Dispatches(u)
      PROVE  /\ Cardinality(Inflight') <= campaign.window
             /\ \A d \in Drivers : tick'[d].pc = "work" =>
                  Cardinality(Inflight' \cup ChaptersOf(tick'[d].todo)) <= campaign.window
  <2>1. PICK d \in Drivers : MarkDispatched(d) /\ Marks(d, u)
    BY <1>2 DEF Dispatches
  <2>2. /\ tick[d].pc = "work" /\ u \in tick[d].todo /\ tick'[d].todo \subseteq tick[d].todo
        /\ \A e \in Drivers : e # d => tick'[e] = tick[e]
    BY <2>1 DEF MarkDispatched, Marks, Turns, Is
  <2>3. \A v \in Units : stage'[v] = "dispatched" => v = u \/ stage[v] = "dispatched"
    BY <2>1 DEF Marks, TypeOK
  <2>4. Inflight' \subseteq Inflight \cup {u[1]}
    BY <2>3 DEF Inflight, Units
  <2>5. u[1] \in ChaptersOf(tick[d].todo) /\ ChaptersOf(tick'[d].todo) \subseteq ChaptersOf(tick[d].todo)
    BY <2>2 DEF ChaptersOf
  <2>6. /\ Inflight' \subseteq Inflight \cup ChaptersOf(tick[d].todo)
        /\ Inflight' \cup ChaptersOf(tick'[d].todo) \subseteq Inflight \cup ChaptersOf(tick[d].todo)
    BY <2>4, <2>5
  <2>7. Cardinality(Inflight \cup ChaptersOf(tick[d].todo)) <= campaign.window
    BY <1>0, <2>2 DEF RoomInv
  <2>8. \A e \in Drivers : e # d => tick'[e].pc # "work"
    BY <1>0, <2>2, Alone DEF Mid
  <2>9. Inflight \cup ChaptersOf(tick[d].todo) \in SUBSET Chapters
    BY <1>0, <1>1
  <2>10. /\ Cardinality(Inflight') <= Cardinality(Inflight \cup ChaptersOf(tick[d].todo))
         /\ Cardinality(Inflight' \cup ChaptersOf(tick'[d].todo))
              <= Cardinality(Inflight \cup ChaptersOf(tick[d].todo))
         /\ Cardinality(Inflight \cup ChaptersOf(tick[d].todo)) \in Nat
         /\ Cardinality(Inflight') \in Nat
         /\ Cardinality(Inflight' \cup ChaptersOf(tick'[d].todo)) \in Nat
    BY <2>6, <2>9, RowsFinite
  <2>11. /\ Cardinality(Inflight') <= campaign.window
         /\ Cardinality(Inflight' \cup ChaptersOf(tick'[d].todo)) <= campaign.window
    BY <1>0, <2>7, <2>10
  <2>12. ASSUME NEW e \in Drivers, tick'[e].pc = "work"
         PROVE  Cardinality(Inflight' \cup ChaptersOf(tick'[e].todo)) <= campaign.window
    <3>1. e = d
      BY <2>8, <2>12
    <3> QED
      BY <2>11, <3>1
  <2> QED
    BY <2>11, <2>12
<1>3. ASSUME \A u \in Units : ~Dispatches(u)
      PROVE  /\ Cardinality(Inflight') <= campaign.window
             /\ \A d \in Drivers : tick'[d].pc = "work" =>
                  Cardinality(Inflight' \cup ChaptersOf(tick'[d].todo)) <= campaign.window
  <2>1. Inflight' \subseteq Inflight
    <3>1. \A v \in Units : stage'[v] = "dispatched" => stage[v] = "dispatched"
      BY <1>3, StageMoves DEF Kept, Finishes, Cancelled, Reset, GivenUp, Rearmed
    <3> QED
      BY <3>1 DEF Inflight, Units
  <2>2. /\ Cardinality(Inflight') <= Cardinality(Inflight) /\ Cardinality(Inflight) \in Nat
        /\ Cardinality(Inflight') \in Nat /\ Cardinality(Inflight) <= campaign.window
    BY <1>0, <2>1, RowsFinite DEF RoomInv
  <2>3. ASSUME NEW d \in Drivers, tick'[d].pc = "work", ~Count(d)
        PROVE  Cardinality(Inflight' \cup ChaptersOf(tick'[d].todo)) <= campaign.window
    <3>1. tick[d].pc = "work" /\ tick'[d].todo \subseteq tick[d].todo
      BY <2>3, WorkSteps
    <3>2. Inflight' \cup ChaptersOf(tick'[d].todo) \subseteq Inflight \cup ChaptersOf(tick[d].todo)
      BY <2>1, <3>1 DEF ChaptersOf
    <3>3. Cardinality(Inflight \cup ChaptersOf(tick[d].todo)) <= campaign.window
      BY <1>0, <3>1 DEF RoomInv
    <3>4. Inflight \cup ChaptersOf(tick[d].todo) \in SUBSET Chapters
      BY <1>0, <1>1
    <3> QED
      BY <1>0, <3>2, <3>3, <3>4, RowsFinite
  <2>4. ASSUME NEW d \in Drivers, tick'[d].pc = "work", Count(d)
        PROVE  Cardinality(Inflight' \cup ChaptersOf(tick'[d].todo)) <= campaign.window
    <3> DEFINE budget == campaign.window - Cardinality(Inflight)
               T == FirstOf(tick[d].todo, budget)
    <3>1. budget \in Nat \ {0} /\ tick'[d].todo = T
      <4>1. ~Ends(d)
        BY <2>4 DEF Ends, Turns, Is
      <4>2. budget > 0 /\ Turns(d, "work", tick[d].stuck, tick[d].exhausted, T, tick[d].batch,
                                tick[d].release, tick[d].job)
        BY <2>4, <4>1, CountTurns
      <4> QED
        BY <1>0, <2>2, <4>2 DEF Turns, Is
    <3>2. T \in SUBSET Units /\ IsFiniteSet(T) /\ Cardinality(T) <= budget
      BY <1>0, <3>1, UnitsFinite, FirstOfSize
    <3>3. ChaptersOf(T) \in SUBSET Chapters /\ Cardinality(ChaptersOf(T)) <= Cardinality(T)
          /\ Cardinality(T) \in Nat
      BY <3>2, Places, FS_CardinalityType
    <3>4. Inflight' \cup ChaptersOf(T) \in SUBSET Chapters
      BY <1>0, <3>3
    <3>5. Cardinality(Inflight' \cup ChaptersOf(T)) =
            Cardinality(Inflight') + Cardinality(ChaptersOf(T)) - Cardinality(Inflight' \cap ChaptersOf(T))
      BY <1>0, <3>3, RowsFinite, FS_Union
    <3>6. /\ Cardinality(ChaptersOf(T)) \in Nat
          /\ Cardinality(Inflight' \cap ChaptersOf(T)) \in Nat
      BY <1>0, <3>3, RowsFinite
    <3> QED
      BY <1>0, <2>2, <3>1, <3>2, <3>3, <3>5, <3>6
  <2> QED
    BY <1>0, <2>2, <2>3, <2>4
<1> QED
  BY <1>2, <1>3

\* The ceiling of rows in flight holds across ticks.
THEOREM CeilingHolds == Spec => []InflightBounded
<1>1. Init => RoomInv
  <2> SUFFICES ASSUME Init PROVE RoomInv
    OBVIOUS
  <2>1. Inflight = {} /\ campaign.window \in Nat \ {0}
    BY TypeInit DEF Init, Inflight, Units, TypeOK
  <2>2. \A d \in Drivers : tick[d].pc = "idle"
    BY IdleIs DEF Init, Is
  <2> QED
    BY <2>1, <2>2, FS_EmptySet DEF RoomInv
<1>2. OneDriver /\ RoomInv /\ [Next]_vars => RoomInv'
  BY RoomNext DEF OneDriver
<1>3. RoomInv => InflightBounded
  BY DEF RoomInv, InflightBounded
<1> QED
  BY <1>1, <1>2, <1>3, OneDriverAlways, PTL DEF Spec

-----------------------------------------------------------------------------
(* The jobs a campaign pays for                                            *)

Covers(j, c) == c \in jobs[j].chapters /\ ~jobs[j].loose

JobShape ==
  \A j \in Jobs : /\ jobs[j].state = "ended" => jobs[j].chapters = {}
                  /\ jobs[j].state = "paused" => jobs[j].loose

\* The ways a job moves.
Shrinks(j) ==
  /\ jobs'[j].state = jobs[j].state /\ (jobs'[j].loose <=> jobs[j].loose)
  /\ jobs'[j].chapters \subseteq jobs[j].chapters /\ jobs[j].state = "active"
Pauses(j) == jobs'[j].loose /\ jobs'[j].chapters = jobs[j].chapters /\ jobs'[j].state = "paused"
Resumes(j) ==
  /\ jobs[j].state = "paused" /\ jobs'[j].state = "active"
  /\ (jobs'[j].loose <=> jobs[j].loose) /\ jobs'[j].chapters = jobs[j].chapters
Loosens(j) ==
  /\ jobs'[j].state = jobs[j].state /\ jobs'[j].chapters = jobs[j].chapters
  /\ jobs'[j].loose <=> jobs[j].state # "ended"
Appears(j) ==
  \E d \in Drivers :
    /\ CallTranslation(d)
    /\ \/ jobs' = [jobs EXCEPT ![j] = Created(tick[d].batch, FALSE)] /\ Sends(d, j)
       \/ jobs' = [jobs EXCEPT ![j] = Created(tick[d].batch, TRUE)]

LEMMA JobSteps ==
  ASSUME TypeOK, [Next]_vars, NEW j \in Jobs
  PROVE  \/ jobs'[j] = jobs[j] \/ jobs'[j] = Ended
         \/ Loosens(j) \/ Shrinks(j) \/ Pauses(j) \/ Resumes(j) \/ Appears(j)
<1> DEFINE Goal == \/ jobs'[j] = jobs[j] \/ jobs'[j] = Ended
                   \/ Loosens(j) \/ Shrinks(j) \/ Pauses(j) \/ Resumes(j) \/ Appears(j)
<1>0. jobs \in [Jobs -> Job] /\ tick \in [Drivers -> Tick]
  BY DEF TypeOK
<1>1. ASSUME jobs'[j] = Loosened(j) PROVE Loosens(j)
  BY <1>0, <1>1, LoosenedType DEF Loosens
<1>2. ASSUME NEW d \in Drivers, PropagateCancel(d) PROVE Goal
  BY <1>1, <1>2 DEF PropagateCancel
<1>3. ASSUME NEW d \in Drivers, CallTranslation(d) PROVE Goal
  <2>1. \/ jobs' = jobs
        \/ \E k \in Jobs :
             \/ /\ jobs' = [jobs EXCEPT ![k] = Created(tick[d].batch, FALSE)]
                /\ Becomes(d, [tick[d] EXCEPT !.pc = "stamp", !.job = k])
             \/ jobs' = [jobs EXCEPT ![k] = Created(tick[d].batch, TRUE)]
    BY <1>3 DEF CallTranslation
  <2>2. ASSUME NEW k \in Jobs, k # j, NEW b \in BOOLEAN,
               jobs' = [jobs EXCEPT ![k] = Created(tick[d].batch, b)]
        PROVE  jobs'[j] = jobs[j]
    BY <1>0, <2>2
  <2> QED
    BY <1>3, <2>1, <2>2, SendTurns DEF Appears
<1>4. ASSUME NEW d \in Drivers, Crash(d) PROVE Goal
  BY <1>1, <1>4 DEF Crash
<1>5. ASSUME NEW k \in Jobs, NEW c \in Chapters, Translate(k, c) PROVE Goal
  <2>1. CASE k = j
    <3>1. jobs'[j] = [jobs[j] EXCEPT !.chapters = jobs[j].chapters \ {c}] /\ jobs[j].state = "active"
      BY <1>0, <1>5, <2>1 DEF Translate
    <3>2. jobs[j].chapters \ {c} \in SUBSET Chapters
      BY <1>0, JobFields
    <3>3. ASSUME NEW C \in SUBSET Chapters
          PROVE  LET x == [jobs[j] EXCEPT !.chapters = C]
                 IN  x.state = jobs[j].state /\ x.chapters = C /\ (x.loose <=> jobs[j].loose)
      BY <1>0 DEF Job
    <3> QED
      BY <3>1, <3>2, <3>3 DEF Shrinks
  <2>2. CASE k # j
    BY <1>0, <1>5, <2>2 DEF Translate
  <2> QED
    BY <2>1, <2>2
<1>6. ASSUME NEW k \in Jobs, JobEnds(k) \/ JobPaused(k) \/ JobResumed(k) PROVE Goal
  <2>1. CASE k # j
    BY <1>0, <1>6, <2>1 DEF JobEnds, JobPaused, JobResumed, JobBecomes
  <2>2. ASSUME NEW x \in Job, NEW state \in {"ended", "active", "paused"}
        PROVE  LET y == [x EXCEPT !.state = state]
               IN  y.state = state /\ y.chapters = x.chapters /\ (y.loose <=> x.loose)
    BY <2>2 DEF Job
  <2>3. CASE k = j /\ JobEnds(j)
    BY <1>0, <2>3 DEF JobEnds, JobBecomes
  <2>4. CASE k = j /\ JobPaused(j)
    <3>1. jobs'[j] = [Loosened(j) EXCEPT !.state = "paused"] /\ jobs[j].state = "active"
      BY <1>0, <2>4 DEF JobPaused, JobBecomes
    <3> QED
      BY <1>0, <2>2, <3>1, LoosenedType DEF Pauses
  <2>5. CASE k = j /\ JobResumed(j)
    <3>1. jobs'[j] = [jobs[j] EXCEPT !.state = "active"] /\ jobs[j].state = "paused"
      BY <1>0, <2>5 DEF JobResumed, JobBecomes
    <3> QED
      BY <1>0, <2>2, <3>1 DEF Resumes
  <2> QED
    BY <1>6, <2>1, <2>3, <2>4, <2>5
<1>7. \/ jobs' = jobs
      \/ \E d \in Drivers : PropagateCancel(d) \/ CallTranslation(d) \/ Crash(d)
      \/ \E k \in Jobs : JobEnds(k) \/ JobPaused(k) \/ JobResumed(k) \/ \E c \in Chapters : Translate(k, c)
  BY DEF Next, TickStep, vars, downstream, Claim, MarkCancelled, FinalizeCancel, FindStuck,
         FindStuckAmong, AskKnowledge, Probe, Load, FinishCampaign, Count, MarkExhausted, MarkDispatched,
         CallKnowledge, SetJobId, Release, LeaseExpires, Extract, ExtractionEnds, OtherExtraction, Absorb,
         CircuitOpen, SpendCapReached, CallRoute, SetStatus, ResetFailed
<1> QED
  BY <1>2, <1>3, <1>4, <1>5, <1>6, <1>7

LEMMA AppearsAs ==
  ASSUME TypeOK, NEW j \in Jobs, NEW d \in Drivers, NEW b \in BOOLEAN,
         jobs' = [jobs EXCEPT ![j] = Created(tick[d].batch, b)]
  PROVE  /\ jobs'[j].state = "active" /\ (jobs'[j].loose <=> b)
         /\ jobs'[j].chapters = {u[1] : u \in tick[d].batch \ finished}
         /\ \A k \in Jobs : k # j => jobs'[k] = jobs[k]
<1>1. jobs \in [Jobs -> Job] /\ tick[d] \in Tick
  BY DEF TypeOK
<1>2. tick[d].batch \in SUBSET Units
  BY <1>1, TickTypes
<1> QED
  BY <1>1, <1>2, CreatedType

LEMMA JobShapeNext == TypeOK /\ JobShape /\ [Next]_vars => JobShape'
<1> SUFFICES ASSUME TypeOK, JobShape, [Next]_vars, NEW j \in Jobs
             PROVE  /\ jobs'[j].state = "ended" => jobs'[j].chapters = {}
                    /\ jobs'[j].state = "paused" => jobs'[j].loose
  BY DEF JobShape
<1>1. CASE Appears(j)
  BY <1>1, AppearsAs DEF Appears
<1>2. CASE jobs'[j] = Ended
  BY <1>2 DEF Ended
<1>3. CASE jobs'[j] = jobs[j] \/ Loosens(j) \/ Shrinks(j) \/ Pauses(j) \/ Resumes(j)
  BY <1>3 DEF JobShape, Loosens, Shrinks, Pauses, Resumes
<1> QED
  BY <1>1, <1>2, <1>3, JobSteps

\* A driver that keeps an answer is bound by what it has marked.
Sent(d, j) ==
  /\ CallTranslation(d) /\ Sends(d, j)
  /\ jobs' = [jobs EXCEPT ![j] = Created(tick[d].batch, FALSE)]

\* A job comes to cover a chapter only by a call whose answer has arrived.
LEMMA CoverSteps ==
  ASSUME TypeOK, JobShape, ShapeInv, [Next]_vars, NEW j \in Jobs, NEW c \in Chapters, Covers(j, c)'
  PROVE  Covers(j, c) \/ \E d \in Drivers : Sent(d, j) /\ Translation(c) \in tick[d].batch
<1>0. c \in jobs'[j].chapters /\ ~jobs'[j].loose
  BY DEF Covers
<1>1. CASE jobs'[j] = jobs[j] \/ Shrinks(j) \/ Resumes(j)
  BY <1>0, <1>1 DEF Covers, Shrinks, Resumes
<1>2. CASE jobs'[j] = Ended \/ Pauses(j)
  BY <1>0, <1>2 DEF Ended, Pauses
<1>3. CASE Loosens(j)
  BY <1>0, <1>3 DEF Loosens, JobShape
<1>4. CASE Appears(j)
  <2>1. PICK d \in Drivers :
          /\ CallTranslation(d)
          /\ \/ jobs' = [jobs EXCEPT ![j] = Created(tick[d].batch, FALSE)] /\ Sends(d, j)
             \/ jobs' = [jobs EXCEPT ![j] = Created(tick[d].batch, TRUE)]
    BY <1>4 DEF Appears
  <2>2. jobs' = [jobs EXCEPT ![j] = Created(tick[d].batch, FALSE)] /\ Sends(d, j)
    BY <1>0, <2>1, AppearsAs
  <2>3. PICK u \in tick[d].batch : u[1] = c
    <3>1. jobs'[j].chapters = {u[1] : u \in tick[d].batch \ finished}
      BY <2>2, AppearsAs
    <3> QED
      BY <1>0, <3>1
  <2>4. \E v \in tick[d].batch : v[2] = "translation"
    BY <2>1 DEF CallTranslation, BatchMarked
  <2>5. u[2] = "translation"
    BY <2>4 DEF ShapeInv, Shape
  <2>6. u \in Units
    <3>1. tick[d] \in Tick
      BY DEF TypeOK
    <3> QED
      BY <3>1, TickTypes
  <2>7. u = Translation(c)
    BY <2>3, <2>5, <2>6, UnitFields DEF Translation
  <2> QED
    BY <2>1, <2>2, <2>7 DEF Sent
<1> QED
  BY <1>1, <1>2, <1>3, <1>4, JobSteps

\* A chapter a job still has to do is done already, or waits for this job.
BoundInv ==
  \A j \in Jobs, c \in Chapters : Covers(j, c) =>
    \/ stage[Translation(c)] = "done"
    \/ stage[Translation(c)] = "dispatched" /\ jobOf[c] = j
    \/ \E d \in Drivers : tick[d].pc = "stamp" /\ tick[d].job = j /\ Translation(c) \in tick[d].batch
\* A tick has nothing in hand that a job is at work on, but what it has sent itself.
HeldInv ==
  \A d \in Drivers, j \in Jobs, c \in Chapters :
    Translation(c) \in Held(tick[d]) /\ Covers(j, c) =>
      tick[d].job = j /\ Translation(c) \in tick[d].batch
BatchInv ==
  \A d \in Drivers, c \in Chapters :
    Translation(c) \in tick[d].batch => stage[Translation(c)] \in {"dispatched", "done"}
StuckInv == \A d \in Drivers : \A r \in tick[d].stuck : r[2] = jobOf[r[1][1]]
OneCover == \A j, k \in Jobs, c \in Chapters : Covers(j, c) /\ Covers(k, c) => j = k
CancelInv ==
  \A d \in Drivers :
    /\ tick[d].pc \in {"propagated", "finalize"} =>
         \A j \in Jobs, c \in Chapters : Covers(j, c) => stage[Translation(c)] = "done"
    /\ tick[d].pc = "finalize" => Inflight = {}

Paid == BoundInv /\ HeldInv /\ BatchInv /\ StuckInv /\ OneCover /\ CancelInv
PaidInv == ~overlapped => Paid

Context == TypeOK /\ ShapeInv /\ OneMid /\ JobShape

LEMMA Before1 == ASSUME TypeOK, [Next]_vars, ~overlapped' PROVE ~overlapped
BY Sides, TicksRest, MidSteps DEF Claim, TypeOK

\* While d is at work every step is of d or from outside.
LEMMA MySteps ==
  ASSUME TypeOK, OneMid, [Next]_vars, ~overlapped', NEW d \in Drivers, Mid(d)
  PROVE  TickStep(d) \/ Crash(d) \/ (Outside /\ tick' = tick)
<1>1. ASSUME NEW e \in Drivers, Claim(e) PROVE FALSE
  BY <1>1 DEF Claim, TypeOK
<1>2. ASSUME NEW e \in Drivers, TickStep(e) \/ Crash(e) PROVE e = d
  BY <1>2, MidSteps, Before1 DEF OneMid
<1> QED
  BY <1>1, <1>2, Sides, TicksRest

LEMMA PcSteps ==
  ASSUME NEW d \in Drivers, TickStep(d)
  PROVE  /\ tick[d].pc = "stamp" => SetJobId(d)
         /\ tick[d].pc = "propagated" => MarkCancelled(d)
         /\ tick[d].pc = "finalize" => FinalizeCancel(d)
BY DEF TickStep, Reconciling, PropagateCancel, MarkCancelled, FinalizeCancel, FindStuck, FindStuckAmong, AskKnowledge, Probe,
       Load, FinishCampaign, Count, MarkExhausted, MarkDispatched, CallKnowledge, CallTranslation,
       BatchMarked, SetJobId, Release

LEMMA TranslationFields ==
  ASSUME NEW c \in Chapters
  PROVE  Translation(c) \in Units /\ Translation(c)[1] = c /\ Translation(c)[2] = "translation"
BY DEF Translation, Units, Stages

\* What a job covers is not given up by any tick.
LEMMA NotGivenUp ==
  ASSUME Context, Paid, NEW j \in Jobs, NEW c \in Chapters, Covers(j, c)
  PROVE  ~GivenUp(Translation(c)) /\ ~Dispatches(Translation(c))
<1>1. ASSUME NEW d \in Drivers, Translation(c) \in tick[d].exhausted \cup tick[d].release PROVE FALSE
  <2>1. Translation(c) \in tick[d].batch
    BY <1>1 DEF Paid, HeldInv, Held
  <2> QED
    BY <1>1, <2>1 DEF Context, ShapeInv, Shape
<1>2. ASSUME NEW d \in Drivers, MarkDispatched(d), Marks(d, Translation(c)) PROVE FALSE
  <2>1. tick[d].job = j
    BY <1>2 DEF Marks, Paid, HeldInv, Held
  <2>2. tick[d].pc = "work"
    BY <1>2 DEF MarkDispatched
  <2> QED
    BY <2>1, <2>2, NoJobIsNoJob DEF Context, ShapeInv, Shape
<1> QED
  BY <1>1, <1>2 DEF GivenUp, Dispatches

LEMMA CoveredIsActive ==
  ASSUME Context, NEW j \in Jobs, NEW c \in Chapters, Covers(j, c)
  PROVE  jobs[j].state = "active"
<1>1. jobs[j] \in Job
  BY DEF Context, TypeOK
<1> QED
  BY <1>1, JobFields DEF Context, JobShape, Covers, Job

LEMMA DoneStays ==
  ASSUME Context, Paid, [Next]_vars, NEW j \in Jobs, NEW c \in Chapters, Covers(j, c),
         stage[Translation(c)] = "done"
  PROVE  stage'[Translation(c)] = "done"
BY NotGivenUp, TranslationFields, StageMoves
   DEF Context, Kept, Finishes, Cancelled, Reset, Dispatches, Rearmed

LEMMA BoundNext ==
  ASSUME Context, Paid, [Next]_vars, ~overlapped' PROVE BoundInv'
<1> DEFINE Bound(j, c) ==
      \/ stage'[Translation(c)] = "done"
      \/ stage'[Translation(c)] = "dispatched" /\ jobOf'[c] = j
      \/ \E d \in Drivers : tick'[d].pc = "stamp" /\ tick'[d].job = j /\ Translation(c) \in tick'[d].batch
<1> SUFFICES ASSUME NEW j \in Jobs, NEW c \in Chapters, Covers(j, c)' PROVE Bound(j, c)
  BY DEF BoundInv, Covers, Translation
<1>0. TypeOK /\ ShapeInv /\ OneMid /\ JobShape /\ ~overlapped /\ Translation(c) \in Units
  BY Before1, TranslationFields DEF Context
<1>1. ASSUME NEW d \in Drivers, Sent(d, j), Translation(c) \in tick[d].batch PROVE Bound(j, c)
  BY <1>1 DEF Sent, Sends, Turns, Is
<1>2. ASSUME Covers(j, c), stage[Translation(c)] = "done" PROVE Bound(j, c)
  BY <1>2, DoneStays
<1>3. ASSUME Covers(j, c), stage[Translation(c)] = "dispatched", jobOf[c] = j PROVE Bound(j, c)
  <2>1. ~Cancelled(Translation(c))
    <3>1. ASSUME NEW d \in Drivers, MarkCancelled(d) PROVE FALSE
      <4>1. tick[d].pc = "propagated"
        BY <3>1 DEF MarkCancelled
      <4> QED
        BY <1>3, <4>1 DEF Paid, CancelInv
    <3> QED
      BY <3>1 DEF Cancelled
  <2>2. ~Reset(Translation(c))
    <3>1. ASSUME NEW d \in Drivers, NEW r \in tick[d].stuck, r[1] = Translation(c)
          PROVE  Truth(d, r[1], r[2]) # "reset"
      <4>1. r[2] = j /\ r[1][2] = "translation"
        BY <1>3, <3>1, TranslationFields DEF Paid, StuckInv
      <4>2. jobs[j].state = "active"
        BY <1>3, CoveredIsActive
      <4> QED
        BY <4>1, <4>2, NoJobIsNoJob DEF Truth
    <3> QED
      BY <3>1 DEF Reset
  <2>3. Kept(Translation(c)) \/ Finishes(Translation(c))
    BY <1>0, <1>3, <2>1, <2>2, NotGivenUp, StageMoves DEF Dispatches, Rearmed
  <2>4. jobOf'[c] = j
    <3>1. ASSUME NEW d \in Drivers, SetJobId(d) PROVE jobOf'[c] = j
      <4>1. jobOf'[c] = IF Translation(c) \in tick[d].batch /\ stage[Translation(c)] = "dispatched"
                        THEN tick[d].job ELSE jobOf[c]
        BY <3>1 DEF SetJobId, Translation
      <4>2. Translation(c) \in tick[d].batch => tick[d].job = j
        BY <1>3 DEF Paid, HeldInv, Held
      <4> QED
        BY <1>3, <4>1, <4>2
    <3>2. jobOf' = jobOf \/ \E d \in Drivers : SetJobId(d)
      BY DEF Next, TickStep, vars, rows, Claim, PropagateCancel, MarkCancelled, FinalizeCancel,
             FindStuck, FindStuckAmong, AskKnowledge, Probe, Load, FinishCampaign, Count, MarkExhausted,
             MarkDispatched, CallKnowledge, CallTranslation, Release, Crash, LeaseExpires, Extract,
             ExtractionEnds, OtherExtraction, Translate, JobEnds, JobPaused, JobResumed, JobBecomes, Absorb,
             CircuitOpen, SpendCapReached, CallRoute, SetStatus, ResetFailed
    <3> QED
      BY <1>3, <3>1, <3>2
  <2> QED
    BY <1>3, <2>3, <2>4 DEF Kept, Finishes
<1>4. ASSUME NEW d \in Drivers, Covers(j, c), tick[d].pc = "stamp", tick[d].job = j,
             Translation(c) \in tick[d].batch
      PROVE  Bound(j, c)
  <2>1. Mid(d)
    BY <1>4 DEF Mid
  <2>2. CASE tick' = tick
    BY <1>4, <2>2
  <2>3. CASE Crash(d)
    <3>1. jobs'[j] = Loosened(j)
      BY <1>4, <2>3 DEF Crash
    <3>2. jobs'[j].loose
      BY <1>0, <1>4, <3>1, CoveredIsActive, LoosenedType DEF TypeOK
    <3> QED
      BY <3>2 DEF Covers
  <2>4. CASE TickStep(d)
    <3>1. SetJobId(d)
      BY <1>4, <2>4, PcSteps
    <3>2. /\ stage' = stage
          /\ jobOf'[c] = IF Translation(c) \in tick[d].batch /\ stage[Translation(c)] = "dispatched"
                         THEN tick[d].job ELSE jobOf[c]
      BY <3>1 DEF SetJobId, Translation
    <3>3. stage[Translation(c)] \in {"dispatched", "done"}
      BY <1>4 DEF Paid, BatchInv
    <3> QED
      BY <1>4, <3>2, <3>3
  <2> QED
    BY <1>0, <2>1, <2>2, <2>3, <2>4, MySteps
<1>5. CASE Covers(j, c)
  BY <1>2, <1>3, <1>4, <1>5 DEF Paid, BoundInv
<1> QED
  BY <1>0, <1>1, <1>5, CoverSteps

LEMMA HeldNext ==
  ASSUME Context, Paid, [Next]_vars, ~overlapped' PROVE HeldInv'
<1> SUFFICES ASSUME NEW e \in Drivers, NEW j \in Jobs, NEW c \in Chapters,
                    Translation(c) \in Held(tick'[e]), Covers(j, c)'
             PROVE  tick'[e].job = j /\ Translation(c) \in tick'[e].batch
  BY DEF HeldInv, Held, Covers, Translation
<1>0. TypeOK /\ ShapeInv /\ OneMid /\ JobShape /\ ~overlapped /\ Translation(c) \in Units
  BY Before1, TranslationFields DEF Context
<1>1. ASSUME NEW d \in Drivers, Sent(d, j), Translation(c) \in tick[d].batch
      PROVE  tick'[e].job = j /\ Translation(c) \in tick'[e].batch
  <2>1. CASE e = d
    BY <1>1, <2>1 DEF Sent, Sends, Turns, Is
  <2>2. e = d
    <3>1. TickStep(d) /\ Mid(d)
      BY <1>1, MidSteps DEF Sent, TickStep
    <3>2. e # d => Held(tick[e]) = {} /\ tick'[e] = tick[e]
      BY <1>0, <3>1, Alone, OthersWait
    <3> QED
      BY <3>2
  <2> QED
    BY <2>1, <2>2
<1>2. ASSUME Covers(j, c), Translation(c) \in Held(tick[e])
      PROVE  tick'[e].job = j /\ Translation(c) \in tick'[e].batch
  <2>1. tick[e].job = j /\ Translation(c) \in tick[e].batch
    BY <1>2 DEF Paid, HeldInv
  <2>2. tick[e].pc = "stamp"
    BY <1>0, <2>1, NoJobIsNoJob DEF ShapeInv, Shape
  <2>3. ~Ends(e)
    <3>1. Ends(e) => Held(tick'[e]) = {}
      BY DEF Ends, Turns, Is, Held
    <3> QED
      BY <3>1
  <2>4. tick' = tick
    BY <1>0, <2>2, <2>3, MySteps, PcSteps, EndTurns DEF Mid
  <2> QED
    BY <2>1, <2>4
<1>3. ASSUME Covers(j, c), Translation(c) \notin Held(tick[e]) PROVE FALSE
  <2>1. Load(e) /\ Translation(c) \in Ready
    BY <1>0, <1>3, HeldSteps
  <2>2. stage[Translation(c)] \notin {"done", "dispatched"}
    BY <2>1 DEF Ready, Dispatchable
  <2>3. PICK d \in Drivers : tick[d].pc = "stamp"
    BY <1>3, <2>2 DEF Paid, BoundInv
  <2>4. Mid(d) /\ Mid(e) /\ tick[e].pc # "stamp"
    BY <2>1, <2>3 DEF Mid, Load, Reconciling
  <2> QED
    BY <1>0, <2>3, <2>4 DEF OneMid
<1> QED
  BY <1>0, <1>1, <1>2, <1>3, CoverSteps

\* A batch grows by what is marked only.
LEMMA BatchSteps ==
  ASSUME TypeOK, ShapeInv, [Next]_vars, NEW e \in Drivers, NEW u \in tick'[e].batch
  PROVE  u \in tick[e].batch \/ (MarkDispatched(e) /\ Marks(e, u))
<1> DEFINE Goal == u \in tick[e].batch \/ (MarkDispatched(e) /\ Marks(e, u))
<1>1. CASE tick'[e] = tick[e]
  BY <1>1
<1>2. CASE Outside
  BY <1>1, <1>2, TicksRest
<1>3. ASSUME NEW d \in Drivers, Claim(d) \/ TickStep(d) \/ Crash(d), d # e PROVE Goal
  BY <1>1, <1>3, OthersWait
<1>4. ASSUME NEW pc, NEW a, NEW b, NEW c, NEW f, NEW h, Turns(e, pc, a, b, c, {}, f, h) PROVE FALSE
  BY <1>4 DEF Turns, Is
<1>5. ASSUME NEW pc, NEW a, NEW b, NEW c, NEW f, NEW h, Turns(e, pc, a, b, c, tick[e].batch, f, h)
      PROVE  Goal
  BY <1>5 DEF Turns, Is
<1>6. CASE Claim(e)
  BY <1>4, <1>6, ClaimTurns
<1>7. ~Ends(e)
  BY <1>4 DEF Ends
<1>8. CASE PropagateCancel(e) \/ MarkCancelled(e)
  BY <1>4, <1>8, CancelTurns
<1>9. CASE FinalizeCancel(e) \/ FinishCampaign(e) \/ SetJobId(e) \/ Crash(e)
  BY <1>7, <1>9, EndTurns
<1>10. CASE FindStuck(e) \/ Load(e)
  BY <1>4, <1>10, FindStuckTurns, LoadTurns
<1>11. CASE AskKnowledge(e) \/ Probe(e)
  BY <1>5, <1>11, AskTurns, ProbeTurns
<1>12. CASE Count(e)
  BY <1>5, <1>7, <1>12, CountTurns
<1>13. CASE MarkExhausted(e)
  BY <1>5, <1>7, <1>13, ExhaustedTurns
<1>14. CASE Release(e)
  BY <1>5, <1>7, <1>14, ReleaseTurns
<1>15. CASE MarkDispatched(e)
  <2>1. PICK v \in tick[e].todo : Marks(e, v)
    BY <1>15, MarkTurns
  <2>2. tick'[e].batch = tick[e].batch \cup {v}
    BY <2>1 DEF Marks, Turns, Is
  <2> QED
    BY <1>15, <2>1, <2>2
<1>16. ~Refuses(e)
  BY <1>4 DEF Refuses
<1>17. CASE CallKnowledge(e)
  BY <1>4, <1>7, <1>16, <1>17, KnowledgeTurns
<1>18. CASE CallTranslation(e)
  BY <1>5, <1>16, <1>18, TranslationTurns DEF Sends
<1> QED
  BY <1>2, <1>3, <1>6, <1>8, <1>9, <1>10, <1>11, <1>12, <1>13, <1>14, <1>15, <1>17, <1>18, Sides
     DEF TickStep

LEMMA BatchNext ==
  ASSUME Context, Paid, [Next]_vars, ~overlapped' PROVE BatchInv'
<1> SUFFICES ASSUME NEW e \in Drivers, NEW c \in Chapters, Translation(c) \in tick'[e].batch
             PROVE  stage'[Translation(c)] \in {"dispatched", "done"}
  BY DEF BatchInv, Translation
<1>0. TypeOK /\ ShapeInv /\ OneMid /\ ~overlapped /\ Translation(c) \in Units
  BY Before1, TranslationFields DEF Context
<1>1. CASE MarkDispatched(e) /\ Marks(e, Translation(c))
  <2>1. CASE Dispatchable(Translation(c))
    BY <1>0, <1>1, <2>1 DEF Marks, TypeOK
  <2>2. CASE ~Dispatchable(Translation(c))
    <3>1. stage[Translation(c)] \in StageStatus
      BY <1>0 DEF TypeOK
    <3> QED
      BY <1>1, <2>2, <3>1 DEF Marks, Dispatchable, StageStatus
  <2> QED
    BY <2>1, <2>2
<1>2. CASE Translation(c) \in tick[e].batch
  <2>1. stage[Translation(c)] \in {"dispatched", "done"}
    BY <1>2 DEF Paid, BatchInv
  <2>2. /\ tick[e].pc \in {"work", "stamp"}
        /\ tick[e].exhausted \cup tick[e].release = {}
    BY <1>0, <1>2 DEF ShapeInv, Shape, Held
  <2>3. ASSUME NEW d \in Drivers, Mid(d) PROVE d = e
    BY <1>0, <2>2, <2>3 DEF OneMid, Mid
  <2>4. ~Cancelled(Translation(c))
    <3>1. ASSUME NEW d \in Drivers, MarkCancelled(d) PROVE FALSE
      <4>1. tick[d].pc = "propagated"
        BY <3>1 DEF MarkCancelled
      <4>2. Mid(d)
        BY <4>1 DEF Mid
      <4> QED
        BY <2>2, <2>3, <4>1, <4>2
    <3> QED
      BY <3>1 DEF Cancelled
  <2>5. ~Reset(Translation(c))
    <3>1. ASSUME NEW d \in Drivers, Probe(d) PROVE FALSE
      <4>1. tick[d].pc \in Reconciling
        BY <3>1 DEF Probe
      <4>2. Mid(d) /\ tick[d].pc \notin {"work", "stamp"}
        BY <4>1 DEF Mid, Reconciling
      <4> QED
        BY <2>2, <2>3, <4>2
    <3> QED
      BY <3>1 DEF Reset
  <2>6. ~GivenUp(Translation(c))
    <3>1. ASSUME NEW d \in Drivers, MarkExhausted(d) \/ Release(d),
                 Translation(c) \in tick[d].exhausted \cup tick[d].release
          PROVE  FALSE
      <4>1. Mid(d)
        BY <3>1, MidSteps DEF TickStep
      <4> QED
        BY <2>2, <2>3, <3>1, <4>1
    <3> QED
      BY <3>1 DEF GivenUp
  <2> QED
    BY <1>0, <2>1, <2>4, <2>5, <2>6, StageMoves DEF Kept, Finishes, Dispatches, Rearmed
<1> QED
  BY <1>0, <1>1, <1>2, BatchSteps

\* How a tick comes to the places where these invariants look at it.
LEMMA PlaceSteps ==
  ASSUME TypeOK, [Next]_vars, NEW e \in Drivers
  PROVE  /\ tick'[e].pc \in Reconciling =>
              tick'[e] = tick[e] \/ FindStuck(e) \/ AskKnowledge(e) \/ Probe(e)
         /\ tick'[e].pc = "propagated" => tick'[e] = tick[e] \/ PropagateCancel(e)
         /\ tick'[e].pc = "finalize" => tick'[e] = tick[e] \/ MarkCancelled(e)
<1> SUFFICES ASSUME tick'[e].pc \in Reconciling \cup {"propagated", "finalize"}, tick'[e] # tick[e]
             PROVE  \/ tick'[e].pc \in Reconciling /\ (FindStuck(e) \/ AskKnowledge(e) \/ Probe(e))
                    \/ tick'[e].pc = "propagated" /\ PropagateCancel(e)
                    \/ tick'[e].pc = "finalize" /\ MarkCancelled(e)
  BY DEF Reconciling
<1>0. "probe" \in Reconciling /\ \A pc \in Reconciling : pc \notin {"work", "stamp", "idle"}
  BY DEF Reconciling
<1>1. ~Outside
  BY TicksRest
<1>2. ASSUME NEW d \in Drivers, Claim(d) \/ TickStep(d) \/ Crash(d) PROVE d = e
  BY <1>2, OthersWait
<1>3. ASSUME NEW pc, NEW a, NEW b, NEW c, NEW f, NEW g, NEW h, Turns(e, pc, a, b, c, f, g, h)
      PROVE  tick'[e].pc = pc
  BY <1>3 DEF Turns, Is
<1>4. ~Ends(e)
  BY <1>3 DEF Ends, Reconciling
<1>5. ~Claim(e)
  BY <1>3, ClaimTurns DEF Reconciling
<1>6. ~(FinalizeCancel(e) \/ FinishCampaign(e) \/ SetJobId(e) \/ Crash(e))
  BY <1>4, EndTurns
<1>7. ~Load(e)
  BY <1>3, LoadTurns DEF Reconciling
<1>8. ~Count(e)
  BY <1>3, <1>4, CountTurns DEF Reconciling
<1>9. ASSUME tick[e].pc = "work" PROVE tick'[e].pc \notin {"work", "stamp"}
  BY <1>0
<1>10. ~MarkExhausted(e) /\ ~Release(e)
  <2>1. MarkExhausted(e) \/ Release(e) => tick[e].pc = "work"
    BY DEF MarkExhausted, Release
  <2> QED
    BY <1>0, <1>3, <1>4, <2>1, ExhaustedTurns, ReleaseTurns
<1>11. ~MarkDispatched(e)
  <2>1. MarkDispatched(e) => tick[e].pc = "work"
    BY DEF MarkDispatched
  <2>2. MarkDispatched(e) => tick'[e].pc = tick[e].pc
    BY <1>3, MarkTurns DEF Marks
  <2> QED
    BY <2>1, <2>2, <1>0, <1>3
<1>12. ~CallKnowledge(e) /\ ~CallTranslation(e)
  <2>1. CallKnowledge(e) \/ CallTranslation(e) => tick[e].pc = "work"
    BY DEF CallKnowledge, CallTranslation, BatchMarked
  <2>2. Refuses(e) => tick'[e].pc = tick[e].pc
    BY <1>3 DEF Refuses
  <2>3. \A j \in Jobs : Sends(e, j) => tick'[e].pc = "stamp"
    BY <1>3 DEF Sends
  <2>4. CallKnowledge(e) => tick'[e].pc = tick[e].pc
    BY <1>3, <1>4, <2>2, KnowledgeTurns
  <2> QED
    BY <2>1, <2>2, <2>3, <2>4, TranslationTurns, <1>0, <1>3
<1>13. PropagateCancel(e) => tick'[e].pc = "propagated"
  BY <1>3, CancelTurns
<1>14. MarkCancelled(e) => tick'[e].pc = "finalize"
  BY <1>3, CancelTurns
<1>15. FindStuck(e) => tick'[e].pc = "probe"
  BY <1>3, FindStuckTurns
<1>16. AskKnowledge(e) \/ Probe(e) => tick'[e].pc \in Reconciling
  BY <1>3, AskTurns, ProbeTurns DEF Probe
<1> QED
  BY <1>0, <1>1, <1>2, <1>5, <1>6, <1>7, <1>8, <1>10, <1>11, <1>12, <1>13, <1>14, <1>15, <1>16, Sides
     DEF TickStep

LEMMA JobIdSteps == ASSUME [Next]_vars PROVE jobOf' = jobOf \/ \E d \in Drivers : SetJobId(d)
BY DEF Next, TickStep, vars, rows, Claim, PropagateCancel, MarkCancelled, FinalizeCancel,
       FindStuck, FindStuckAmong, AskKnowledge, Probe, Load, FinishCampaign, Count, MarkExhausted,
       MarkDispatched, CallKnowledge, CallTranslation, Release, Crash, LeaseExpires, Extract,
       ExtractionEnds, OtherExtraction, Translate, JobEnds, JobPaused, JobResumed, JobBecomes, Absorb,
       CircuitOpen, SpendCapReached, CallRoute, SetStatus, ResetFailed

LEMMA StuckNext ==
  ASSUME Context, Paid, [Next]_vars, ~overlapped' PROVE StuckInv'
<1> SUFFICES ASSUME NEW e \in Drivers, NEW r \in tick'[e].stuck PROVE r[2] = jobOf'[r[1][1]]
  BY DEF StuckInv
<1>0. TypeOK /\ ShapeInv /\ OneMid /\ ~overlapped
  BY Before1 DEF Context
<1>1. tick'[e].pc \in Reconciling
  BY <1>0, ShapeNext DEF ShapeInv, Shape
<1>2. CASE FindStuck(e)
  <2>1. jobOf' = jobOf
    BY <1>2 DEF FindStuck, FindStuckAmong, AskKnowledge, rows
  <2>2. PICK U \in SUBSET DispatchedUnits : tick'[e].stuck = {<<u, jobOf[u[1]]>> : u \in U}
    BY <1>0, <1>2, FindStuckTurns DEF Turns, Is
  <2> QED
    BY <2>1, <2>2
<1>3. CASE tick'[e] = tick[e] \/ AskKnowledge(e) \/ Probe(e)
  <2>1. r \in tick[e].stuck
    BY <1>0, <1>3, AskTurns, ProbeTurns DEF Turns, Is
  <2>2. Mid(e) /\ tick[e].pc # "stamp"
    BY <1>0, <2>1 DEF ShapeInv, Shape, Mid, Reconciling
  <2>3. jobOf' = jobOf
    <3>1. ASSUME NEW d \in Drivers, SetJobId(d) PROVE FALSE
      <4>1. tick[d].pc = "stamp"
        BY <3>1 DEF SetJobId
      <4> QED
        BY <1>0, <2>2, <4>1 DEF OneMid, Mid
    <3> QED
      BY <3>1, JobIdSteps
  <2> QED
    BY <2>1, <2>3 DEF Paid, StuckInv
<1> QED
  BY <1>0, <1>1, <1>2, <1>3, PlaceSteps

LEMMA OneCoverNext ==
  ASSUME Context, Paid, [Next]_vars, ~overlapped' PROVE OneCover'
<1> SUFFICES ASSUME NEW j \in Jobs, NEW k \in Jobs, NEW c \in Chapters, Covers(j, c)', Covers(k, c)', j # k
             PROVE  FALSE
  BY DEF OneCover, Covers
<1>0. TypeOK /\ ShapeInv /\ JobShape
  BY DEF Context
<1>1. ASSUME NEW d \in Drivers, NEW i \in Jobs, Sent(d, i), Translation(c) \in tick[d].batch,
             NEW l \in Jobs, l # i, Covers(l, c)'
      PROVE  FALSE
  <2>1. jobs'[l] = jobs[l]
    BY <1>0, <1>1, AppearsAs DEF Sent
  <2>2. Covers(l, c)
    BY <1>1, <2>1 DEF Covers
  <2>3. tick[d].job = l
    BY <1>1, <2>2 DEF Paid, HeldInv, Held
  <2>4. tick[d].pc = "work"
    BY <1>1 DEF Sent, CallTranslation, BatchMarked
  <2> QED
    BY <1>0, <2>3, <2>4, NoJobIsNoJob DEF ShapeInv, Shape
<1>2. Covers(j, c) /\ Covers(k, c)
  BY <1>0, <1>1, CoverSteps
<1> QED
  BY <1>2 DEF Paid, OneCover

LEMMA CancelNext ==
  ASSUME Context, Paid, [Next]_vars, ~overlapped' PROVE CancelInv'
<1>0. TypeOK /\ ShapeInv /\ OneMid /\ JobShape /\ ~overlapped
  BY Before1 DEF Context
<1> SUFFICES ASSUME NEW d \in Drivers, tick'[d].pc \in {"propagated", "finalize"}
             PROVE  /\ \A j \in Jobs, c \in Chapters : Covers(j, c)' => stage'[Translation(c)] = "done"
                    /\ tick'[d].pc = "finalize" => Inflight' = {}
  BY DEF CancelInv, Covers, Translation
<1>1. tick[d].pc \in {"cancel", "propagated", "finalize"}
  <2>1. tick'[d] = tick[d] \/ PropagateCancel(d) \/ MarkCancelled(d)
    BY <1>0, PlaceSteps
  <2> QED
    BY <2>1 DEF PropagateCancel, MarkCancelled
<1>2. ASSUME NEW e \in Drivers, Mid(e) PROVE e = d
  BY <1>0, <1>1, <1>2 DEF OneMid, Mid
<1>3. ASSUME NEW j \in Jobs, NEW c \in Chapters, Covers(j, c)' PROVE Covers(j, c)
  <2>1. ASSUME NEW e \in Drivers, Sent(e, j) PROVE FALSE
    <3>1. tick[e].pc = "work"
      BY <2>1 DEF Sent, CallTranslation, BatchMarked
    <3>2. e = d
      BY <1>2, <3>1 DEF Mid
    <3> QED
      BY <1>1, <3>1, <3>2
  <2> QED
    BY <1>0, <1>3, <2>1, CoverSteps
<1>4. CASE PropagateCancel(d)
  <2>1. tick'[d].pc = "propagated"
    BY <1>0, <1>4, CancelTurns DEF Turns, Is
  <2>2. ASSUME NEW j \in Jobs, NEW c \in Chapters, Covers(j, c)' PROVE stage'[Translation(c)] = "done"
    <3>1. Covers(j, c)
      BY <1>3, <2>2
    <3>2. CASE stage[Translation(c)] = "done"
      BY <1>4, <3>2 DEF PropagateCancel, rows
    <3>3. CASE stage[Translation(c)] = "dispatched" /\ jobOf[c] = j
      <4>1. j \in Recorded
        BY <3>3, NoJobIsNoJob DEF Recorded, Translation
      <4>2. jobs'[j] = Loosened(j) \/ jobs'[j] = Ended
        BY <1>4, <4>1 DEF PropagateCancel
      <4>3. jobs'[j] # Ended
        BY <2>2 DEF Covers, Ended
      <4>4. jobs'[j].loose
        BY <1>0, <3>1, <4>2, <4>3, CoveredIsActive, LoosenedType DEF TypeOK
      <4> QED
        BY <2>2, <4>4 DEF Covers
    <3>4. ASSUME NEW e \in Drivers, tick[e].pc = "stamp" PROVE FALSE
      <4>1. e = d
        BY <1>2, <3>4 DEF Mid
      <4> QED
        BY <1>1, <3>4, <4>1
    <3> QED
      BY <3>1, <3>2, <3>3, <3>4 DEF Paid, BoundInv
  <2> QED
    BY <2>1, <2>2
<1>5. CASE MarkCancelled(d)
  <2>1. tick[d].pc = "propagated" /\ jobs' = jobs
    BY <1>5 DEF MarkCancelled, downstream
  <2>2. stage' = [u \in Units |-> IF stage[u] = "dispatched" THEN "failed" ELSE stage[u]]
    BY <1>5 DEF MarkCancelled
  <2>3. Inflight' = {}
    <3>1. \A u \in Units : stage'[u] # "dispatched"
      BY <2>2
    <3>2. \A c \in Chapters, s \in Stages : <<c, s>> \in Units
      BY DEF Units
    <3> QED
      BY <3>1, <3>2 DEF Inflight
  <2>4. ASSUME NEW j \in Jobs, NEW c \in Chapters, Covers(j, c)' PROVE stage'[Translation(c)] = "done"
    <3>1. stage[Translation(c)] = "done"
      BY <1>3, <2>1, <2>4 DEF Paid, CancelInv
    <3> QED
      BY <2>2, <3>1, TranslationFields
  <2> QED
    BY <2>3, <2>4
<1>6. CASE tick'[d] = tick[d] /\ ~PropagateCancel(d) /\ ~MarkCancelled(d)
  <2>1. ASSUME NEW j \in Jobs, NEW c \in Chapters, Covers(j, c)' PROVE stage'[Translation(c)] = "done"
    <3>1. Covers(j, c) /\ stage[Translation(c)] = "done"
      BY <1>3, <1>6, <2>1 DEF Paid, CancelInv
    <3> QED
      BY <3>1, DoneStays
  <2>2. ASSUME tick[d].pc = "finalize", NEW u \in Units PROVE stage'[u] # "dispatched"
    <3>1. stage[u] # "dispatched"
      <4>1. Inflight = {} /\ u = <<u[1], u[2]>> /\ u[1] \in Chapters /\ u[2] \in Stages
        BY <2>2, UnitFields DEF Paid, CancelInv
      <4> QED
        BY <4>1 DEF Inflight
    <3>2. ~Dispatches(u)
      <4>1. ASSUME NEW e \in Drivers, MarkDispatched(e) PROVE FALSE
        <5>1. tick[e].pc = "work"
          BY <4>1 DEF MarkDispatched
        <5>2. e = d
          BY <1>2, <5>1 DEF Mid
        <5> QED
          BY <1>1, <5>1, <5>2
      <4> QED
        BY <4>1 DEF Dispatches
    <3> QED
      BY <1>0, <3>1, <3>2, StageMoves DEF Kept, Finishes, Cancelled, Reset, GivenUp, Rearmed
  <2>3. tick'[d].pc = "finalize" => Inflight' = {}
    <3>1. \A c \in Chapters, s \in Stages : <<c, s>> \in Units
      BY DEF Units
    <3> QED
      BY <1>6, <2>2, <3>1 DEF Inflight
  <2> QED
    BY <2>1, <2>3
<1> QED
  BY <1>0, <1>4, <1>5, <1>6, PlaceSteps

LEMMA PaidNext == Context /\ PaidInv /\ [Next]_vars => PaidInv'
<1> SUFFICES ASSUME Context, PaidInv, [Next]_vars, ~overlapped' PROVE Paid'
  BY DEF PaidInv
<1>1. Paid
  BY Before1 DEF Context, PaidInv
<1> QED
  BY <1>1, BoundNext, HeldNext, BatchNext, StuckNext, OneCoverNext, CancelNext DEF Paid

LEMMA PaidInit == Init => JobShape /\ PaidInv
<1> SUFFICES ASSUME Init PROVE JobShape /\ Paid
  BY DEF PaidInv
<1>1. \A j \in Jobs : jobs[j] = Ended
  BY DEF Init
<1>2. \A d \in Drivers : Is(tick[d], "idle", {}, {}, {}, {}, {}, NoJob)
  BY IdleIs DEF Init
<1>3. \A j \in Jobs, c \in Chapters : ~Covers(j, c)
  BY <1>1 DEF Covers, Ended
<1>4. JobShape
  BY <1>1 DEF JobShape, Ended
<1>5. BoundInv /\ HeldInv /\ OneCover
  BY <1>3 DEF BoundInv, HeldInv, OneCover
<1>6. BatchInv /\ StuckInv /\ CancelInv
  BY <1>2 DEF BatchInv, StuckInv, CancelInv, Is
<1> QED
  BY <1>4, <1>5, <1>6 DEF Paid

LEMMA PaidAlways == Spec => [](OneDriver /\ JobShape /\ PaidInv)
<1>1. Init => JobShape /\ PaidInv
  BY PaidInit
<1>2. OneDriver /\ JobShape /\ PaidInv /\ [Next]_vars => (JobShape /\ PaidInv)'
  BY JobShapeNext, PaidNext DEF OneDriver, Context
<1> QED
  BY <1>1, <1>2, OneDriverAlways, PTL DEF Spec

\* Claim-first: with one driver at work, a chapter is never in two jobs at a
\* time unless an answer, a cancel or a user's pause put one out of control.
THEOREM OneJobPaysForAChapter == Spec => []OneJobPerChapter
<1>1. OneDriver /\ JobShape /\ PaidInv => OneJobPerChapter
  <2> SUFFICES ASSUME TypeOK, ~overlapped, Paid, NEW j \in Jobs, NEW k \in Jobs,
                      jobs[j].chapters \cap jobs[k].chapters # {}
               PROVE  j = k \/ jobs[j].loose \/ jobs[k].loose
    BY DEF OneDriver, PaidInv, OneJobPerChapter
  <2>1. jobs[j] \in Job
    BY DEF TypeOK
  <2>2. jobs[j].chapters \in SUBSET Chapters
    BY <2>1, JobFields
  <2>3. PICK c \in Chapters : c \in jobs[j].chapters /\ c \in jobs[k].chapters
    BY <2>2
  <2> QED
    BY <2>3 DEF Paid, OneCover, Covers
<1> QED
  BY <1>1, PaidAlways, PTL

\* When the driver gets to write `cancelled`, no row is in flight and no job
\* is at work but on chapters that are done, save those a cancel did not reach.
THEOREM CancelIsClean == Spec => []CancelLeavesNothing
<1>1. OneDriver /\ JobShape /\ PaidInv => CancelLeavesNothing
  <2> SUFFICES ASSUME TypeOK, ~overlapped, Paid, NEW d \in Drivers, tick[d].pc = "finalize"
               PROVE  /\ Inflight = {}
                      /\ \A j \in Jobs : \A c \in jobs[j].chapters :
                           jobs[j].loose \/ stage[<<c, "translation">>] = "done"
    BY DEF OneDriver, PaidInv, CancelLeavesNothing
  <2>1. Inflight = {}
    BY DEF Paid, CancelInv
  <2>2. ASSUME NEW j \in Jobs, NEW c \in jobs[j].chapters
        PROVE  jobs[j].loose \/ stage[<<c, "translation">>] = "done"
    <3>1. jobs[j] \in Job
      BY DEF TypeOK
    <3>2. c \in Chapters
      BY <3>1, JobFields
    <3> QED
      BY <3>2 DEF Paid, CancelInv, Covers, Translation
  <2> QED
    BY <2>1, <2>2
<1> QED
  BY <1>1, PaidAlways, PTL

-----------------------------------------------------------------------------
(* Results                                                                 *)

\* What is done has a result or was presumed, as only knowledge is, and what is
\* recorded of a stage is of one the campaign wants.
SoundInv ==
  /\ finished \subseteq Wanted
  /\ \A u \in presumed : u[2] = "knowledge"
  /\ \A u \in Units : stage[u] = "done" => u \in finished \cup presumed
  /\ \A d \in Drivers : \A r \in tick[d].stuck : r[1] \in Wanted
  /\ \A j \in Jobs : \A c \in jobs[j].chapters : Translation(c) \in Wanted

\* Wherever a translation is planned, marked or at work, its knowledge exists
\* or was presumed.
Translated(c) ==
  \/ stage[Translation(c)] = "dispatched"
  \/ \E d \in Drivers : Translation(c) \in Held(tick[d])
  \/ \E j \in Jobs : c \in jobs[j].chapters
GroundInv ==
  "knowledge" \in campaign.stages =>
    \A c \in Chapters : Translated(c) => Knowledge(c) \in finished \cup presumed

LEMMA ChapterUnits ==
  ASSUME NEW c \in Chapters
  PROVE  /\ Knowledge(c) \in Units /\ Knowledge(c)[1] = c /\ Knowledge(c)[2] = "knowledge"
         /\ Translation(c) \in Units /\ Translation(c)[1] = c /\ Translation(c)[2] = "translation"
BY DEF Knowledge, Translation, Units, Stages

LEMMA ResultSteps ==
  ASSUME [Next]_vars
  PROVE  \/ finished' = finished
         \/ \E c \in Chapters : Extract(c) /\ finished' = finished \cup {Knowledge(c)}
         \/ \E j \in Jobs, c \in Chapters : Translate(j, c) /\ finished' = finished \cup {Translation(c)}
<1>1. ASSUME NEW d \in Drivers, Claim(d) \/ TickStep(d) \/ Crash(d) PROVE finished' = finished
  BY <1>1 DEF TickStep, downstream, Claim, PropagateCancel, MarkCancelled, FinalizeCancel, FindStuck,
       FindStuckAmong, AskKnowledge, Probe, Load, FinishCampaign, Count, MarkExhausted, MarkDispatched,
       CallKnowledge, CallTranslation, SetJobId, Release, Crash
<1>2. Outside =>
        \/ finished' = finished
        \/ \E c \in Chapters : Extract(c)
        \/ \E j \in Jobs, c \in Chapters : Translate(j, c)
  BY DEF Outside, vars, downstream, LeaseExpires, ExtractionEnds, OtherExtraction, JobEnds, JobPaused, JobResumed,
         JobBecomes, Absorb, CircuitOpen, SpendCapReached, CallRoute, SetStatus, ResetFailed
<1>3. ASSUME NEW c \in Chapters, Extract(c) PROVE finished' = finished \cup {Knowledge(c)}
  BY <1>3 DEF Extract, Knowledge
<1>4. ASSUME NEW j \in Jobs, NEW c \in Chapters, Translate(j, c) PROVE finished' = finished \cup {Translation(c)}
  BY <1>4 DEF Translate, Translation
<1> QED
  BY <1>1, <1>2, <1>3, <1>4, Sides

LEMMA PresumedSteps ==
  ASSUME [Next]_vars
  PROVE  \/ presumed' = presumed
         \/ \E d \in Drivers : Probe(d)
         \/ \E c \in Chapters : Extract(c) /\ presumed' = presumed \ {Knowledge(c)}
<1>1. ASSUME NEW d \in Drivers, Claim(d) \/ TickStep(d) \/ Crash(d), ~Probe(d) PROVE presumed' = presumed
  BY <1>1 DEF TickStep, history, Claim, PropagateCancel, MarkCancelled, FinalizeCancel, FindStuck,
       FindStuckAmong, AskKnowledge, Load, FinishCampaign, Count, MarkExhausted, MarkDispatched,
       CallKnowledge, CallTranslation, SetJobId, Release, Crash
<1>2. Outside => presumed' = presumed \/ \E c \in Chapters : Extract(c)
  BY DEF Outside, vars, history, LeaseExpires, ExtractionEnds, OtherExtraction, Translate, JobEnds,
         JobPaused, JobResumed, JobBecomes, Absorb, CircuitOpen, SpendCapReached, CallRoute, SetStatus, ResetFailed
<1>3. ASSUME NEW c \in Chapters, Extract(c) PROVE presumed' = presumed \ {Knowledge(c)}
  BY <1>3 DEF Extract, Knowledge
<1> QED
  BY <1>1, <1>2, <1>3, Sides

LEMMA WordIsOfKnowledge ==
  ASSUME TypeOK, [Next]_vars, \A u \in presumed : u[2] = "knowledge", NEW u \in presumed'
  PROVE  u[2] = "knowledge"
<1>1. CASE u \in presumed
  BY <1>1
<1>2. ASSUME NEW d \in Drivers, Probe(d), u \notin presumed PROVE u[2] = "knowledge"
  <2>1. PICK r \in tick[d].stuck : Truth(d, r[1], r[2]) = "done" /\ u \in Presumed(r[1])
    BY <1>2 DEF Probe
  <2>2. u = r[1] /\ u \notin finished
    BY <2>1 DEF Presumed
  <2> QED
    BY <2>1, <2>2 DEF Truth
<1> QED
  BY <1>1, <1>2, PresumedSteps

\* Knowledge that exists or was presumed stays so: a result only takes the
\* place of a word.
LEMMA KnownStays == ASSUME [Next]_vars PROVE finished \cup presumed \subseteq finished' \cup presumed'
<1>1. \A d \in Drivers : Probe(d) => presumed \subseteq presumed'
  BY DEF Probe
<1>2. \A c \in Chapters : Extract(c) => Knowledge(c) \in finished'
  BY DEF Extract, Knowledge
<1>3. finished \subseteq finished'
  BY ResultSteps
<1> QED
  BY <1>1, <1>2, <1>3, PresumedSteps

\* A job gets its chapters from a batch of translations.
LEMMA ChapterSteps ==
  ASSUME TypeOK, ShapeInv, [Next]_vars, NEW j \in Jobs, NEW c \in jobs'[j].chapters
  PROVE  c \in jobs[j].chapters \/ \E d \in Drivers : Translation(c) \in Held(tick[d])
<1>1. CASE Appears(j)
  <2>1. PICK d \in Drivers, b \in BOOLEAN :
          CallTranslation(d) /\ jobs' = [jobs EXCEPT ![j] = Created(tick[d].batch, b)]
    BY <1>1 DEF Appears
  <2>2. c \in {u[1] : u \in tick[d].batch \ finished}
    BY <2>1, AppearsAs
  <2>3. PICK u \in tick[d].batch : u[1] = c
    BY <2>2
  <2>4. \E v \in tick[d].batch : v[2] = "translation"
    BY <2>1 DEF CallTranslation, BatchMarked
  <2>5. u[2] = "translation"
    BY <2>3, <2>4 DEF ShapeInv, Shape
  <2>6. u \in Units
    <3>1. tick[d] \in Tick
      BY DEF TypeOK
    <3> QED
      BY <2>3, <3>1, TickTypes
  <2>7. u = Translation(c)
    BY <2>3, <2>5, <2>6, UnitFields DEF Translation
  <2> QED
    BY <2>3, <2>7 DEF Held
<1>2. CASE jobs'[j] = Ended
  BY <1>2 DEF Ended
<1>3. CASE jobs'[j] = jobs[j] \/ Loosens(j) \/ Shrinks(j) \/ Pauses(j) \/ Resumes(j)
  BY <1>3 DEF Loosens, Shrinks, Pauses, Resumes
<1> QED
  BY <1>1, <1>2, <1>3, JobSteps

LEMMA StuckWanted ==
  ASSUME TypeOK, ShapeInv, WantedInv, SoundInv, [Next]_vars, NEW e \in Drivers, NEW r \in tick'[e].stuck
  PROVE  r[1] \in Wanted
<1>1. tick'[e].pc \in Reconciling
  BY ShapeNext DEF ShapeInv, Shape
<1>2. CASE FindStuck(e)
  <2>1. PICK U \in SUBSET DispatchedUnits : tick'[e].stuck = {<<u, jobOf[u[1]]>> : u \in U}
    BY <1>2, FindStuckTurns DEF Turns, Is
  <2> QED
    BY <2>1 DEF DispatchedUnits, WantedInv
<1>3. CASE tick'[e] = tick[e] \/ AskKnowledge(e) \/ Probe(e)
  <2>1. r \in tick[e].stuck
    BY <1>3, AskTurns, ProbeTurns DEF Turns, Is
  <2> QED
    BY <2>1 DEF SoundInv
<1> QED
  BY <1>1, <1>2, <1>3, PlaceSteps

LEMMA SoundNext ==
  TypeOK /\ ShapeInv /\ WantedInv /\ SoundInv /\ [Next]_vars => SoundInv'
<1> SUFFICES ASSUME TypeOK, ShapeInv, WantedInv, SoundInv, [Next]_vars PROVE SoundInv'
  OBVIOUS
<1>1. Wanted' = Wanted /\ campaign' = campaign
  BY CampaignKept DEF Wanted
<1>2. finished \subseteq finished'
  BY ResultSteps
<1>3. finished' \subseteq Wanted
  <2>1. ASSUME NEW c \in Chapters, Extract(c), finished' = finished \cup {Knowledge(c)}
        PROVE  finished' \subseteq Wanted
    BY <2>1 DEF Extract, Knowledge, SoundInv
  <2>2. ASSUME NEW j \in Jobs, NEW c \in Chapters, Translate(j, c), finished' = finished \cup {Translation(c)}
        PROVE  finished' \subseteq Wanted
    BY <2>2 DEF Translate, SoundInv
  <2> QED
    BY <2>1, <2>2, ResultSteps DEF SoundInv
<1>4. ASSUME NEW u \in Units, stage'[u] = "done" PROVE u \in finished' \cup presumed'
  <2>1. CASE Finishes(u)
    BY <1>2, <2>1 DEF Finishes
  <2>2. CASE Kept(u)
    BY <1>4, <2>2, KnownStays DEF Kept, SoundInv
  <2> QED
    BY <1>4, <2>1, <2>2, StageMoves DEF Cancelled, Reset, GivenUp, Dispatches, Rearmed
<1>6. ASSUME NEW j \in Jobs, NEW c \in jobs'[j].chapters PROVE Translation(c) \in Wanted
  BY <1>6, ChapterSteps DEF SoundInv, WantedInv
<1>7. \A u \in presumed' : u[2] = "knowledge"
  BY WordIsOfKnowledge DEF SoundInv
<1> QED
  BY <1>1, <1>3, <1>4, <1>6, <1>7, StuckWanted DEF SoundInv, Translation

LEMMA GroundNext ==
  TypeOK /\ ShapeInv /\ SoundInv /\ GroundInv /\ [Next]_vars => GroundInv'
<1> SUFFICES ASSUME TypeOK, ShapeInv, SoundInv, GroundInv, [Next]_vars, "knowledge" \in campaign.stages,
                    NEW c \in Chapters,
                    \/ stage'[Translation(c)] = "dispatched"
                    \/ \E d \in Drivers : Translation(c) \in Held(tick'[d])
                    \/ \E j \in Jobs : c \in jobs'[j].chapters
             PROVE  Knowledge(c) \in finished' \cup presumed'
  BY CampaignKept DEF GroundInv, Translated, Translation, Knowledge, Held
<1>0. Translated(c) => Knowledge(c) \in finished' \cup presumed'
  BY KnownStays DEF GroundInv
<1>1. CASE stage'[Translation(c)] = "dispatched"
  <2>1. Kept(Translation(c)) \/ Dispatches(Translation(c))
    BY <1>1, ChapterUnits, StageMoves DEF Finishes, Cancelled, Reset, GivenUp, Rearmed
  <2> QED
    BY <1>0, <1>1, <2>1 DEF Kept, Dispatches, Marks, Held, Translated
<1>2. ASSUME NEW d \in Drivers, Translation(c) \in Held(tick'[d]) PROVE Knowledge(c) \in finished' \cup presumed'
  <2>1. CASE Held(tick'[d]) \subseteq Held(tick[d])
    BY <1>0, <1>2, <2>1 DEF Translated
  <2>2. CASE Held(tick'[d]) \subseteq Ready
    <3>1. KnowledgeReady(c)
      BY <1>2, <2>2, ChapterUnits DEF Ready
    <3>2. stage[Knowledge(c)] = "done"
      BY <3>1 DEF KnowledgeReady, Knowledge
    <3> QED
      BY <3>2, ChapterUnits, ResultSteps, KnownStays DEF SoundInv
  <2> QED
    BY <2>1, <2>2, HeldSteps
<1>3. ASSUME NEW j \in Jobs, c \in jobs'[j].chapters PROVE Knowledge(c) \in finished' \cup presumed'
  BY <1>0, <1>3, ChapterSteps DEF Translated
<1> QED
  BY <1>1, <1>2, <1>3

-----------------------------------------------------------------------------
(* The barrier                                                             *)

\* Behind a barrier a tick that is to translate has no knowledge to ask for,
\* and none is on its way.
BarrierInv ==
  ~overlapped /\ campaign.barrier /\ "knowledge" \in campaign.stages =>
    \A d \in Drivers : \A b, c \in Chapters :
      Translation(c) \in tick[d].todo =>
        stage[Knowledge(b)] # "dispatched" /\ Knowledge(b) \notin tick[d].todo

LEMMA BarrierNext ==
  TypeOK /\ ShapeInv /\ OneMid /\ WantedInv /\ BarrierInv /\ [Next]_vars => BarrierInv'
<1> SUFFICES ASSUME TypeOK, ShapeInv, OneMid, WantedInv, BarrierInv, [Next]_vars, ~overlapped',
                    campaign.barrier, "knowledge" \in campaign.stages,
                    NEW d \in Drivers, NEW b \in Chapters, NEW c \in Chapters,
                    Translation(c) \in tick'[d].todo
             PROVE  stage'[Knowledge(b)] # "dispatched" /\ Knowledge(b) \notin tick'[d].todo
  BY CampaignKept DEF BarrierInv, Translation, Knowledge
<1>0. ~overlapped
  BY Before1
<1>1. CASE tick'[d].todo \subseteq tick[d].todo
  <2>1. stage[Knowledge(b)] # "dispatched" /\ Knowledge(b) \notin tick[d].todo
    BY <1>0, <1>1 DEF BarrierInv
  <2>2. ASSUME Dispatches(Knowledge(b)) PROVE FALSE
    <3>1. PICK e \in Drivers : MarkDispatched(e) /\ Marks(e, Knowledge(b))
      BY <2>2 DEF Dispatches
    <3>2. Mid(e) /\ Knowledge(b) \in tick[e].todo
      BY <3>1, MidSteps DEF TickStep, Marks
    <3>3. Translation(c) \in Held(tick[d])
      BY <1>1 DEF Held
    <3>4. e = d
      BY <1>0, <3>2, <3>3, Alone
    <3> QED
      BY <2>1, <3>2, <3>4
  <2>3. stage'[Knowledge(b)] # "dispatched"
    BY <2>1, <2>2, ChapterUnits, StageMoves DEF Kept, Finishes, Cancelled, Reset, GivenUp, Rearmed
  <2> QED
    BY <1>1, <2>1, <2>3
<1>2. CASE UNCHANGED rows /\ tick'[d].todo \subseteq {u \in Ready : ~Exhausted(u)}
  <2>1. KnowledgeReady(c)
    BY <1>2, ChapterUnits DEF Ready
  <2>2. BarrierOpen
    BY <2>1 DEF KnowledgeReady
  <2>3. CASE b \in campaign.chapters
    <3>1. Settled(Knowledge(b))
      BY <2>2, <2>3 DEF BarrierOpen, Knowledge
    <3> QED
      BY <1>2, <3>1 DEF Settled, Ready, Dispatchable, rows
  <2>4. CASE b \notin campaign.chapters
    <3>1. Knowledge(b) \notin Wanted
      BY <2>4 DEF Wanted, Knowledge
    <3> QED
      BY <1>2, <3>1, ChapterUnits DEF WantedInv, Ready, rows
  <2> QED
    BY <2>3, <2>4
<1> QED
  BY <1>1, <1>2, HeldSteps

-----------------------------------------------------------------------------
(* The stuck reconcile of knowledge                                        *)

\* While nobody else is at work, knowledge that a tick asks about, or is to
\* mark done, is still dispatched or its completion has come.
AskedInv ==
  ~overlapped =>
    \A d \in Drivers : tick[d].pc # "not_extracted" =>
      \A r \in KnowledgeStuck(d) : stage[r[1]] \in {"dispatched", "done"}

LEMMA AskedNext ==
  TypeOK /\ ShapeInv /\ OneMid /\ AskedInv /\ [Next]_vars => AskedInv'
<1> SUFFICES ASSUME TypeOK, ShapeInv, OneMid, AskedInv, [Next]_vars, ~overlapped', NEW e \in Drivers,
                    tick'[e].pc # "not_extracted", NEW r \in tick'[e].stuck, r[1][2] = "knowledge"
             PROVE  stage'[r[1]] \in {"dispatched", "done"}
  BY DEF AskedInv, KnowledgeStuck
<1>0. ~overlapped /\ tick'[e].pc \in Reconciling
  BY Before1, ShapeNext DEF ShapeInv, Shape
<1>1. CASE FindStuck(e)
  <2>1. PICK U \in SUBSET DispatchedUnits : tick'[e].stuck = {<<u, jobOf[u[1]]>> : u \in U}
    BY <1>1, FindStuckTurns DEF Turns, Is
  <2>2. stage' = stage
    BY <1>1 DEF FindStuck, FindStuckAmong, rows
  <2> QED
    BY <2>1, <2>2 DEF DispatchedUnits
<1>2. CASE tick'[e] = tick[e] \/ AskKnowledge(e) \/ Probe(e)
  <2>1. r \in tick[e].stuck /\ tick[e].pc # "not_extracted"
    <3>1. AskKnowledge(e) => tick[e].pc = "probe"
      BY DEF AskKnowledge
    <3> QED
      BY <1>2, <3>1, AskTurns, ProbeTurns DEF Turns, Is
  <2>2. stage[r[1]] \in {"dispatched", "done"}
    BY <1>0, <2>1 DEF AskedInv, KnowledgeStuck
  <2>3. r[1] \in Units
    <3>1. tick[e] \in Tick
      BY DEF TypeOK
    <3> QED
      BY <2>1, <3>1, TickTypes
  <2>4. tick[e].pc \in Reconciling /\ Mid(e)
    BY <2>1 DEF ShapeInv, Shape, Mid, Reconciling
  <2>5. \A d \in Drivers : Mid(d) => d = e
    BY <1>0, <2>4 DEF OneMid
  <2>6. ~Cancelled(r[1])
    <3>1. \A d \in Drivers : MarkCancelled(d) => Mid(d) /\ tick[d].pc \notin Reconciling
      BY DEF MarkCancelled, Mid, Reconciling
    <3> QED
      BY <2>4, <2>5, <3>1 DEF Cancelled
  <2>7. ~Reset(r[1])
    <3>1. ASSUME NEW d \in Drivers, NEW p \in tick[d].stuck, Probe(d), p[1] = r[1],
                 Truth(d, p[1], p[2]) = "reset", tick[d].pc # "probe"
          PROVE  FALSE
      <4>1. tick[d].pc \in Reconciling /\ Mid(d)
        BY <3>1 DEF Probe, Mid, Reconciling
      <4>2. tick[d].pc # "extracted"
        BY <3>1 DEF Truth
      <4> QED
        BY <2>1, <2>5, <3>1, <4>1, <4>2 DEF Reconciling
    <3> QED
      BY <3>1 DEF Reset
  <2>8. ~GivenUp(r[1])
    <3>1. \A d \in Drivers : MarkExhausted(d) \/ Release(d) => Mid(d) /\ tick[d].pc \notin Reconciling
      BY DEF MarkExhausted, Release, Mid, Reconciling
    <3> QED
      BY <2>4, <2>5, <3>1 DEF GivenUp
  <2> QED
    BY <2>2, <2>3, <2>6, <2>7, <2>8, StageMoves DEF Kept, Finishes, Dispatches, Rearmed
<1> QED
  BY <1>0, <1>1, <1>2, PlaceSteps

-----------------------------------------------------------------------------
(* CampaignSaga implements CampaignPlan                                    *)

PlanInv ==
  /\ OneDriver /\ RetryInv /\ WantedInv /\ StageInv /\ RoomInv
  /\ SoundInv /\ GroundInv /\ BarrierInv /\ AskedInv

PlanNames == /\ Plan!Stages = Stages /\ Plan!Units = Units
             /\ Plan!Wanted = Wanted /\ Plan!Inflight = Inflight
LEMMA SameNames == PlanNames
BY DEF PlanNames, Plan!Stages, Stages, Plan!Units, Units, Plan!Wanted, Wanted, Plan!Inflight, Inflight

LEMMA SameSize == ASSUME NEW S PROVE Plan!Cardinality(S) = Cardinality(S)
BY DEF Plan!Cardinality, Cardinality

LEMMA DoomedAre ==
  /\ \A u : u \in Doomed <=> \E d \in Drivers : u \in tick[d].exhausted \cup tick[d].release
  /\ \A u : u \in Doomed' <=> \E d \in Drivers : u \in tick'[d].exhausted \cup tick'[d].release
BY DEF Doomed

LEMMA DoomedKept ==
  ASSUME NEW d \in Drivers, \A e \in Drivers : e # d => tick'[e] = tick[e],
         tick'[d].exhausted \cup tick'[d].release = tick[d].exhausted \cup tick[d].release
  PROVE  Doomed' = Doomed
<1>1. \A e \in Drivers :
        tick'[e].exhausted \cup tick'[e].release = tick[e].exhausted \cup tick[e].release
  OBVIOUS
<1>2. \A u : u \in Doomed' <=> u \in Doomed
  BY <1>1, DoomedAre
<1> QED
  BY <1>2

LEMMA VouchedAre ==
  /\ \A u : u \in Vouched <=>
       \E d \in Drivers : tick[d].pc = "extracted" /\ \E r \in tick[d].stuck : r[1] = u /\ u[2] = "knowledge"
  /\ \A u : u \in Vouched' <=>
       \E d \in Drivers : tick'[d].pc = "extracted" /\ \E r \in tick'[d].stuck : r[1] = u /\ u[2] = "knowledge"
BY DEF Vouched, KnowledgeStuck

LEMMA VouchedKept ==
  ASSUME NEW d \in Drivers, \A e \in Drivers : e # d => tick'[e] = tick[e],
         tick[d].pc # "extracted", tick'[d].pc # "extracted"
  PROVE  Vouched' = Vouched
<1>1. \A u : u \in Vouched' <=> u \in Vouched
  BY VouchedAre
<1> QED
  BY <1>1

\* A tick is told only by an extraction that is complete.
LEMMA VouchedSteps ==
  ASSUME TypeOK, ShapeInv, WantedInv, SoundInv, [Next]_vars
  PROVE  Vouched' \subseteq Vouched \/ (Extracted /\ Vouched' \subseteq campaign.chapters \X {"knowledge"})
<1>1. CASE Extracted
  <2>1. ASSUME NEW u \in Vouched' PROVE u \in campaign.chapters \X {"knowledge"}
    <3>1. PICK d \in Drivers : \E r \in tick'[d].stuck : r[1] = u /\ u[2] = "knowledge"
      BY VouchedAre
    <3>2. u \in Wanted /\ u[2] = "knowledge"
      BY <3>1, StuckWanted
    <3> QED
      BY <3>2 DEF Wanted
  <2> QED
    BY <1>1, <2>1
<1>2. CASE ~Extracted
  <2>1. ASSUME NEW u \in Vouched' PROVE u \in Vouched
    <3>6. PICK d \in Drivers : tick'[d].pc = "extracted" /\ \E r \in tick'[d].stuck : r[1] = u /\ u[2] = "knowledge"
      BY VouchedAre
    <3>1. PICK r \in tick'[d].stuck : tick'[d].pc = "extracted" /\ r[1] = u /\ u[2] = "knowledge"
      BY <3>6
    <3>2. tick'[d] = tick[d] \/ FindStuck(d) \/ AskKnowledge(d) \/ Probe(d)
      BY <3>1, PlaceSteps DEF Reconciling
    <3>3. ~FindStuck(d)
      BY <3>1, FindStuckTurns DEF Turns, Is
    <3>4. ~AskKnowledge(d)
      BY <1>2, <3>1, AskTurns DEF Turns, Is, Extracted
    <3>5. tick[d].pc = "extracted" /\ r \in tick[d].stuck
      BY <3>1, <3>2, <3>3, <3>4, ProbeTurns DEF Turns, Is
    <3> QED
      BY <3>1, <3>5, VouchedAre
  <2> QED
    BY <2>1
<1> QED
  BY <1>1, <1>2

\* A step that moves no stage may still resolve to give some up, or be told
\* of a complete extraction.
Resting == UNCHANGED <<campaign, stage, attempts, finished, presumed, overlapped>>
LEMMA RestIsResolve == ASSUME PlanInv, [Next]_vars, Resting PROVE Plan!Next
<1>1. \A d \in Drivers : Held(tick'[d]) \subseteq Wanted'
  BY WantedNext DEF PlanInv, OneDriver, WantedInv, Held
<1>2. Doomed' \subseteq Wanted
  BY <1>1, DoomedAre, CampaignKept DEF Held, Wanted
<1>3. Vouched' \subseteq Vouched \/ (Extracted /\ Vouched' \subseteq campaign.chapters \X {"knowledge"})
  BY VouchedSteps DEF PlanInv, OneDriver
<1>4. Extracted' \in BOOLEAN
  BY DEF Extracted
<1>5. Plan!Resolve
  BY <1>2, <1>3, <1>4, SameNames DEF PlanNames, Plan!Resolve, Resting
<1> QED
  BY <1>5 DEF Plan!Next

LEMMA ClaimIsCrowd == ASSUME PlanInv, [Next]_vars, NEW d \in Drivers, Claim(d) PROVE Plan!Next
<1>1. /\ UNCHANGED <<campaign, stage, attempts, finished, presumed, extraction>>
      /\ tick[d].pc = "idle" /\ tick'[d].pc # "extracted"
  BY ClaimTurns DEF PlanInv, OneDriver, Turns, Is, Claim, Mid, rows, downstream
<1>2. CASE overlapped' = overlapped
  BY <1>1, <1>2, RestIsResolve DEF Resting
<1>3. CASE overlapped' # overlapped
  <2>1. overlapped' = TRUE
    <3>1. overlapped \in BOOLEAN /\ overlapped' \in BOOLEAN
      BY TypeNext DEF PlanInv, OneDriver, TypeOK
    <3>2. overlapped => overlapped'
      BY DEF Claim
    <3> QED
      BY <1>3, <3>1, <3>2
  <2>2. Held(tick[d]) = {} /\ Held(tick'[d]) = {} /\ \A e \in Drivers : e # d => tick'[e] = tick[e]
    BY <1>1, ClaimTurns DEF PlanInv, OneDriver, ShapeInv, Shape, Turns, Is, Held
  <2>3. Doomed' = Doomed
    BY <2>2, DoomedKept DEF Held
  <2>5. Vouched' = Vouched /\ Extracted' = Extracted
    BY <1>1, <2>2, VouchedKept DEF Extracted
  <2>4. Plan!Crowd
    BY <1>1, <2>1, <2>3, <2>5 DEF Plan!Crowd
  <2> QED
    BY <2>4 DEF Plan!Next
<1> QED
  BY <1>2, <1>3

LEMMA MarkCancelledIsLapse ==
  ASSUME PlanInv, NEW d \in Drivers, MarkCancelled(d) PROVE Plan!Next
<1>1. /\ UNCHANGED <<campaign, attempts, finished, presumed, extraction, overlapped>>
      /\ tick[d].pc = "propagated"
      /\ stage' = [u \in Units |-> IF u \in DispatchedUnits THEN "failed" ELSE stage[u]]
  BY DEF MarkCancelled, downstream, history, DispatchedUnits
<1>2. /\ Held(tick[d]) = {} /\ Held(tick'[d]) = {} /\ \A e \in Drivers : e # d => tick'[e] = tick[e]
      /\ tick'[d].pc = "finalize"
  BY <1>1, CancelTurns DEF PlanInv, OneDriver, ShapeInv, Shape, Turns, Is, Held
<1>3. Doomed' = Doomed /\ Vouched' = Vouched /\ Extracted' = Extracted
  BY <1>1, <1>2, DoomedKept, VouchedKept DEF Held, Extracted
<1>4. DispatchedUnits \in SUBSET Units /\ \A u \in DispatchedUnits : stage[u] = "dispatched"
  BY DEF DispatchedUnits
<1>5. Plan!Lapse(DispatchedUnits)
  BY <1>1, <1>3, <1>4, SameNames DEF PlanNames, Plan!Lapse
<1> QED
  BY <1>4, <1>5, SameNames DEF PlanNames, Plan!Next

\* The consumer or the stuck reconcile hears of a result.
LEMMA DoneIsFinish ==
  ASSUME PlanInv, [Next]_vars, NEW u \in Units, u \in finished, stage' = MarkedDone(u),
         UNCHANGED <<campaign, attempts, finished, presumed, extraction, overlapped>>, Doomed' = Doomed,
         Vouched' \subseteq Vouched
  PROVE  Plan!Next
<1>1. CASE Active
  <2>1. stage' = [stage EXCEPT ![u] = "done"]
    BY <1>1 DEF MarkedDone
  <2>2. Plan!Finish(u)
    BY <2>1 DEF Plan!Finish, Extracted
  <2> QED
    BY <2>2, SameNames DEF PlanNames, Plan!Next
<1>2. CASE ~Active
  <2>1. stage' = stage
    BY <1>2 DEF MarkedDone, PlanInv, OneDriver, TypeOK
  <2> QED
    BY <2>1, RestIsResolve DEF Resting
<1> QED
  BY <1>1, <1>2

\* The stuck reconcile takes the word of a complete extraction.
LEMMA WordIsPresumed ==
  ASSUME PlanInv, [Next]_vars, NEW u \in Units, u \in Vouched, u \notin finished, stage' = MarkedDone(u),
         presumed' = presumed \cup Presumed(u), overlapped \/ stage[u] \in {"dispatched", "done"},
         UNCHANGED <<campaign, attempts, finished, extraction, overlapped>>, Doomed' = Doomed,
         Vouched' \subseteq Vouched
  PROVE  Plan!Next
<1>1. CASE Active /\ (overlapped \/ stage[u] = "dispatched")
  <2>1. stage' = [stage EXCEPT ![u] = "done"] /\ presumed' = presumed \cup {u}
    BY <1>1 DEF MarkedDone, Presumed
  <2>2. Plan!Presume(u)
    BY <1>1, <2>1 DEF Plan!Presume, Extracted
  <2> QED
    BY <2>2, SameNames DEF PlanNames, Plan!Next
<1>2. CASE ~Active \/ stage[u] = "done"
  <2>1. stage' = stage
    BY <1>2 DEF MarkedDone, PlanInv, OneDriver, TypeOK
  <2>2. presumed' = presumed
    BY <1>2 DEF Presumed, PlanInv, SoundInv
  <2> QED
    BY <2>1, <2>2, RestIsResolve DEF Resting
<1> QED
  BY <1>1, <1>2

LEMMA ProbeIsPlanned == ASSUME PlanInv, [Next]_vars, NEW d \in Drivers, Probe(d) PROVE Plan!Next
<1>0. TypeOK /\ stage \in [Units -> StageStatus] /\ tick[d] \in Tick
  BY DEF PlanInv, OneDriver, TypeOK
<1>1. UNCHANGED <<campaign, attempts, finished, extraction, overlapped>>
  BY DEF Probe, downstream
<1>2. PICK r \in tick[d].stuck :
        \/ UNCHANGED <<stage, presumed>>
        \/ /\ Truth(d, r[1], r[2]) = "done"
           /\ stage' = MarkedDone(r[1]) /\ presumed' = presumed \cup Presumed(r[1])
        \/ stage' = ResetStuck(r[1]) /\ UNCHANGED presumed
  BY DEF Probe
<1>3. r[1] \in Wanted /\ r[1] \in Units
  BY <1>0, TickTypes DEF PlanInv, SoundInv
<1>4. Doomed' = Doomed
  BY <1>0, ProbeTurns, DoomedKept DEF Turns, Is
<1>8. Vouched' \subseteq Vouched
  <2>1. /\ \A e \in Drivers : e # d => tick'[e] = tick[e]
        /\ tick'[d].pc = tick[d].pc /\ tick'[d].stuck \subseteq tick[d].stuck
    BY <1>0, ProbeTurns DEF Turns, Is
  <2>2. \A u : u \in Vouched' => u \in Vouched
    BY <2>1, VouchedAre
  <2> QED
    BY <2>2
<1>5. CASE UNCHANGED <<stage, presumed>>
  BY <1>1, <1>5, RestIsResolve DEF Resting
<1>6. CASE /\ Truth(d, r[1], r[2]) = "done"
           /\ stage' = MarkedDone(r[1]) /\ presumed' = presumed \cup Presumed(r[1])
  <2>1. CASE r[1] \in finished
    <3>1. presumed' = presumed
      BY <1>6, <2>1 DEF Presumed
    <3> QED
      BY <1>1, <1>3, <1>4, <1>6, <1>8, <2>1, <3>1, DoneIsFinish
  <2>2. CASE r[1] \notin finished
    <3>1. r[1][2] = "knowledge" /\ tick[d].pc = "extracted"
      BY <1>6, <2>2 DEF Truth
    <3>2. r[1] \in Vouched
      BY <3>1, VouchedAre
    <3>3. overlapped \/ stage[r[1]] \in {"dispatched", "done"}
      BY <3>1 DEF PlanInv, AskedInv, KnowledgeStuck
    <3> QED
      BY <1>1, <1>3, <1>4, <1>6, <1>8, <2>2, <3>2, <3>3, WordIsPresumed
  <2> QED
    BY <2>1, <2>2
<1>7. CASE stage' = ResetStuck(r[1]) /\ UNCHANGED presumed
  <2>1. CASE stage[r[1]] = "dispatched"
    <3>1. stage' = [u \in Units |-> IF u \in {r[1]} THEN "failed" ELSE stage[u]]
      BY <1>0, <1>3, <1>7, <2>1 DEF ResetStuck
    <3>2. Plan!Lapse({r[1]})
      BY <1>1, <1>4, <1>7, <1>8, <2>1, <3>1, SameNames DEF PlanNames, Plan!Lapse, Extracted
    <3> QED
      BY <1>3, <3>2, SameNames DEF PlanNames, Plan!Next
  <2>2. CASE stage[r[1]] # "dispatched"
    <3>1. stage' = stage
      BY <1>0, <1>3, <1>7, <2>2 DEF ResetStuck
    <3> QED
      BY <1>1, <1>7, <3>1, RestIsResolve DEF Resting
  <2> QED
    BY <2>1, <2>2
<1> QED
  BY <1>2, <1>5, <1>6, <1>7

LEMMA FailIsGiveUp ==
  ASSUME PlanInv, NEW d \in Drivers, MarkExhausted(d) \/ Release(d) PROVE Plan!Next
<1>0. TypeOK /\ tick[d] \in Tick
  BY DEF PlanInv, OneDriver, TypeOK
<1>1. UNCHANGED <<campaign, attempts, finished, presumed, extraction, overlapped>> /\ tick[d].pc = "work"
  BY DEF MarkExhausted, Release, downstream, history
<1>2. PICK u \in tick[d].exhausted \cup tick[d].release :
        /\ stage' = [stage EXCEPT ![u] = "failed"]
        /\ \A e \in Drivers : e # d => tick'[e] = tick[e]
        /\ tick'[d].exhausted \subseteq tick[d].exhausted /\ tick'[d].release \subseteq tick[d].release
        /\ tick'[d].pc # "extracted"
  BY <1>0, <1>1, ExhaustedTurns, ReleaseTurns DEF Ends, Turns, Is
<1>3. u \in Units /\ u \in Doomed
  BY <1>0, <1>2, TickTypes, DoomedAre
<1>4. Doomed' \subseteq Doomed
  <2>1. \A e \in Drivers : tick'[e].exhausted \cup tick'[e].release \subseteq tick[e].exhausted \cup tick[e].release
    BY <1>2
  <2> QED
    BY <2>1, DoomedAre
<1>6. Vouched' = Vouched /\ Extracted' = Extracted
  BY <1>1, <1>2, VouchedKept DEF Extracted
<1>5. Plan!GiveUp(u)
  BY <1>1, <1>2, <1>3, <1>4, <1>6 DEF Plan!GiveUp
<1> QED
  BY <1>3, <1>5, SameNames DEF PlanNames, Plan!Next

\* What gating decided on loaded rows still holds when it is marked.
LEMMA DispatchIsAllowed ==
  ASSUME PlanInv, NEW d \in Drivers, tick[d].pc = "work", NEW u \in tick[d].todo, Dispatchable(u)
  PROVE  u \in Units /\ u \in Wanted /\ Plan!Grounded(u) /\ (overlapped \/ Plan!WithinLimits(u))
<1>0. /\ TypeOK /\ ShapeInv /\ OneMid /\ u \in Units /\ u[1] \in Chapters /\ u[2] \in Stages
      /\ u = <<u[1], u[2]>>
  <2>1. tick[d] \in Tick
    BY DEF PlanInv, OneDriver, TypeOK
  <2> QED
    BY <2>1, TickTypes, UnitFields DEF PlanInv, OneDriver
<1>1. u \in Wanted /\ u \in Held(tick[d])
  BY DEF PlanInv, WantedInv, Held
<1>2. u[2] = "translation" => u = Translation(u[1])
  BY <1>0 DEF Translation
<1>3. u[2] = "knowledge" => u = Knowledge(u[1])
  BY <1>0 DEF Knowledge
<1>4. Plan!Grounded(u)
  BY <1>0, <1>1, <1>2 DEF PlanInv, GroundInv, Translated, Knowledge, Plan!Grounded
<1>5. ASSUME ~overlapped PROVE Plan!WithinLimits(u)
  <2>1. attempts[u] < campaign.cap
    BY <1>0, <1>5 DEF PlanInv, RetryInv
  <2>2. Cardinality(Inflight \cup {u[1]}) <= campaign.window
    <3>1. Cardinality(Inflight \cup ChaptersOf(tick[d].todo)) <= campaign.window
      BY <1>5 DEF PlanInv, RoomInv
    <3>2. Inflight \cup {u[1]} \in SUBSET (Inflight \cup ChaptersOf(tick[d].todo))
      BY DEF ChaptersOf
    <3>3. Inflight \cup ChaptersOf(tick[d].todo) \in SUBSET Chapters
      <4>1. tick[d].todo \in SUBSET Units
        BY <1>0, TickTypes DEF TypeOK
      <4> QED
        BY <4>1, UnitsFinite, Places DEF Inflight
    <3>4. campaign.window \in Nat
      BY <1>0 DEF TypeOK
    <3> QED
      BY <3>1, <3>2, <3>3, <3>4, RowsFinite
  <2>3. u[2] = "translation" /\ "knowledge" \in campaign.stages =>
          /\ stage[<<u[1], "knowledge">>] = "done"
          /\ campaign.barrier => \A c \in Chapters : stage[<<c, "knowledge">>] # "dispatched"
    <3> SUFFICES ASSUME u[2] = "translation", "knowledge" \in campaign.stages
                 PROVE  /\ stage[Knowledge(u[1])] = "done"
                        /\ campaign.barrier => \A c \in Chapters : stage[Knowledge(c)] # "dispatched"
      BY DEF Knowledge
    <3>1. Knowledge(u[1]) \in Wanted
      BY <1>0, <1>1 DEF Wanted, Knowledge
    <3>2. stage[Knowledge(u[1])] = "done"
      BY <1>0, <1>2, <1>5, <3>1 DEF PlanInv, StageInv
    <3>3. campaign.barrier => \A c \in Chapters : stage[Knowledge(c)] # "dispatched"
      BY <1>0, <1>2, <1>5 DEF PlanInv, BarrierInv
    <3> QED
      BY <3>2, <3>3
  <2>4. ASSUME u[1] \in Inflight PROVE FALSE
    <3>1. PICK s \in Stages : stage[<<u[1], s>>] = "dispatched"
      BY <2>4 DEF Inflight
    <3>2. stage[Knowledge(u[1])] = "dispatched" \/ stage[Translation(u[1])] = "dispatched"
      BY <3>1 DEF Stages, Knowledge, Translation
    <3>3. stage[u] # "dispatched"
      BY DEF Dispatchable
    <3>4. CASE u[2] = "translation"
      <4>1. stage[Knowledge(u[1])] = "dispatched"
        BY <1>2, <3>2, <3>3, <3>4
      <4>2. Knowledge(u[1]) \in Wanted
        BY <1>0, <4>1, ChapterUnits DEF PlanInv, WantedInv
      <4> QED
        BY <1>0, <1>2, <1>5, <3>4, <4>1, <4>2 DEF PlanInv, StageInv
    <3>5. CASE u[2] = "knowledge"
      <4>1. stage[Translation(u[1])] = "dispatched"
        BY <1>3, <3>2, <3>3, <3>5
      <4> QED
        BY <1>0, <1>1, <1>3, <1>5, <3>5, <4>1 DEF PlanInv, StageInv
    <3> QED
      BY <1>0, <3>4, <3>5 DEF Stages
  <2> QED
    BY <2>1, <2>2, <2>3, <2>4, SameNames, SameSize DEF PlanNames, Plan!WithinLimits
<1> QED
  BY <1>0, <1>1, <1>4, <1>5

LEMMA MarkIsDispatch ==
  ASSUME PlanInv, [Next]_vars, NEW d \in Drivers, MarkDispatched(d) PROVE Plan!Next
<1>0. TypeOK
  BY DEF PlanInv, OneDriver
<1>1. UNCHANGED <<campaign, finished, presumed, extraction, overlapped>> /\ tick[d].pc = "work"
  BY DEF MarkDispatched, downstream, history
<1>2. PICK u \in tick[d].todo : Marks(d, u)
  BY <1>0, MarkTurns
<1>3. CASE Dispatchable(u)
  <2>1. u \in Units /\ u \in Wanted /\ Plan!Grounded(u) /\ (overlapped \/ Plan!WithinLimits(u))
    BY <1>1, <1>3, DispatchIsAllowed
  <2>2. Doomed' = Doomed /\ Vouched' = Vouched /\ Extracted' = Extracted
    <3>1. /\ \A e \in Drivers : e # d => tick'[e] = tick[e]
          /\ tick'[d].exhausted = tick[d].exhausted /\ tick'[d].release = tick[d].release
          /\ tick'[d].pc = "work"
      BY <1>1, <1>2 DEF Marks, Turns, Is
    <3> QED
      BY <1>1, <3>1, DoomedKept, VouchedKept DEF Extracted
  <2>3. /\ stage[u] \in {"pending", "failed"} /\ stage' = [stage EXCEPT ![u] = "dispatched"]
        /\ attempts' = [attempts EXCEPT ![u] = attempts[u] + 1]
    BY <1>2, <1>3 DEF Marks, Dispatchable
  <2>4. Plan!Dispatch(u)
    BY <1>1, <2>1, <2>2, <2>3, SameNames DEF PlanNames, Plan!Dispatch
  <2> QED
    BY <2>1, <2>4, SameNames DEF PlanNames, Plan!Next
<1>4. CASE ~Dispatchable(u)
  BY <1>1, <1>2, <1>4, RestIsResolve DEF Marks, Resting
<1> QED
  BY <1>3, <1>4

LEMMA ResultIsProduced ==
  ASSUME PlanInv, \/ \E c \in Chapters : Extract(c)
                  \/ \E j \in Jobs, c \in Chapters : Translate(j, c)
  PROVE  Plan!Next
<1>1. UNCHANGED <<campaign, stage, attempts, tick, extraction, overlapped>>
  BY DEF Extract, Translate, rows, history
<1>2. Doomed' = Doomed /\ Vouched' = Vouched /\ Extracted' = Extracted
  BY <1>1 DEF Doomed, Vouched, KnowledgeStuck, Extracted
<1>3. ASSUME NEW c \in Chapters, Extract(c) PROVE Plan!Next
  <2>1. /\ Knowledge(c) \in Wanted /\ finished' = finished \cup {Knowledge(c)}
        /\ presumed' = presumed \ {Knowledge(c)}
    BY <1>3 DEF Extract, Knowledge
  <2>2. Plan!Produce(Knowledge(c))
    BY <1>1, <1>2, <2>1, ChapterUnits, SameNames DEF PlanNames, Plan!Produce, Plan!Grounded
  <2> QED
    BY <2>2, ChapterUnits, SameNames DEF PlanNames, Plan!Next
<1>4. ASSUME NEW j \in Jobs, NEW c \in Chapters, Translate(j, c) PROVE Plan!Next
  <2>1. c \in jobs[j].chapters /\ finished' = finished \cup {Translation(c)} /\ presumed' = presumed
    BY <1>4 DEF Translate, Translation, history
  <2>2. Translation(c) \in Wanted
    BY <2>1 DEF PlanInv, SoundInv
  <2>3. "knowledge" \in campaign.stages => Knowledge(c) \in finished \cup presumed
    BY <2>1 DEF PlanInv, GroundInv, Translated
  <2>4. presumed' = presumed \ {Translation(c)}
    BY <2>1, ChapterUnits DEF PlanInv, SoundInv
  <2>5. Plan!Produce(Translation(c))
    BY <1>1, <1>2, <2>1, <2>2, <2>3, <2>4, ChapterUnits, SameNames
       DEF PlanNames, Plan!Produce, Plan!Grounded, Knowledge
  <2> QED
    BY <2>5, ChapterUnits, SameNames DEF PlanNames, Plan!Next
<1> QED
  BY <1>3, <1>4

LEMMA RerunIsRearm ==
  ASSUME PlanInv, NEW c \in Calls, NEW C \in SUBSET Chapters, ResetFailed(c, C) PROVE Plan!Next
<1> DEFINE U == {u \in Units : u[1] \in C /\ stage[u] = "failed"}
<1>1. /\ UNCHANGED <<campaign, finished, tick, presumed, extraction, overlapped>>
      /\ stage' = [u \in Units |-> IF u \in U THEN "pending" ELSE stage[u]]
      /\ attempts' = [u \in Units |-> IF u \in U THEN 0 ELSE attempts[u]]
  BY DEF ResetFailed, downstream, history
<1>2. Doomed' = Doomed /\ Vouched' = Vouched /\ Extracted' = Extracted
  BY <1>1 DEF Doomed, Vouched, KnowledgeStuck, Extracted
<1>3. U \in SUBSET Units /\ \A u \in U : stage[u] = "failed"
  OBVIOUS
<1> HIDE DEF U
<1>4. Plan!Rearm(U)
  BY <1>1, <1>2, <1>3, SameNames DEF PlanNames, Plan!Rearm
<1> QED
  BY <1>3, <1>4, SameNames DEF PlanNames, Plan!Next

LEMMA PlanInit == Init => Plan!Init
<1> SUFFICES ASSUME Init PROVE Plan!Init
  OBVIOUS
<1>1. campaign \in [chapters: SUBSET Chapters, stages: SUBSET Stages, barrier: BOOLEAN,
                    cap: Nat \ {0}, window: Nat \ {0}]
  BY TypeInit DEF TypeOK
<1>2. Doomed = {}
  <2>1. \A d \in Drivers : tick[d].exhausted \cup tick[d].release = {}
    BY IdleIs DEF Init, Is
  <2> QED
    BY <2>1, DoomedAre
<1>3. Vouched = {} /\ Extracted \in BOOLEAN
  <2>1. \A d \in Drivers : tick[d].stuck = {}
    BY IdleIs DEF Init, Is
  <2>2. Vouched = {}
    BY <2>1, VouchedAre
  <2> QED
    BY <2>2 DEF Extracted
<1> QED
  BY <1>1, <1>2, <1>3, SameNames DEF Init, PlanNames, Plan!Init

LEMMA PlanNext == PlanInv /\ [Next]_vars => [Plan!Next]_Plan!vars
<1> SUFFICES ASSUME PlanInv, [Next]_vars PROVE Plan!Next \/ UNCHANGED Plan!vars
  OBVIOUS
<1>1. ASSUME NEW d \in Drivers,
             \/ PropagateCancel(d) \/ FinalizeCancel(d) \/ FindStuck(d) \/ AskKnowledge(d) \/ Load(d) \/ FinishCampaign(d)
             \/ Count(d) \/ CallKnowledge(d) \/ CallTranslation(d) \/ SetJobId(d) \/ Crash(d)
      PROVE  Resting
  BY <1>1 DEF PropagateCancel, FinalizeCancel, FindStuck, FindStuckAmong, AskKnowledge, Load, FinishCampaign, Count,
       CallKnowledge, CallTranslation, SetJobId, Crash, rows, downstream, history, Resting
<1>2. ASSUME NEW d \in Drivers, Claim(d) \/ TickStep(d) \/ Crash(d) PROVE Plan!Next
  BY <1>1, <1>2, RestIsResolve, ClaimIsCrowd, MarkCancelledIsLapse, ProbeIsPlanned, FailIsGiveUp,
     MarkIsDispatch DEF TickStep
<1>3. ASSUME NEW u \in Units, Absorb(u) PROVE Plan!Next
  <2>1. /\ u \in finished /\ stage' = MarkedDone(u)
        /\ UNCHANGED <<campaign, attempts, finished, tick, presumed, extraction, overlapped>>
    BY <1>3 DEF Absorb, downstream, history
  <2>2. Doomed' = Doomed /\ Vouched' = Vouched
    BY <2>1 DEF Doomed, Vouched, KnowledgeStuck
  <2> QED
    BY <2>1, <2>2, DoneIsFinish
<1>4. Outside =>
        \/ \E c \in Chapters : Extract(c)
        \/ \E j \in Jobs, c \in Chapters : Translate(j, c)
        \/ \E u \in Units : Absorb(u)
        \/ \E c \in Calls : \E C \in SUBSET Chapters : ResetFailed(c, C)
        \/ Resting
  BY DEF Outside, vars, rows, downstream, history, Resting, LeaseExpires, ExtractionEnds, OtherExtraction, JobEnds, JobPaused,
         JobResumed, JobBecomes, CircuitOpen, SpendCapReached, CallRoute, SetStatus
<1> QED
  BY <1>2, <1>3, <1>4, Sides, RestIsResolve, ResultIsProduced, RerunIsRearm

LEMMA PlanInvInit == Init => RetryInv /\ WantedInv /\ StageInv /\ RoomInv /\ SoundInv /\ GroundInv /\ BarrierInv /\ AskedInv
<1> SUFFICES ASSUME Init PROVE WantedInv /\ StageInv /\ RoomInv /\ SoundInv /\ GroundInv /\ BarrierInv /\ AskedInv
  BY RetryInit
<1>1. /\ \A u \in Units : stage[u] = "pending"
      /\ \A d \in Drivers : Held(tick[d]) = {} /\ tick[d].todo = {} /\ tick[d].stuck = {}
      /\ \A d \in Drivers : tick[d].pc = "idle"
      /\ \A j \in Jobs : jobs[j].chapters = {}
      /\ finished = {} /\ presumed = {}
  BY IdleIs DEF Init, Is, Held, Ended
<1>2. Inflight = {} /\ campaign.window \in Nat \ {0}
  BY <1>1, TypeInit DEF Inflight, Units, TypeOK
<1>3. RoomInv
  BY <1>1, <1>2, FS_EmptySet DEF RoomInv
<1>4. WantedInv /\ StageInv
  BY <1>1, ChapterUnits DEF WantedInv, StageInv
<1>5. SoundInv /\ GroundInv /\ BarrierInv /\ AskedInv
  BY <1>1, ChapterUnits DEF SoundInv, GroundInv, Translated, BarrierInv, AskedInv, KnowledgeStuck
<1> QED
  BY <1>3, <1>4, <1>5

\* The saga, with its leases, ticks, claim-first marks, consumers and routes,
\* dispatches, finishes and gives up stages as the plan of a campaign allows.
THEOREM ImplementsPlan == Spec => FollowsPlan
<1>1. OneDriver /\ RetryInv /\ WantedInv /\ StageInv /\ RoomInv /\ SoundInv /\ GroundInv /\ BarrierInv
      /\ AskedInv <=> PlanInv
  BY DEF PlanInv
<1>2. PlanInv /\ [Next]_vars =>
        RetryInv' /\ WantedInv' /\ StageInv' /\ RoomInv' /\ SoundInv' /\ GroundInv' /\ BarrierInv' /\ AskedInv'
  BY RetryNext, WantedNext, StageNext, RoomNext, SoundNext, GroundNext, BarrierNext, AskedNext
     DEF PlanInv, OneDriver
<1>3. Spec => []PlanInv
  BY <1>1, <1>2, PlanInvInit, OneDriverAlways, PTL DEF Spec
<1> QED
  BY <1>3, PlanInit, PlanNext, PTL DEF Spec, FollowsPlan, Plan!Spec
=============================================================================
