# LoreWeave: specifications

TLA+ models of the parts of LoreWeave in which several services, replicas,
clocks and failures act on shared state. TLC checks them on small instances;
TLAPS proves the most important properties of each of them for every value of the
constants. All paths below are relative to the repository.

## The system

LoreWeave is a set of services around books, worlds and language models: Go and
Python services with a database each, gateways in TypeScript, a game platform in
Rust, and Redis streams, RabbitMQ and HTTP calls between them. Every paid model
call takes the same path, and most of what is hard to test lies on it:

```
caller -> provider-registry-service --reserve/reconcile/release--> usage-billing-service
             |  llm_jobs, outboxes                                   (spend guardrail)
             |  RabbitMQ llm.jobs  <-> worker goroutines                  ^
             |  usage relay                                               |
             +--> Redis events:usage ----------> usage_consumer (audit rows, key spend)
             +--> Redis events:campaign_usage -> campaign-service spend_consumer (money cap)
```

### Inventory

| Component | State | Operations | What is hard | What makes it correct |
|---|---|---|---|---|
| Spend guardrail (usage-billing `guardrail.go`, `sweeper.go`) | `spend_guardrails`, `platform_balances`, `token_reservations` | reserve, reconcile, release, sweep, limits PATCH | repeated and late calls, the sweep against a late reconcile, lazily reset calendar windows, counters kept beside the rows they sum | counters agree with the rows; overspend is only what no hold covered; one hold and one charge for a job |
| LLM jobs (provider-registry `jobs_handler.go`, `queue.go`, `worker.go`, `repo.go`) | `llm_jobs`, `usage_outbox`, `job_event_outbox`, the broker's messages, goroutines and their cancel registry | submit, deliver, claim, finalize, settle, DELETE, stuck sweep | three actors race for the terminal transition; redelivery; crashes at any step; two clocks (job timeout, hold TTL) | one execution, one end, one event, agreeing audit and settlement; accepted jobs end |
| Usage stream (`usage_relay.go`, `usage_consumer.go`, `spend_consumer.py`) | `usage_outbox`, Redis streams, groups, pending lists, dedup tables | drain, purge, read, write, ack, drain pending | Postgres and Redis commit apart; shared and changing consumer names; trimming | each service counts a row once, and loses one only to trimming |
| Campaign saga (campaign-service `saga/`, `repositories.py`, `events/`, `routers/campaigns.py`) | `campaigns` with a lease, `campaign_chapters`, the rows a tick has loaded | claim, gate, dispatch, stamp, release, reconcile stuck rows, propagate a cancel; completion, circuit and spend events; start, rerun, pause, cancel | every statement of a tick is a transaction of its own, with calls to other services between them; stale rows; lost answers; leases outlasted; completions of any age | retries and rows in flight bounded; a chapter paid for once; a cancel cleans up; done stays done |
| Job projection (jobs-service, `loreweave_jobs`, the owner's `generation_jobs.py`) | `job_projection`, the sweep's watermark; `generation_job`, `outbox_events` | owner's writes, relay, project, retry and park, sweep, absence pass, mark lost | events out of order, repeated or lost; stamps taken at the begin of a transaction; pages | the mirror never goes back, a sweep passes nothing unseen, owner and mirror agree in the end |
| Outbox relay (worker-infra), publisher, meta-outbox-relay | the services' outboxes | drain, publish, clean up | at-least-once, ordering per aggregate | planned |
| Governor and breaker (provider-registry `ratelimit/`), `contracts/resilience` | windows, half-open probes, semaphores | admit, report | concurrent probes, permits at the limit | planned |
| Streamed billing (`stream_billing.go`) | reservation of a stream | open, cancel, settle | client disconnect against settlement | planned |
| `contracts/meta` | meta rows and their audit | compare-and-swap transitions | concurrent transitions | planned |
| Everything else | CRUD of one database, rendering, prompt assembly, operator tools, simulation | | | not modelled; PROJECT.json lists each part with the reason |

PROJECT.json also lists the hazards, each at its line, with the properties that
would catch it going wrong.

## Modules

| Module | Role |
|---|---|
| `SpendAccount` | what the guardrail promises an owner, an abstract specification |
| `SpendGuardrail` | the ledgers of usage-billing, which implement `SpendAccount`; `MCSpendGuardrail` instantiates it |
| `SpendGuardrail_proofs`, `GuardrailLedger_proofs` | the theorems about it: budgets and settlements; the counters as sums, and the refinement |
| `JobLifecycle` | what provider-registry promises of one job, an abstract specification |
| `LlmJob` | the life of a job on several replicas, which implements `JobLifecycle` for each job; `MCLlmJob` instantiates it |
| `LlmJob_proofs`, `LlmJobFaults_proofs` | the theorems about it: the race for the end and the refinement, and what holds under which faults |
| `UsageDelivery` | what the usage stream promises, an abstract specification |
| `UsageRelay` | outbox, relay, streams and readers, which implement `UsageDelivery`; `MCUsageRelay` instantiates it |
| `UsageRelay_proofs` | the theorems about it, with the refinement |
| `CampaignPlan` | what a campaign promises of the stages of its chapters, an abstract specification |
| `CampaignSaga` | a campaign, its drivers, consumers and routes, which implement `CampaignPlan`; `MCCampaignSaga` instantiates it |
| `CampaignSaga_proofs` | the theorems about it, with the refinement |
| `MirroredJob` | what the job projection promises of one job, an abstract specification |
| `JobMirror` | the mirror of an owner's jobs, which implements `MirroredJob` for each job; `MCJobMirror` instantiates it |
| `JobMirror_proofs` | the theorems about it, with the refinement |

Each of the five components thus has an abstract specification, which states the
promise without the machinery, and a refinement that TLC checks in the
component's runs and TLAPS proves for all constants.

An operator named `X_Something` with the comment "Mutant" stands beside `X` and
is used by nothing. It is `X` with a plausible bug; with it in place of `X`, the
property that PROJECT.json pairs with it fails, so the property depends on that
code.

### SpendAccount and SpendGuardrail

Each handler is one Postgres transaction under the owner's row lock, hence one
action. Reserve is two, `ReserveBegin` and `ReserveAccept` or `ReserveRollback`,
because the idempotency read (guardrail.go:153-158) comes before the lock; only
the partial unique index then keeps two calls of one job apart. The row updates
are operators named for the SQL they translate (`RolledOver` for the calendar
reset, `SpendRecorded`, `PlatformRecorded`). Money is a natural number of
NUMERIC(16,8) quanta. Time is the UTC date and month, and a flag on each
reservation for a passed `expires_at`. `charge`, `excess` and `ceiling` are
history: what each reservation was charged and when, the spend no hold covered,
the highest limits an owner ever had.

- `ReservedMatchesHolds`, `WindowsMatchCharges`, `CreditsPayTheOverflow`: the
  counters, updated in place by four handlers that each reset stale windows on
  their own, equal what the rows and the history add up to.
- `OverspendExplained`: of a day or a month, spend plus holds pass the highest limit
  only by spend that no hold covered (a cost above its estimate, or the late
  reconcile of a swept hold).
- `KeepsAccount`: the refinement, below.
- `OneHoldPerJob`, `ChargedOnce`, `KeyHoldsWithinCap`, `HoldsEnd`.

`SpendAccount` is the guardrail as an owner sees it. Its day and month start from
nothing the moment the calendar turns; it has no counters of holds, which are sums
of the open ones, no calls in flight and no TTL. A hold is admitted in one step with
the check that it fits the day, the month, the free tier with the credits, and the
key's cap; an open or swept hold is charged at most once, an open one given back, a
settled one final. `Account` maps to it: the limits are those of the owner's row,
the spend is what a read shows today (`TodayShown`, `MonthShown`: zero
for a window of an earlier date), the free tier and credits what the platform row
amounts to this month, the holds are the reservation rows, and what a key was billed is the
sum of its usage rows of this month. The first read of an owner, a rollback and a
passed TTL change nothing of it.

### JobLifecycle and LlmJob

An action is a step of a handler or a goroutine between two points at which
another actor can see or change something: a statement, a transaction, a publish,
an HTTP call. A step whose success the caller may fail to learn has a parameter
(`confirmed`, `arrives`, `written`). `runner[p][j]` is the worker goroutine of
replica `p` with its context (`live`), which only that replica's registry can
cancel. A crash drops a replica's goroutines and handlers and returns its unacked
messages to the queue; a lost broker connection does the latter only, and is
never dialled again, which is what the code does. A tick is 15 minutes (TTL 3, job
timeout 2, stuck sweep 2, from the defaults of 45, 30 and 30 minutes); steps that
take seconds finish within one. The wait for a credential's semaphore is a
`delivered` runner that stays so for any number of ticks.

- `EventsMatchStatus`, `AuditRowsAgree`, `LivesOnce`: whoever of worker, DELETE
  and stuck sweep wins, on whichever replica, there is one end, one event, and at
  most one audit row, and they agree.
- `OneExecution`: the provider is called once for a job, in spite of redelivery
  and of the direct fallback after a publish that did arrive.
- `SettlementMatchesOutcome`, `CancelAborts`, `HoldOutlastsDirectRun`.
- `AcceptedIsBacked`, `EveryCallAudited`, `AcceptedEnds`: with a working database
  and broker, a job answered with 202 ends and is audited.

`JobLifecycle` is one job without replicas, queue, retries and sweepers: held,
created, begun and ended once, in that order; the step that ends it writes its one
event and its audit row (the stuck sweep, none); the hold lapses at any time, is
charged only after completion and given back only after another end. `Life(j)` maps the row's
status, the claims, the events, the usage rows and the hold of job `j` to it, and
`LivesOnce` is the refinement for every job.

### UsageDelivery and UsageRelay

`UsageDelivery` has three variables: rows emitted, how often each copy was
counted, and copies lost. A copy is counted at most once and never after it was
lost. `UsageRelay` maps to it: a copy is lost when neither the outbox, nor the
stream and the pending list, nor a reader's batch holds it (`Delivery`).
`DeliversOnce` is the refinement, `Delivers` its liveness. `LostOnlyByTrimming`
says which losses there are, `AckedIsCounted` and `DoublesNeedAborts` what the two
sides contribute. The relay's transaction is one action per statement that leaves
Postgres (`SendUsage`, `SendCampaign`); `Abort` rolls back and leaves Redis as it
is. Redis is modelled from its use: a stream is all its entries with a trimmed
prefix, MAXLEN ~ may cut anything but the newest `MaxLen` entries, a trimmed
entry that is still pending is read back without fields, and both readers then
ack it as malformed. The groups exist from the start. Every row the outbox admits satisfies the
constraints of `usage_logs` as migrate.go leaves them, so a permanent failure is
such an empty entry.

### CampaignPlan and CampaignSaga

A tick (`process_campaign`) is not one transaction: each statement commits alone
and calls to knowledge- and translation-service lie between them, so each is an
action, and `tick[d]` is what driver `d` has read and will still use: `stuck` from
`find_stuck_dispatched`, `exhausted` and `todo` from the gating over the loaded
rows, `batch` between its claim-first marks, the call and the stamp of the job's
id, `release` for `mark_stage_failed`. A second driver may claim the campaign only
when the lease has run out, which a tick longer than the lease (`slow`) brings
about; `overlapped` remembers that a claim fell in the middle of a tick.

A user's route reads the status, decides, and writes later
(`set_campaign_status` has no guard); `calls` holds it in between. Downstream is
what the clients see of it: the last extraction of the project, translation jobs with the
chapters they have still to do, `finished` for the results there are, from which a
completion event may come at any time, any number of times or never. An extraction
may be anybody's (`OtherExtraction`, and with "other_jobs" one may be there from
before the campaign), and completes with chapters skipped: those whose text is not
available or whose retries ran out leave no result, and `_complete_job` of worker-ai
says so in a message alone. Of knowledge that is stuck a tick
asks once (`AskKnowledge`), gets an answer for the whole project, and holds it over the
writes that follow; `presumed` remembers the rows that were marked done on a complete
extraction without a result, until there is one. A job whose id
was lost in an answer or a crash, that a cancel did not reach, or that its user
paused is `loose`: no driver is bound to see it end. Amounts are abstracted: the
event that reaches the budget is `SpendCapReached` at any time. Chapters have a
knowledge project, and the models and budget do not change (PATCH).

- `AttemptsBounded`, `InflightBounded`, `OneStageInFlight`: what the gating decided
  on loaded rows still holds when it is carried out, in spite of consumers, routes
  and the driver's own reconcile in between; with an outlasted lease, each further
  driver may add one attempt.
- `OneJobPerChapter`: no chapter is in two live jobs, unless one of them is loose.
- `CancelLeavesNothing`: when a driver writes `cancelled`, no row is in flight and
  no job it could have reached is at work.
- `FollowsPlan`: the refinement to `CampaignPlan`.

In `CampaignPlan` deciding and dispatching are one step, and it is that step that
must be allowed: the stage is waiting, its attempts are below the cap, the window has
room, no other stage of the chapter is in flight, a translation has its knowledge
done and, behind a barrier, no extraction beside it. A stage is done only by a result or,
if it is knowledge still dispatched, on the word of an extraction that a tick found
complete (`Presume`); it leaves `done` only if a tick had resolved before to give it up (`mark_stage_failed`
does not look at the row). When two drivers overlap (`crowded`) the limits may be passed,
but still no chapter is translated before its knowledge exists or was so presumed. `Plan` maps the
campaign, stages, attempts and `presumed` as they are, `finished` to the results, a
complete extraction to `extracted`, the rows a tick holds to mark done on its word to
`vouched`, what the ticks hold to mark failed to `doomed`, and `overlapped` to `crowded`; leases, loaded rows, batches,
jobs, calls and events are gone.

### MirroredJob and JobMirror

One owner, composition-service, and jobs-service. A write of the owner is a
transaction: `Begin` takes its stamp (`now()` is the time of the begin), `Commit`
applies the statement with the guard it has, and puts the event, stamped by the
process, in the outbox. `run_job` reads the status (`Read`), writes `running`, works,
and writes its end without looking again. Reapers write rows and emit nothing.
Events are a set, since a failed XADD, redelivery and retries let them arrive in
any order; they can be published again, trimmed, handled without an ack, and parked
after `MaxRetries` failures. The sweep is an action per await: start (`sweep_start`
is taken first), the answer with its page, each upsert, the new watermark. The
absence pass, when it is enabled, follows: list, ask, mark, each on its own; it asks
about the `AbsenceBatch` rows that are oldest. The watermark lives in the process: a new
one starts `reconcile_lookback_s` before its own start, wherever the old one had got to.
How long an outage lasts and how far behind the sweeps are is open, so at first and
after a restart the watermark is any stamp so far, behind the old one or ahead of
it; `skipped` is history, the rows as they stood that such a start left behind unswept.
`Accepts` is the WHERE of the upsert. `late` is history: jobs whose last write committed with a
stamp that a fetch had gone past, or that is older than what it replaced.

- `ProjectedIsKept`: the mirror is never behind an event it has taken, however
  events, sweeps and marks are mixed.
- `SweptIsKept`: whatever is behind the watermark is in the mirror, but for late
  writes and for what a restarted sweeper started beyond (`skipped`).
- `MirrorsOwner`: the refinement to `MirroredJob`, for every job.
- `Converges`: in the end the mirror shows what the owner has, with two exceptions: a
  write that is late or was skipped and whose event was lost or never emitted
  (`Missed`), and a job that is gone behind a batch of older live rows that are not
  (`Starved`). TLC finds a violation when any part of them is dropped.

`MirroredJob` has the owner's row (`truth`), what may still arrive of what was said
of it (`said`), and the row of the projection (`shown`). What is shown is always something
that was said and may still arrive, moves only onward (an end yields to nothing but
a later end), and a job is given up for lost only once its row is gone. `Mirroring(j)` maps
the clock, the row, the events that are neither trimmed nor parked together with the
rows a sweep has in hand (`Said`), and the mirrored row to it.

## Runs

| Run | Instance | Shows |
|---|---|---|
| `guardrail` | one owner, a platform and a user job, 2 reservations, 3 days with any month change, one lower limit | every order of calls, sweeps and resets keeps the ledgers right, and an account of them |
| `guardrail_keys` | two jobs of one public key, 2 concurrent calls, zero and positive estimates | one hold, one charge, the key's cap, and every hold ends |
| `job` | one job, 2 replicas, every fault, one crash | the race for the end, redelivery, lost answers; every job lives one life |
| `job_durable` | one job, 2 replicas, 2 crashes, lost billing calls, the wallclock ceiling | accepted jobs end and are audited |
| `job_queue_wait`, `job_strand` | one replica | disagreements with a comment, below |
| `campaign` | 2 drivers, 2 chapters, 3 translation jobs; campaigns of one chapter under a crash, a lost answer, a long tick, a paused job or extractions of others, and of two chapters that compete for one place, with and without a barrier | retries, places, payments and cancels, between any two statements; what is done is what the plan allows |
| `campaign_presumed` | one driver, one chapter, no fault, no extraction of others | disagreement, below |
| `job_mirror` | 3 jobs, pages of 2, 2 retries; racing writers of a job, a job from its creation with a database away, a row that is removed, two jobs and an absence batch of one, more jobs than a page, sweepers that restart behind and ahead of where they were | the mirror is safe, shows each job as promised, and converges |
| `relay` | 2 rows, one of a campaign, 2 relays, 2 usage-billing replicas, one campaign replica, one fault of any kind | delivery is safe |
| `relay_live` | the same rows, one replica each, one fault that does not take a reader away | delivery ends |
| `relay_rename` | one row, a re-created container | disagreement, below |

Why these bounds. In the guardrail, owners share nothing but the sweep's
transaction, so one owner suffices; two jobs of different sources interact over
one ledger; three days give a day change within a month, one with the month, and
both. Estimates and costs of 1 and 3 against limits of 3 and 4 reach a rejected
call, an overspend, and the overflow of the free tier. Jobs of `LlmJob` do not
read each other's state, so one job and two replicas cover the races. In the
relay, `MaxLen = 1` with two rows makes trimming overtake unread, unacked and
in-hand entries, and a batch of two can abort halfway. In `CampaignSaga` campaigns
share only the lease, so one suffices; two drivers give the overlap, two chapters
and a window of one the competition for a place (of two behind a barrier, so that a
translation could start beside an extraction), caps of one and two both a first
and a repeated dispatch, three jobs a dispatch again beside a live one; one user
call is between its read and its write at a time (`MaxCalls`), and each fault of a
setup comes once, but for extractions of others ("other_jobs"), which come before the
campaign and as often as they like. In `JobMirror` jobs meet only in a page, so the setup with three
jobs has one writer, and those with racing writers one job; `until` bounds the
stamps that are taken, and an `AbsenceBatch` of one lets a single older row keep another
from being asked about. `CHECK_DEADLOCK FALSE` is set
where the system stops by itself: all jobs ended, all rows delivered, a campaign over.

Symmetry is used for reservations, requests, jobs, drivers, relays and replicas in
safety runs only.

### Fairness

- Guardrail: time reaches every `expires_at`, and the sweeper's five-minute
  ticker runs (`StartSweeper`). No caller has to call.
- Jobs: goroutines and handlers make their next step, the broker delivers, time
  passes, sweepers tick. Nobody has to submit or cancel. The database is assumed to
  recover, so `Insert` is fair in its successful form only.
- Campaign: none, all its properties are of safety. A dispatched row with a job that
  never answers is bound to its lease by the stuck reconcile alone, and a project
  whose extraction is exhausted never completes (below).
- Mirror: a transaction ends, the consumer handles what is in the stream, the sweep
  goes on. Nobody has to write, and each fault comes a bounded number of times.
- Relay: each relay and each consumer loop makes its next step. No row has to be
  emitted, nothing has to be purged. Faults are finite, as no retry converges
  under endless faults. Pending entries are retried only when the stream is idle;
  a finite number of rows grants that, steady traffic would not.

## Disagreements found

- `job_queue_wait`: a hold's TTL starts at submit, so a job that waits in the queue
  loses it while it runs within its timeout, against config.go:67-69.
- `job_strand`: the resolver runs a job ungoverned on a failed load so that it is
  not stranded (server.go:278), but the load that follows acks the message when it
  fails, and the pending job stays for ever.
- `campaign_presumed`: a row of knowledge is marked done on a complete extraction
  (campaign-service reconcile.py:118) although its chapter was skipped, against
  knowledge-service internal_dispatch.py:271-272: a chapter still stuck "was extracted but its
  event was lost". Its translation then starts without knowledge.
- `relay_rename`: entries pending under the name of a container that is gone are
  never reclaimed, against spend_consumer.py:13-14.

Met while modelling, without a run: a job ended by the stuck sweep has no audit row,
against repo.go:361 (the sweep writes the status and the event alone); the comment of `FinalizeWithUsageOutbox` and
migrate.go:243 still say that only a completed job writes a usage row; the
worker's comment that a lost finalize means "cancel won" (worker.go:181) also meets
the stuck sweep, after which a call that completed is never charged; no sweeper
looks for pending rows, so a crash between insert and publish strands one.
A row updated during a fetch is said to have a stamp of `sweep_start` or later
(jobs-service reconcile.py:17-18); its stamp is the begin of its transaction, which
may lie before (`late`). `update_status` is said to be used by an engine that knows
the job is active (generation_jobs.py:831); `run_job` knew it before its work, so a
job cancelled meanwhile is revived, and the mirror keeps the cancel. The sweep is said
to heal a dropped event and an outage of the projection (reconcile.py:8-10); when no sweep
succeeds for longer than the lookback and the service is then restarted, what was dropped
before stays so (`skipped`). The remainder of a full absence batch is said to be asked about in the
next pass (jobs-service config.py:70-71); while the oldest rows are still there it is they
who are asked about again (`Starved`). A translation whose knowledge is
exhausted is neither dispatched nor settled (gating.py:131), so its campaign never
completes. The cancel of a paused campaign (routers/campaigns.py:673) ends it at once,
without the cancels downstream that a running one gets.

## Proofs

`SpendGuardrail_proofs`, for all constants that satisfy the module's assumptions:

| Theorem | States |
|---|---|
| `TypeCorrect` | `[]TypeOK` |
| `BudgetHolds` | `[]OverspendExplained` |
| `OneHold` | `[]OneHoldPerJob` |
| `SingleCharge` | `[]ChargedOnce` |

Type correctness goes action by action, over one lemma for each SQL update. The
overspend bounds are not inductive by themselves: a PATCH must not lower the
ceiling under a limit in force, and a reset must only lower what is shown as
spent. `BudgetInv` joins to the two bounds the fact that each limit is at most its
ceiling, and `RolledOverRow`, `SpendRecordedRow` and `ExcessBound` bound what each
update may add. `OneHoldPerJob` and `ChargedOnce` are inductive with `TypeOK`.

`GuardrailLedger_proofs`, under the same assumptions, on `TypeCorrect` and
`SingleCharge`:

| Theorem | States |
|---|---|
| `CountersAreHolds` | `[]ReservedMatchesHolds` |
| `KeysStayWithinCap` | `[]KeyHoldsWithinCap` |
| `WindowsAreCharges` | `[]WindowsMatchCharges` |
| `CreditsPayExactly` | `[]CreditsPayTheOverflow` |
| `ImplementsAccount` | `KeepsAccount`, the refinement to `SpendAccount` |

Every sum is a `Total`, a fold over a finite set. The library's induction theorems
cannot be instantiated, so the first part does the induction itself: the subsets of
a finite set for which a fact fails have a smallest one (`BySubsets`, from the
well-foundedness of the naturals). That gives the existence of the fold's function
(`Unfolding`), its independence of the order (`UnfoldingSums`), and so `TotalSplit`: a
total is any one figure plus the total of the others. On top, each handler is
classified by what it does to one row's figure (`HoldGained`, `HoldLost`,
`BilledGains`), and the invariants follow: `ReservedInv` and `KeyInv` for the holds,
`WindowInv` for what the rows show on the current day and month, whether or not a
handler has reset them since, and for the credits as the sum of each month's excess.
`FreeTierFirst` is the arithmetic of settling twice in one month. That only finitely
many reservations are in use is not assumed; it is a conjunct of the invariants.

The refinement rests on those invariants (`AccountInv`): the counters a handler gates on
are the sums the account has, and a window it resets on the way is one the account
had already started anew. `AffordableFits` puts that together for a hold, under the
locks and after the resets of `ReserveAccept`. What a settlement leaves to be seen, on a
current or a stale row, is what the account adds (`Shows...` and `Pays...`); a new date maps
to `NewDay` or `NewMonth` for all owners at once, those included whose rows no handler has
touched; a usage row maps to `Bill`.

`LlmJob_proofs`, for any sets of jobs and replicas, any set of faults and any times
that satisfy the module's assumptions:

| Theorem | States |
|---|---|
| `TypeCorrect` | `[]TypeOK` |
| `ClaimedOnce` | `[]OneExecution` |
| `OneTerminalEvent` | `[]EventsMatchStatus` |
| `AuditAgrees` | `[]AuditRowsAgree` |
| `ImplementsLifecycle` | `LivesOnce`, the refinement to `JobLifecycle` |
| `LivesItsLife` | the same as `Spec => Life(j)!Spec`, for each job by itself |
| `MoneyFollowsOutcome` | `[]SettlementMatchesOutcome` |

The argument has two layers. `JobSteps` shows that every step of the system is,
for each job, one of four: it keeps the job's records, inserts the row, claims it,
or ends it. The invariant `Records` follows from those four alone; besides the
properties it says that a job has no row before the submit handler inserts it (or a
late insert would revive an ended job) and that a row not yet running is
unclaimed. `Money` adds what is true while a settlement is on its way: a worker
about to settle holds the status the job ended with (`Settling`), and a DELETE
about to release has cancelled the job (`Cancelling`). Both survive any other
step, since an ended job keeps its status. For the refinement the steps are classified by
what they do to a hold as well; no step does both to a job, a row is inserted only where a
reservation was made (`HoldFirst`), and `Money` is what makes a charge one of a completed
job and a release one of another end.

`LlmJobFaults_proofs`, on the invariants of `LlmJob_proofs`:

| Theorem | States | Under |
|---|---|---|
| `CancelStopsTheCall` | `[]CancelAborts` | any faults |
| `EveryEndIsAudited` | `[]EveryCallAudited` | no database fault |
| `QueueBacksAccepted` | `[]AcceptedIsBacked` | `Reliable`: no lost connection, database fault or missing model |
| `DirectRunIsHeld` | `[]HoldOutlastsDirectRun` | `HoldCoversRun`: the TTL is at least the job timeout (and no replica is named like a state of a message) |

The steps are classified once more, by what they do to a goroutine (`Moves`) and to a
canceller (`CancellerMove`). `Aborted` adds to `CancelAborts` that the job of a DELETE
under way is cancelled, so that no goroutine claims it meanwhile. `AuditStep` goes
through the steps that end a job. `Backed` joins to `AcceptedIsBacked` how far the row is
when a worker is at a given point (`Reached`), and that an accepted job still pending has
its message queued or unacked (`BackedByBroker`). `DirectHeld` bounds the age of a direct run by that of its
hold: both start in one tick (`NewHold`) and age together (`AgeTogether`). The
assumptions are those the code needs: the runs `job_strand` and `job_queue_wait` show
what happens without two of them.

`UsageRelay_proofs`, for any rows, replicas, names, batch sizes, stream lengths and
faults:

| Theorem | States |
|---|---|
| `TypeCorrect` | `[]TypeOK` |
| `AckMeansCounted` | `[]AckedIsCounted` |
| `DoublesOnlyByAborts` | `[]DoublesNeedAborts` |
| `TrimmingOnlyLoses` | `[]LostOnlyByTrimming` |
| `ImplementsDelivery` | `DeliversOnce`, the refinement to `UsageDelivery` |
| `RowsCountedOnce` | `[]Delivery!CountedOnce`, by the refinement and `NothingCountedTwice` of `UsageDelivery` |

`FirstByIdIs` comes first: a batch or a read lists an initial segment of the rows or
entries in order. Induction over data is avoided by minimal counterexamples (`Least`, from
the library's `WFMin`). The invariant has four parts. `Batches`: the replicas' batches
are disjoint and lock waiting rows. `Log`: streams hold rows of ended jobs only.
`Tally`: a row has at most one entry for each aborted batch, and one more once it is
`Sent`, that is published or carried by a batch that can still commit; and what is `Sent` has an
entry. `Group`: what a reader has in hand was delivered, is the row of its entry
unless that was trimmed, and is counted when it is marked written; with it
`AckedIsCounted` is inductive, because a read passes over no undelivered entry
(`ReadIs`). A published row thus has an entry, which is trimmed, unread, pending or
counted: hence `TrimmingOnlyLoses`. For the refinement, `LostStays` shows that no step
brings back a row of which there is no copy; then the end of a job maps to `Emit`, the first
write to `Count`, and any other step to `Lose` or to nothing.

`CampaignSaga_proofs`, for any chapters, drivers and jobs, any campaign and any
faults:

| Theorem | States |
|---|---|
| `CampaignTypes` | `[]TypeOK` |
| `RetriesEnd` | `[]AttemptsBounded` |
| `StagesTakeTurns` | `[]OneStageInFlight` |
| `CeilingHolds` | `[]InflightBounded` |
| `OneJobPaysForAChapter` | `[]OneJobPerChapter` |
| `CancelIsClean` | `[]CancelLeavesNothing` |
| `ImplementsPlan` | `FollowsPlan`, the refinement to `CampaignPlan` |

The steps are classified first: what each does to a tick (the `...Turns` lemmas), to
a stage (`StageMoves`), to a job (`JobSteps`). `OneDriver` (types, `ShapeInv`: which
parts of a tick are filled where, `OneMid`: one driver at work unless overlapped)
then carries an invariant for each property. `RetryInv` counts with the attempts
the drivers that still hold the stage; `WantedInv` and `StageInv` say that nothing holds
the knowledge of a chapter whose translation is coming; `RoomInv` counts the
rows in flight together with the chapters a tick will mark, over the order by which
`FirstOf` takes them. `PaidInv` is for the payments: a chapter at work has its row
done, dispatched with that job's id, or in the batch of the driver about to stamp
it (`BoundInv`); a tick has nothing in hand that a job is at work on (`HeldInv`);
batches are marked (`BatchInv`); what a tick read of stuck rows is still so
(`StuckInv`); and between propagation and the final write, live jobs are only on
done chapters (`CancelInv`).

The refinement needs all of these at once (`PlanInv`), and four more: what is done has
a result or was presumed (`SoundInv`); wherever a translation is planned, marked or at work, its
knowledge exists or was presumed (`GroundInv`); behind a barrier, while a tick has a translation to
dispatch, no extraction is in flight or among what it will ask for (`BarrierInv`); and the
knowledge a tick asks about, or is to mark done on the answer, is still dispatched unless its completion has
come (`AskedInv`). `VouchedSteps` says that a tick is told so only by an extraction that is complete. `DispatchIsAllowed` then says
that what a tick decided on the rows it loaded is still allowed when it marks the
stage, statements, consumers and routes later. The other steps map to one of the plan
each, or to nothing.

`JobMirror_proofs`, for any jobs, setups, sizes of page and batch, and number of retries:

| Theorem | States |
|---|---|
| `MirrorTypes` | `[]TypeOK` |
| `ProjectionIsMonotonic` | `[]ProjectedIsKept` |
| `WatermarkIsSafe` | `[]SweptIsKept` |
| `ImplementsMirroring` | `MirrorsOwner`, the refinement to `MirroredJob` |
| `MirrorsEachJob` | the same as `Spec => Mirroring(j)!Spec`, for each job by itself |
| `OnlyTheGoneAreLost` | a job given up for lost has no row at its owner |
| `LostIsFinal` | a job given up for lost is never shown otherwise again |

`RowSteps` shows that every step moves a mirrored row only onward, and
`Onward` that moving onward loses nothing. `SweptInv` adds to the property what holds in the
middle of a sweep: everything behind the next watermark is mirrored, among the rows
still to be applied, or one of those a new sweeper started beyond (`Reached`), and the stamps are behind the clock (`ClockInv`); a
commit that is not `TooLate` keeps both. `LostInv` follows each job id through events,
pages and lists back to a row that was there. The refinement adds that a transaction
has a stamp behind the clock (`BegunInv`): then events map to what was said, a fetch to a
`Look`, and an upsert to `Show` when its WHERE accepts (`AcceptsIsOnward`).
`LostIsFinal` is drawn from the promise alone (`PastNext`): a mark is later than
everything that may still arrive of a job whose row is gone.

Every invariant, every action property and every refinement the passing runs check is
thus proved as well. Model-checked only: liveness (`HoldsEnd`, `AcceptedEnds`,
`Delivers`, `Converges`), which is out of the provers' reach.

## Not modelled, and the plan

Left out of the modelled components: request validation and price estimation,
reads, logging and notifications; the inline-audio submit, which reserves nothing
and always dispatches directly; chunks within a job; retention of ended jobs
(`PurgeExpiredJobs`); `drainTerminalOnce`, which has the shape of `drainOnce` with
one stream; of campaigns the amounts of the budget, PATCH, the eval stage, which is
only observed, creation with its estimate, and the reports; of jobs-service the job
list and the control proxy, and the other owners, whose sources answer as
composition-service does. In `JobMirror` stamps are distinct: a page full of rows of one
stamp, which the sweep never gets past (reconcile.py:123), does not occur.

1. `KeyCap`: `SpendGuardrail` composed with `UsageDelivery`; between a job's
   reconcile and its usage row the key's committed spend misses it.
2. `GuardrailLocks`: the row locks of the sweep's one transaction over several
   owners, against reserve and a second sweep.
3. `OutboxRelay` (worker-infra, publisher, meta-outbox-relay), `Breaker`
   (`ratelimit`, `contracts/resilience`), `StreamBilling`, `MetaWrite`.
