-------------------------------- MODULE LlmJob --------------------------------
(***************************************************************************)
(* The life of an asynchronous LLM job in provider-registry-service: the   *)
(* submit handler (internal/api/jobs_handler.go), the durable work queue   *)
(* and its consumers (internal/jobs/queue.go, internal/api/server.go), the *)
(* worker (internal/jobs/worker.go), DELETE, and the sweepers, over the    *)
(* llm_jobs row and the two outbox tables (internal/jobs/repo.go).         *)
(*                                                                         *)
(* Replicas of the service share the database and the broker.  A runner is *)
(* a worker goroutine of a replica together with its cancellable context,  *)
(* whose CancelFunc is registered in that replica alone.  The hold is the  *)
(* job's reservation in usage-billing, with the settlement semantics       *)
(* SpendGuardrail establishes.  A tick of the clock is many minutes, so    *)
(* the short steps (HTTP handlers, single statements) finish within one.   *)
(***************************************************************************)
EXTENDS Integers, Sequences

CONSTANTS
  Jobs, Replicas,
  Faults,           \* what may go wrong in this instance
  MaxCrashes,       \* bound: crashes in a behaviour
  Ttl,              \* RESERVATION_TTL, in ticks
  JobTimeout,       \* the longest job timeout, in ticks
  StuckAfter        \* LLM_RUNNING_SWEEP_TIMEOUT_S, in ticks

FaultKinds == {"crash", "connection", "database", "billing", "model_gone", "wallclock"}

ASSUME FaultsAreKnown == Faults \subseteq FaultKinds
ASSUME TimesAreNatural ==
  /\ Ttl \in Nat \ {0} /\ StuckAfter \in Nat \ {0}
  /\ JobTimeout \in Nat /\ MaxCrashes \in Nat

VARIABLES
  row,         \* llm_jobs: status, error_code and the age of its timestamps
  usage,       \* usage_outbox: the request_status of each row of the job
  events,      \* job_event_outbox: the status of each row of the job
  hold,        \* token_reservations, in usage-billing
  message,     \* the job's message on llm.jobs; a replica when unacked there
  connected,   \* replicas with a broker connection, hence a consumer
  submit,      \* the submit handler of the job
  runner,      \* the worker goroutine of the job, by replica
  canceller,   \* the DELETE handler that cancelled the job
  claims,      \* history: how often a worker claimed the job
  crashes

database == <<row, usage, events>>
vars == <<database, hold, message, connected, submit, runner, canceller, claims, crashes>>

-----------------------------------------------------------------------------

Terminal == {"completed", "failed", "cancelled"}
Outcomes == {"completed", "failed"}
NoRow == [status |-> "none", stuck |-> FALSE, ran |-> 0, idle |-> 0]
NoHold == [status |-> "none", age |-> 0]
NoRunner == [pc |-> "none", live |-> FALSE, direct |-> FALSE, outcome |-> "failed", billed |-> FALSE]

Row == [status: {"none", "pending", "running"} \cup Terminal, stuck: BOOLEAN,
        ran: 0 .. JobTimeout, idle: 0 .. StuckAfter]
Hold == [status: {"none", "held", "reconciled", "released", "swept"}, age: 0 .. Ttl]
Runner == [pc: {"none", "delivered", "loaded", "claimed", "answered", "settle"},
           live: BOOLEAN, direct: BOOLEAN, outcome: Outcomes, billed: BOOLEAN]
Submit == [pc: {"new", "reserved", "inserted", "accepted", "refused"}, at: Replicas]
Canceller == [pc: {"none", "abort", "release", "done"}, at: Replicas]

TypeOK ==
  /\ row \in [Jobs -> Row]
  /\ usage \in [Jobs -> Seq(Terminal)] /\ events \in [Jobs -> Seq(Terminal)]
  /\ hold \in [Jobs -> Hold]
  /\ message \in [Jobs -> {"none", "queued", "acked"} \cup Replicas]
  /\ connected \subseteq Replicas
  /\ submit \in [Jobs -> Submit]
  /\ runner \in [Replicas -> [Jobs -> Runner]]
  /\ canceller \in [Jobs -> Canceller]
  /\ claims \in [Jobs -> Nat]
  /\ crashes \in 0 .. MaxCrashes

\* A step that may fail for a reason outside the program: whether it took
\* effect is not known to the caller when it does.
MayFail(fault) == fault \in Faults

-----------------------------------------------------------------------------
(* doSubmitJob.                                                            *)

SubmitTo(j, pc) == submit' = [submit EXCEPT ![j].pc = pc]

\* runGuardrailPreflight: an accepted reserve; a refused one, or one refused
\* even with max_tokens capped; an unconfirmed one, which may have been placed.
Reserve(j, placed, confirmed) ==
  /\ submit[j].pc = "new"
  /\ placed /\ ~confirmed => MayFail("billing")
  /\ confirmed => placed
  /\ hold' = IF placed THEN [hold EXCEPT ![j] = [status |-> "held", age |-> 0]] ELSE hold
  /\ SubmitTo(j, IF confirmed THEN "reserved" ELSE "refused")
  /\ UNCHANGED <<database, message, connected, runner, canceller, claims, crashes>>

\* repo.Insert.  On an error the hold is left to the usage-billing sweeper.
Insert(j, written, confirmed) ==
  /\ submit[j].pc = "reserved"
  /\ confirmed => written
  /\ ~confirmed => MayFail("database")
  /\ row' = IF written THEN [row EXCEPT ![j].status = "pending"] ELSE row
  /\ SubmitTo(j, IF confirmed THEN "inserted" ELSE "refused")
  /\ UNCHANGED <<usage, events, hold, message, connected, runner, canceller, claims, crashes>>

\* jobQueue.Publish.
Publish(j) ==
  /\ submit[j].pc = "inserted"
  /\ submit[j].at \in connected
  /\ message' = [message EXCEPT ![j] = "queued"]
  /\ SubmitTo(j, "accepted")
  /\ UNCHANGED <<database, hold, connected, runner, canceller, claims, crashes>>

\* Mutant: deliveries are acked on receipt, so a lost connection loses them.
Requeued_AutoAck(p) == [j \in Jobs |-> IF message[j] = p THEN "acked" ELSE message[j]]
\* Messages a replica has not acked go back to the queue with its connection.
Requeued(p) == [j \in Jobs |-> IF message[j] = p THEN "queued" ELSE message[j]]

\* spawnJob: the replica has no queue, or its connection is gone.  The connection may be lost
\* by this very publish, after the broker took the message.
DirectDispatch(j, sent) ==
  LET p == submit[j].at IN
  /\ submit[j].pc = "inserted"
  /\ IF sent
     THEN /\ p \in connected /\ MayFail("connection")
          /\ connected' = connected \ {p}
          /\ message' = [Requeued(p) EXCEPT ![j] = "queued"]
     ELSE /\ p \notin connected
          /\ UNCHANGED <<connected, message>>
  /\ runner' = [runner EXCEPT ![p][j] =
       [NoRunner EXCEPT !.pc = "loaded", !.live = TRUE, !.direct = TRUE]]
  /\ SubmitTo(j, "accepted")
  /\ UNCHANGED <<database, hold, canceller, claims, crashes>>

-----------------------------------------------------------------------------
(* handleDelivery and ProcessJob.                                          *)

\* The goroutine returns; the delivery, if there is one and it is still this
\* replica's, is acked.
Acked(p, j) == [message EXCEPT ![j] = IF @ = p THEN "acked" ELSE @]
Returns(p, j) ==
  /\ runner' = [runner EXCEPT ![p][j] = NoRunner]
  /\ message' = IF runner[p][j].direct THEN message ELSE Acked(p, j)

Deliver(p, j) ==
  /\ p \in connected
  /\ message[j] = "queued"
  /\ runner[p][j].pc = "none"
  /\ message' = [message EXCEPT ![j] = p]
  /\ runner' = [runner EXCEPT ![p][j] = [NoRunner EXCEPT !.pc = "delivered"]]
  /\ UNCHANGED <<database, hold, connected, submit, canceller, claims, crashes>>

\* LoadForProcess, once the credential's semaphore is acquired (a wait of any
\* length): a job that is no longer pending is skipped.
Load(p, j) ==
  /\ runner[p][j].pc = "delivered"
  /\ IF row[j].status = "pending"
     THEN /\ runner' = [runner EXCEPT ![p][j].pc = "loaded", ![p][j].live = TRUE]
          /\ UNCHANGED message
     ELSE Returns(p, j)
  /\ UNCHANGED <<database, hold, connected, submit, canceller, claims, crashes>>

\* The message is acked unprocessed: the model is gone when the concurrency
\* class is resolved, or the second load of the row fails.
Drop(p, j) ==
  /\ runner[p][j].pc = "delivered"
  /\ MayFail("model_gone") \/ MayFail("database")
  /\ Returns(p, j)
  /\ UNCHANGED <<database, hold, connected, submit, canceller, claims, crashes>>

-----------------------------------------------------------------------------
(* Process.                                                                *)

\* Mutant: MarkRunning has no status guard.
Claimable_Any(j) == row[j].status # "none"
Claimable(j) == row[j].status = "pending"

MarkedRunning(j) == [row EXCEPT ![j].status = "running", ![j].ran = 0, ![j].idle = 0]

\* MarkRunning: one worker takes the pending row, every other returns.
Claim(p, j) ==
  /\ runner[p][j].pc = "loaded"
  /\ IF runner[p][j].live /\ Claimable(j)
     THEN /\ row' = MarkedRunning(j)
          /\ claims' = [claims EXCEPT ![j] = @ + 1]
          /\ runner' = [runner EXCEPT ![p][j].pc = "claimed"]
          /\ UNCHANGED message
     ELSE /\ Returns(p, j)
          /\ UNCHANGED <<row, claims>>
  /\ UNCHANGED <<usage, events, hold, connected, submit, canceller, crashes>>

\* MarkRunning returns an error, whether or not it took effect: the worker
\* goes on to finalize the job as failed.
ClaimError(p, j, written) ==
  /\ runner[p][j].pc = "loaded" /\ runner[p][j].live
  /\ MayFail("database")
  /\ written => Claimable(j)
  /\ row' = IF written THEN MarkedRunning(j) ELSE row
  /\ claims' = IF written THEN [claims EXCEPT ![j] = @ + 1] ELSE claims
  /\ runner' = [runner EXCEPT ![p][j].pc = "answered"]
  /\ UNCHANGED <<usage, events, hold, message, connected, submit, canceller, crashes>>

\* UpdateProgress after a chunk; it is not guarded by the status.
Progress(p, j) ==
  /\ runner[p][j].pc = "claimed" /\ runner[p][j].live
  /\ row[j].idle > 0
  /\ row' = [row EXCEPT ![j].idle = 0]
  /\ UNCHANGED <<usage, events, hold, message, connected, submit, runner, canceller, claims, crashes>>

\* The provider's answer, after whatever retries; a dead context is an error.
Answer(p, j, outcome) ==
  /\ runner[p][j].pc = "claimed"
  /\ ~runner[p][j].live => outcome = "failed"
  /\ runner' = [runner EXCEPT ![p][j].pc = "answered", ![p][j].outcome = outcome]
  /\ UNCHANGED <<database, hold, message, connected, submit, canceller, claims, crashes>>

\* Mutant: the finalize is not guarded by status = 'running'.
Finalizable_Any(j) == row[j].status # "none"
Finalizable(j) == row[j].status = "running"

\* finalizeAndNotify: the transition and both outbox rows in one transaction.
\* A failed billing lookup leaves no usage row and nothing to settle; an
\* unconfirmed commit is taken for a failure.
Finalize(p, j, billed, confirmed) ==
  LET outcome == runner[p][j].outcome IN
  /\ runner[p][j].pc = "answered" /\ runner[p][j].live
  /\ ~billed \/ ~confirmed => MayFail("database")
  /\ IF Finalizable(j)
     THEN /\ row' = [row EXCEPT ![j].status = outcome]
          /\ usage' = IF billed THEN [usage EXCEPT ![j] = Append(@, outcome)] ELSE usage
          /\ events' = [events EXCEPT ![j] = Append(@, outcome)]
     ELSE UNCHANGED database
  /\ IF Finalizable(j) /\ confirmed
     THEN /\ runner' = [runner EXCEPT ![p][j].pc = "settle", ![p][j].billed = billed]
          /\ UNCHANGED message
     ELSE Returns(p, j)
  /\ UNCHANGED <<hold, connected, submit, canceller, claims, crashes>>

\* Finalize fails with nothing written, surely so when the context is dead.
FinalizeError(p, j) ==
  /\ runner[p][j].pc = "answered"
  /\ ~runner[p][j].live \/ MayFail("database")
  /\ Returns(p, j)
  /\ UNCHANGED <<database, hold, connected, submit, canceller, claims, crashes>>

\* usage-billing's settleReservation.
Reconciled(h) == IF h.status \in {"held", "swept"} THEN [h EXCEPT !.status = "reconciled"] ELSE h
Released(h) == IF h.status = "held" THEN [h EXCEPT !.status = "released"] ELSE h

\* Mutant: a failed job is reconciled like a completed one.
Settlement_Reconcile(h, outcome) == Reconciled(h)
Settlement(h, outcome) == IF outcome = "completed" THEN Reconciled(h) ELSE Released(h)

\* settleReservation after the notification, best effort and on the worker's
\* own context: the call may not arrive.
Settle(p, j, arrives) ==
  /\ runner[p][j].pc = "settle"
  /\ arrives => runner[p][j].billed /\ runner[p][j].live
  /\ ~arrives => MayFail("billing") \/ ~runner[p][j].billed \/ ~runner[p][j].live
  /\ hold' = IF arrives
             THEN [hold EXCEPT ![j] = Settlement(@, runner[p][j].outcome)]
             ELSE hold
  /\ Returns(p, j)
  /\ UNCHANGED <<database, connected, submit, canceller, claims, crashes>>

-----------------------------------------------------------------------------
(* doCancelLlmJob.                                                         *)

\* Mutant: the audit row carries the status the job had before.
CancelUsage_OldStatus(j) == [usage EXCEPT ![j] = Append(@, row[j].status)]
\* Mutant: a cancellation writes no audit row.
CancelUsage_None(j) == usage
CancelUsage(j) == [usage EXCEPT ![j] = Append(@, "cancelled")]

\* repo.Cancel, by a DELETE that reaches replica p.  When the commit is not
\* confirmed the handler answers 500 and does nothing more.
Cancel(p, j, confirmed) ==
  /\ row[j].status \in {"pending", "running"}
  /\ ~confirmed => MayFail("database")
  /\ row' = [row EXCEPT ![j].status = "cancelled"]
  /\ usage' = CancelUsage(j)
  /\ events' = [events EXCEPT ![j] = Append(@, "cancelled")]
  /\ canceller' = IF confirmed THEN [canceller EXCEPT ![j] = [pc |-> "abort", at |-> p]]
                  ELSE canceller
  /\ UNCHANGED <<hold, message, connected, submit, runner, claims, crashes>>

\* Mutant: only direct runners are registered for cancellation.
AbortedRunner_DirectOnly(w) == IF w.direct THEN [w EXCEPT !.live = FALSE] ELSE w
AbortedRunner(w) == [w EXCEPT !.live = FALSE]

\* jobCancels.cancel: the runner of this replica, if it has one.
Abort(j) ==
  LET p == canceller[j].at IN
  /\ canceller[j].pc = "abort"
  /\ runner' = [runner EXCEPT ![p][j] = AbortedRunner(@)]
  /\ canceller' = [canceller EXCEPT ![j].pc = "release"]
  /\ UNCHANGED <<database, hold, message, connected, submit, claims, crashes>>

CancelRelease(j, arrives) ==
  /\ canceller[j].pc = "release"
  /\ ~arrives => MayFail("billing") \/ MayFail("database")
  /\ hold' = IF arrives THEN [hold EXCEPT ![j] = Released(@)] ELSE hold
  /\ canceller' = [canceller EXCEPT ![j].pc = "done"]
  /\ UNCHANGED <<database, message, connected, submit, runner, claims, crashes>>

-----------------------------------------------------------------------------
(* Sweepers, the clock, and faults.                                        *)

\* Mutant: a job swept as stuck emits no terminal event.
SweepEvents_None(j) == events
SweepEvents(j) == [events EXCEPT ![j] = Append(@, "failed")]

\* Mutant: the sweep looks for pending rows.
Stalled_Pending(j) == row[j].status = "pending" /\ row[j].idle = StuckAfter
Stalled(j) == row[j].status = "running" /\ row[j].idle = StuckAfter

\* SweepStuckRunning.
StuckSweep(j) ==
  /\ Stalled(j)
  /\ row' = [row EXCEPT ![j].status = "failed", ![j].stuck = TRUE]
  /\ events' = SweepEvents(j)
  /\ UNCHANGED <<usage, hold, message, connected, submit, runner, canceller, claims, crashes>>

\* Mutant: the sweep takes every held reservation, whether or not it expired.
Lapsed_Unexpired(j) == hold[j].status = "held"
Lapsed(j) == hold[j].status = "held" /\ hold[j].age = Ttl

\* usage-billing's sweepExpiredReservations.
HoldLapses(j) ==
  /\ Lapsed(j)
  /\ hold' = [hold EXCEPT ![j].status = "swept"]
  /\ UNCHANGED <<database, message, connected, submit, runner, canceller, claims, crashes>>

\* A step that takes seconds is under way.
Busy ==
  \/ \E j \in Jobs : \/ submit[j].pc \in {"reserved", "inserted"}
                     \/ canceller[j].pc \in {"abort", "release"}
  \/ \E p \in Replicas, j \in Jobs : runner[p][j].pc \in {"loaded", "answered", "settle"}

Aged(age, limit) == IF age < limit THEN age + 1 ELSE age

\* The sweepers run every minute or few, so they too keep up with the clock.
Tick ==
  /\ ~Busy
  /\ \A j \in Jobs : ~Lapsed(j) /\ ~Stalled(j)
  /\ hold' = [j \in Jobs |->
       IF hold[j].status = "held" THEN [hold[j] EXCEPT !.age = Aged(@, Ttl)] ELSE hold[j]]
  /\ row' = [j \in Jobs |->
       IF row[j].status = "running"
       THEN [row[j] EXCEPT !.ran = Aged(@, JobTimeout), !.idle = Aged(@, StuckAfter)]
       ELSE row[j]]
  /\ UNCHANGED <<usage, events, message, connected, submit, runner, canceller, claims, crashes>>

\* The optional per-job ceiling, a context.WithTimeout around the runner: far
\* longer than the start of a job takes.
WallclockExpires(p, j) ==
  /\ MayFail("wallclock")
  /\ runner[p][j].live /\ runner[p][j].pc \in {"claimed", "answered", "settle"}
  /\ runner' = [runner EXCEPT ![p][j].live = FALSE]
  /\ UNCHANGED <<database, hold, message, connected, submit, canceller, claims, crashes>>

\* The broker connection is never dialled again; the runners carry on.
ConnectionLost(p) ==
  /\ MayFail("connection") /\ p \in connected
  /\ connected' = connected \ {p}
  /\ message' = Requeued(p)
  /\ UNCHANGED <<database, hold, submit, runner, canceller, claims, crashes>>

\* Whether a starting replica gets its queue: LLM_JOB_QUEUE_ENABLED is on and
\* the broker answers.  One that starts without it never tries again.
Dialled == IF MayFail("connection") THEN BOOLEAN ELSE {TRUE}

\* A replica loses its goroutines and handlers, and starts again.
Crash(p) ==
  /\ MayFail("crash") /\ crashes < MaxCrashes
  /\ crashes' = crashes + 1
  /\ \E dialled \in Dialled :
       connected' = IF dialled THEN connected \cup {p} ELSE connected \ {p}
  /\ message' = Requeued(p)
  /\ runner' = [runner EXCEPT ![p] = [j \in Jobs |-> NoRunner]]
  /\ submit' = [j \in Jobs |->
       IF submit[j].at = p /\ submit[j].pc \in {"reserved", "inserted"}
       THEN [submit[j] EXCEPT !.pc = "refused"] ELSE submit[j]]
  /\ canceller' = [j \in Jobs |->
       IF canceller[j].at = p /\ canceller[j].pc \in {"abort", "release"}
       THEN [canceller[j] EXCEPT !.pc = "done"] ELSE canceller[j]]
  /\ UNCHANGED <<database, hold, claims>>

-----------------------------------------------------------------------------

Init ==
  /\ row = [j \in Jobs |-> NoRow]
  /\ usage = [j \in Jobs |-> <<>>] /\ events = [j \in Jobs |-> <<>>]
  /\ hold = [j \in Jobs |-> NoHold]
  /\ message = [j \in Jobs |-> "none"]
  /\ \E dialled \in [Replicas -> Dialled] : connected = {p \in Replicas : dialled[p]}
  /\ submit \in [Jobs -> [pc: {"new"}, at: Replicas]]
  /\ runner = [p \in Replicas |-> [j \in Jobs |-> NoRunner]]
  /\ \E p \in Replicas : canceller = [j \in Jobs |-> [pc |-> "none", at |-> p]]
  /\ claims = [j \in Jobs |-> 0]
  /\ crashes = 0

SubmitStep(j) ==
  \/ \E placed, confirmed \in BOOLEAN : Reserve(j, placed, confirmed) \/ Insert(j, placed, confirmed)
  \/ Publish(j)
  \/ \E sent \in BOOLEAN : DirectDispatch(j, sent)

RunnerStep(p, j) ==
  \/ Load(p, j) \/ Drop(p, j) \/ Claim(p, j) \/ Progress(p, j) \/ FinalizeError(p, j)
  \/ \E written \in BOOLEAN : ClaimError(p, j, written)
  \/ \E outcome \in Outcomes : Answer(p, j, outcome)
  \/ \E billed, confirmed \in BOOLEAN : Finalize(p, j, billed, confirmed)
  \/ \E arrives \in BOOLEAN : Settle(p, j, arrives)

CancelStep(j) ==
  \/ Abort(j)
  \/ \E arrives \in BOOLEAN : CancelRelease(j, arrives)

Next ==
  \/ \E j \in Jobs : SubmitStep(j) \/ CancelStep(j) \/ StuckSweep(j) \/ HoldLapses(j)
  \/ \E p \in Replicas, j \in Jobs :
       \/ Deliver(p, j) \/ RunnerStep(p, j) \/ WallclockExpires(p, j)
       \/ \E confirmed \in BOOLEAN : Cancel(p, j, confirmed)
  \/ Tick
  \/ \E p \in Replicas : ConnectionLost(p) \/ Crash(p)

\* Goroutines and handlers run, the broker delivers, time passes and the
\* sweepers tick; a runner's step includes the provider's answer, which comes
\* or times out.  Nobody has to submit or cancel, and no fault has to happen.
Fairness ==
  /\ \A j \in Jobs :
       /\ WF_vars(\E confirmed \in BOOLEAN : Insert(j, TRUE, confirmed))
       /\ WF_vars(Publish(j) \/ DirectDispatch(j, FALSE))
       /\ WF_vars(CancelStep(j))
       /\ WF_vars(StuckSweep(j)) /\ WF_vars(HoldLapses(j))
       /\ WF_vars(\E p \in Replicas : Deliver(p, j))
  /\ \A p \in Replicas, j \in Jobs :
       /\ WF_vars(RunnerStep(p, j) /\ runner'[p][j].pc # runner[p][j].pc)
  /\ WF_vars(Tick)

Spec == Init /\ [][Next]_vars /\ Fairness
-----------------------------------------------------------------------------
(* Properties.                                                             *)

Ended(j) == row[j].status \in Terminal

\* Workers, DELETE and the sweeper race for the terminal transition; whoever
\* wins, the job has exactly one terminal event, of its final status.
EventsMatchStatus ==
  \A j \in Jobs : events[j] = IF Ended(j) THEN <<row[j].status>> ELSE <<>>

\* A job has at most one audit row, and it agrees with the final status, even
\* when a worker answers after the job was cancelled or swept.
AuditRowsAgree ==
  \A j \in Jobs : usage[j] # <<>> => Ended(j) /\ usage[j] = <<row[j].status>>

\* Every job that ended, except by the stuck sweep, left its audit row.
EveryCallAudited == \A j \in Jobs : Ended(j) /\ ~row[j].stuck => usage[j] # <<>>

\* Redelivery, a second replica and the direct fallback may all start a worker
\* for a job, yet the job is claimed once: the provider is called for it once.
OneExecution == \A j \in Jobs : claims[j] <= 1

\* Money follows the outcome: the hold is charged only for a completed job and
\* given back only for a failed or cancelled one, whoever ended the job.
SettlementMatchesOutcome ==
  \A j \in Jobs :
    /\ hold[j].status = "reconciled" => row[j].status = "completed"
    /\ hold[j].status = "released" => row[j].status \in {"failed", "cancelled"}

\* Once the replica that runs a job has answered its DELETE, it has no live
\* call for the job any more, at whatever point the worker was.
CancelAborts ==
  \A j \in Jobs :
    canceller[j].pc \in {"release", "done"} =>
      LET w == runner[canceller[j].at][j] IN ~(w.pc = "claimed" /\ w.live)

\* What the queue is for: a job answered with 202 and still pending is in the
\* broker, or a worker is about to claim it.
AcceptedIsBacked ==
  \A j \in Jobs :
    submit[j].pc = "accepted" /\ row[j].status = "pending" =>
      \/ message[j] \in {"queued"} \cup Replicas
      \/ \E p \in Replicas : runner[p][j].pc = "loaded"

\* The hold's time-to-live exceeds the longest job timeout "so a normal job is
\* never swept mid-run": a job that has run for less has not lost its hold.
RunsUnheld(j) ==
  row[j].status = "running" /\ row[j].ran < JobTimeout /\ hold[j].status = "swept"
HoldOutlastsRun == \A j \in Jobs : ~RunsUnheld(j)

\* So it is for a job dispatched directly, which starts as soon as it is held.
HoldOutlastsDirectRun == \A j \in Jobs : RunsUnheld(j) => message[j] # "none"

\* A job, taken by itself.
Life(j) ==
  INSTANCE JobLifecycle WITH
    status <- row[j].status, begun <- claims[j], events <- events[j], audit <- usage[j],
    money <- hold[j].status

\* Whatever runs, retries, cancels and sweeps it, every job lives one life: held,
\* created, begun once and ended once by a step that tells of it, then paid for
\* or given back by its outcome; and nothing happens to it out of that order.
\* This is Life(j)!Spec for every job, in the form TLC checks.
LivesOnce ==
  /\ \A j \in Jobs : Life(j)!Init
  /\ [][\A j \in Jobs : [Life(j)!Next]_(Life(j)!vars)]_vars

\* Every accepted job ends, though replicas crash: a pending one is delivered
\* again, a running one is swept.
AcceptedEnds == \A j \in Jobs : submit[j].pc = "accepted" ~> Ended(j)
=============================================================================
