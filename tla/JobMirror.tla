------------------------------ MODULE JobMirror ------------------------------
(***************************************************************************)
(* The mirror jobs-service keeps of the jobs of another service, here the  *)
(* generation jobs of composition-service: transactions of the owner that  *)
(* write a job's row and its event together (generation_jobs.py), the      *)
(* relay and the stream, the projection consumer with its retries and its  *)
(* dead letters (loreweave_jobs), the monotonic upsert                     *)
(* (projection/store.py), and the sweep with its watermark and the absence *)
(* pass (reconcile.py).                                                    *)
(*                                                                         *)
(* Time is a counter that goes up whenever a stamp is taken, so stamps are *)
(* distinct and ordered as they were taken; the clocks of the services and *)
(* databases agree.                                                        *)
(***************************************************************************)
EXTENDS Integers, FiniteSets

CONSTANTS
  Jobs,
  Setups,       \* what Init chooses from
  PageLimit,    \* _PAGE_LIMIT
  AbsenceBatch, \* absence_check_batch
  MaxRetries    \* max_retries

Live == {"pending", "running"}
Terminal == {"completed", "failed", "cancelled"}
Statuses == Live \cup Terminal
FaultKinds == {"abort", "restart", "trim", "duplicate", "db_down", "no_answer"}

ASSUME BoundsArePositive ==
  PageLimit \in Nat \ {0} /\ AbsenceBatch \in Nat \ {0} /\ MaxRetries \in Nat \ {0}
ASSUME JobsAreFinite == IsFiniteSet(Jobs)
ASSUME SetupsAreJobs ==
  Setups \subseteq [old: SUBSET Jobs, new: SUBSET Jobs, until: Nat, open: Nat,
                    absence: BOOLEAN, faults: SUBSET FaultKinds]

VARIABLES
  setup,      \* the rows there are and may be, absence_check_enabled, bounds on the
              \* time and on the transactions open at once
  clock,      \* the next stamp
  source,     \* generation_job, and whether the last write of a row has emitted an event
  worker,     \* run_job: what it is about to do for a job
  open,       \* transactions of the owner: the stamp is now(), that of their begin
  events,     \* outbox_events and the stream after it
  row,        \* job_projection
  watermark,  \* _watermark of the owner
  sweep,      \* the sweep that is under way
  late,       \* history: jobs whose last write came too late for its stamp
  skipped,    \* history: rows of the owner that a new sweeper started beyond, unseen
  faults      \* the faults still to come

owner == <<source, worker, open, late>>
mirror == <<row, watermark, skipped, sweep>>
vars == <<setup, clock, owner, events, mirror, faults>>

-----------------------------------------------------------------------------

Stamp == Nat
Row == [status: Statuses \cup {"none", "gone"}, stamp: Stamp, sent: BOOLEAN]
Mirrored == [status: Statuses \cup {"none"}, stamp: Stamp, lost: BOOLEAN]
Snapshot == [job: Jobs, status: Statuses, stamp: Stamp]
Event == [job: Jobs, status: Statuses, stamp: Stamp,
          place: {"transit", "acked", "parked", "trimmed"},
          tries: Nat, applied: BOOLEAN]
Writes == {"create", "start", "complete", "fail", "cancel", "reap"}
Txn == [job: Jobs, write: Writes, stamp: Stamp]
Sweep == [pc: {"idle", "ask", "apply", "list", "verify", "mark"},
          start: Stamp, next: Stamp, rows: SUBSET Snapshot, ids: SUBSET Jobs]
NoSweep == [pc |-> "idle", start |-> 0, next |-> 0, rows |-> {}, ids |-> {}]

TypeOK ==
  /\ setup \in Setups
  /\ clock \in Stamp
  /\ source \in [Jobs -> Row]
  /\ worker \in [Jobs -> {"idle", "read", "work"}]
  /\ open \subseteq Txn
  /\ events \subseteq Event
  /\ row \in [Jobs -> Mirrored]
  /\ watermark \in Stamp
  /\ skipped \subseteq Snapshot
  /\ sweep \in Sweep
  /\ late \subseteq Jobs
  /\ faults \subseteq FaultKinds

SnapshotOf(j) == [job |-> j, status |-> source[j].status, stamp |-> source[j].stamp]

\* list_since: updated_at >= $1 ORDER BY updated_at ASC.
Since(w) == {SnapshotOf(j) : j \in {i \in Jobs : source[i].status \in Statuses /\ source[i].stamp >= w}}

\* A mirrored row is at least as far as a snapshot of the job: a terminal one
\* is not undone, and a live one not by anything older.
NotBehind(r, s) ==
  IF s.status \in Terminal
  THEN r.status \in Terminal /\ r.stamp >= s.stamp
  ELSE r.status \in Terminal \/ (r.status \in Live /\ r.stamp >= s.stamp)

\* What a sweeper passes over that starts at one stamp after another got to
\* an earlier one.
Passed(from, to) == {s \in Since(from) : s.stamp < to /\ ~NotBehind(row[s.job], s)}

\* The old rows are running and the mirror has not heard of them.  The first
\* watermark is the start of the process minus reconcile_lookback_s: any stamp
\* so far.
Init ==
  /\ setup \in Setups
  /\ clock = Cardinality(setup.old) + 1
  /\ \E at \in [setup.old -> 1..Cardinality(setup.old)] :
       /\ \A i, j \in setup.old : at[i] = at[j] => i = j
       /\ source = [j \in Jobs |->
            IF j \in setup.old THEN [status |-> "running", stamp |-> at[j], sent |-> FALSE]
            ELSE [status |-> "none", stamp |-> 0, sent |-> FALSE]]
  /\ worker \in [Jobs -> {"idle", "work"}]
  /\ \A j \in Jobs \ setup.old : worker[j] = "idle"
  /\ open = {}
  /\ events = {}
  /\ row = [j \in Jobs |-> [status |-> "none", stamp |-> 0, lost |-> FALSE]]
  /\ watermark \in 0..clock
  /\ skipped = Passed(0, watermark)
  /\ sweep = NoSweep
  /\ late = {}
  /\ faults = setup.faults

Fault(kind) == kind \in faults /\ faults' = faults \ {kind}

-----------------------------------------------------------------------------
(* The owner                                                               *)

\* run_job: a job that is not terminal is run, a redelivered one again.
Read(j) ==
  /\ worker[j] = "idle" /\ source[j].status \in Live
  /\ worker' = [worker EXCEPT ![j] = "read"]
  /\ UNCHANGED <<setup, clock, source, open, late, events, mirror, faults>>

\* What may be about to be written.  The guard on the row, where a write has
\* one, is in the statement itself.
Due(j) ==
  {w \in Writes :
     \/ w = "create" /\ j \in setup.new /\ source[j].status = "none"
     \/ w = "start" /\ worker[j] = "read"
     \/ w \in {"complete", "fail"} /\ worker[j] = "work"
     \/ w \in {"cancel", "reap"} /\ source[j].status \in Live}

Begin(j, w) ==
  /\ w \in Due(j)
  /\ Cardinality(open) < setup.open /\ clock < setup.until
  /\ \A x \in open : x.job = j => x.write # w
  /\ clock' = clock + 1
  /\ open' = open \cup {[job |-> j, write |-> w, stamp |-> clock]}
  /\ UNCHANGED <<setup, source, worker, late, events, mirror, faults>>

\* Mutant: the owner's own word for a status goes into the event.
Outcome_Native(w) ==
  CASE w = "create" -> "pending" [] w = "start" -> "running" [] w = "complete" -> "complete"
    [] w \in {"fail", "reap"} -> "failed" [] w = "cancel" -> "cancelled"
Outcome(w) ==
  CASE w = "create" -> "pending" [] w = "start" -> "running" [] w = "complete" -> "completed"
    [] w \in {"fail", "reap"} -> "failed" [] w = "cancel" -> "cancelled"

\* cancel and the reapers look at the status again, update_status only asks
\* that the row is there.
Applies(x) ==
  CASE x.write = "create" -> source[x.job].status = "none"
    [] x.write \in {"cancel", "reap"} -> source[x.job].status \in Live
    [] OTHER -> source[x.job].status \notin {"none", "gone"}

\* The reapers emit nothing.
Emits(w) == w # "reap"

\* The first stamp the next fetch asks for.
Horizon == IF sweep.pc = "apply" THEN sweep.next ELSE watermark

\* now() is the time of the begin: a transaction that waited commits a stamp
\* that a fetch has gone past, or one that is behind the write it replaces.
TooLate(x) ==
  \/ x.stamp < Horizon
  \/ x.stamp < source[x.job].stamp
  \/ \E e \in events : e.job = x.job /\ x.stamp < e.stamp

After(x) ==
  CASE x.write = "start" -> IF worker[x.job] = "read" THEN "work" ELSE worker[x.job]
    [] x.write \in {"complete", "fail"} -> "idle"
    [] OTHER -> worker[x.job]

Emitted(x) ==
  [job |-> x.job, status |-> Outcome(x.write), stamp |-> clock,
   place |-> "transit", tries |-> 0, applied |-> FALSE]

Commit(x) ==
  /\ open' = open \ {x}
  /\ clock' = IF Applies(x) /\ Emits(x.write) THEN clock + 1 ELSE clock
  /\ worker' = [worker EXCEPT ![x.job] = After(x)]
  /\ IF Applies(x)
       THEN /\ source' = [source EXCEPT ![x.job] =
                 [status |-> Outcome(x.write), stamp |-> x.stamp, sent |-> Emits(x.write)]]
            /\ events' = IF Emits(x.write)
                 THEN events \cup {Emitted(x)}
                 ELSE events
            /\ late' = IF TooLate(x) THEN late \cup {x.job} ELSE late \ {x.job}
       ELSE UNCHANGED <<source, events, late>>
  /\ UNCHANGED <<setup, mirror, faults>>

\* The process dies, or the statement does; nothing of it remains.
Abort(x) ==
  /\ Fault("abort")
  /\ open' = open \ {x}
  /\ worker' = [worker EXCEPT ![x.job] = "idle"]
  /\ UNCHANGED <<setup, clock, source, late, events, mirror>>

\* A row is removed behind the service's back, by hand or by a teardown of the
\* database: looked at where the mirror is told to ask for it.
Delete(j) ==
  /\ source[j].status \in Statuses
  /\ setup.absence
  /\ source' = [source EXCEPT ![j] = [status |-> "gone", stamp |-> 0, sent |-> FALSE]]
  /\ UNCHANGED <<setup, clock, worker, open, late, events, mirror, faults>>

-----------------------------------------------------------------------------
(* The projection                                                          *)

\* Mutant: a terminal event is always written.
Accepts_AnyTerminal(r, status, stamp) ==
  \/ r.status = "none"
  \/ status \in Terminal
  \/ status \notin Terminal /\ r.status \notin Terminal /\ stamp >= r.stamp
\* _UPSERT, of which only the status and its stamp are kept here.
Accepts(r, status, stamp) ==
  \/ r.status = "none"
  \/ status \in Terminal /\ ~(r.status \in Terminal /\ stamp < r.stamp)
  \/ status \notin Terminal /\ r.status \notin Terminal /\ stamp >= r.stamp

Upserted(s) ==
  [row EXCEPT ![s.job] =
     IF Accepts(@, s.status, s.stamp)
     THEN [status |-> s.status, stamp |-> s.stamp, lost |-> FALSE] ELSE @]

Moved(e, place, tries, applied) ==
  [job |-> e.job, status |-> e.status, stamp |-> e.stamp,
   place |-> place, tries |-> tries, applied |-> applied]
Becomes(e, place, tries, applied) ==
  events' = (events \ {e}) \cup {Moved(e, place, tries, applied)}

\* processSource leaves a row whose XADD fails for a later pass, and what was
\* not acked is delivered later: events arrive in any order.

\* published_at was not set: the row is published once more.
PublishAgain(e) ==
  /\ e.place = "acked"
  /\ Fault("duplicate")
  /\ Becomes(e, "transit", 0, e.applied)
  /\ UNCHANGED <<setup, clock, owner, mirror>>

\* MAXLEN.
Trim(e) ==
  /\ e.place = "transit"
  /\ Fault("trim")
  /\ Becomes(e, "trimmed", e.tries, e.applied)
  /\ UNCHANGED <<setup, clock, owner, mirror>>

\* handle and XACK; a message that was not acked is delivered again.
Handle(e) ==
  /\ e.place = "transit"
  /\ row' = Upserted(e)
  /\ Becomes(e, "acked", e.tries, TRUE)
  /\ UNCHANGED <<setup, clock, owner, watermark, skipped, sweep, faults>>

HandleUnacked(e) ==
  /\ e.place = "transit"
  /\ Fault("restart")
  /\ row' = Upserted(e)
  /\ Becomes(e, "transit", e.tries, TRUE)
  /\ UNCHANGED <<setup, clock, owner, watermark, skipped, sweep>>

\* _on_error: the last of max_retries failures parks the event.
HandleFails(e) ==
  /\ e.place = "transit"
  /\ "db_down" \in faults
  /\ Becomes(e, IF e.tries + 1 < MaxRetries THEN "transit" ELSE "parked", e.tries + 1, e.applied)
  /\ UNCHANGED <<setup, clock, owner, mirror, faults>>

-----------------------------------------------------------------------------
(* The sweep, and the absence pass after it                                *)

\* sweep_start is taken before the fetch.
StartSweep ==
  /\ sweep.pc = "idle"
  /\ sweep' = [NoSweep EXCEPT !.pc = "ask", !.start = clock]
  /\ UNCHANGED <<setup, clock, owner, events, row, watermark, skipped, faults>>

Pages(w) ==
  {page \in SUBSET Since(w) :
     /\ page = Since(w) \/ Cardinality(page) = PageLimit
     /\ \A r \in page, s \in Since(w) \ page : r.stamp <= s.stamp
     /\ Cardinality(page) <= PageLimit}

\* Mutant: every page is taken for the last.
NextWatermark_ToStart(page) == {sweep.start}
\* A full page may have more behind it: no further than to its last row.
NextWatermark(page) ==
  IF Cardinality(page) = PageLimit
  THEN {r.stamp : r \in {q \in page : \A p \in page : p.stamp <= q.stamp}}
  ELSE {sweep.start}

Fetch ==
  /\ sweep.pc = "ask"
  /\ \E page \in Pages(watermark) : \E w \in NextWatermark(page) :
       sweep' = [sweep EXCEPT !.pc = "apply", !.rows = page, !.next = w]
  /\ UNCHANGED <<setup, clock, owner, events, row, watermark, skipped, faults>>

ApplyRow ==
  /\ sweep.pc = "apply"
  /\ \E s \in sweep.rows :
       /\ \A r \in sweep.rows : s.stamp <= r.stamp
       /\ row' = Upserted(s)
       /\ sweep' = [sweep EXCEPT !.rows = @ \ {s}]
  /\ UNCHANGED <<setup, clock, owner, events, watermark, skipped, faults>>

Swept == IF setup.absence THEN [NoSweep EXCEPT !.pc = "list"] ELSE NoSweep

Advance ==
  /\ sweep.pc = "apply" /\ sweep.rows = {}
  /\ watermark' = sweep.next
  /\ sweep' = Swept
  /\ UNCHANGED <<setup, clock, owner, events, row, skipped, faults>>

\* Mutant: the watermark is set whatever comes of the sweep.
SweepFails_Advances ==
  /\ sweep.pc \in {"ask", "apply"}
  /\ Fault("no_answer")
  /\ watermark' = sweep.start
  /\ sweep' = Swept
  /\ UNCHANGED <<setup, clock, owner, events, row, skipped>>
\* The fetch or an upsert raises: the watermark stays.
SweepFails ==
  /\ sweep.pc \in {"ask", "apply"}
  /\ Fault("no_answer")
  /\ sweep' = Swept
  /\ UNCHANGED <<setup, clock, owner, events, row, watermark, skipped>>

\* The watermark is not persisted.  A new process starts reconcile_lookback_s
\* before its own start, wherever the old one had got to: behind it after a
\* quick restart, ahead of it after an outage or a row of failed sweeps.
RestartSweeper ==
  /\ Fault("restart")
  /\ watermark' \in 0..clock
  /\ skipped' = {s \in skipped : s.stamp < watermark'} \cup Passed(watermark, watermark')
  /\ sweep' = NoSweep
  /\ UNCHANGED <<setup, clock, owner, events, row>>

\* list_non_terminal_ids: within the grace of absence_check_min_age_s (a day)
\* every event of a job has arrived or is lost.
Untouched(j) == row[j].status \in Live /\ \A e \in events : e.job = j => e.place # "transit"

\* ids[:absence_check_batch], the oldest rows first.
Oldest(J) == {j \in J : Cardinality({i \in J : row[i].stamp < row[j].stamp}) < AbsenceBatch}

ListLive ==
  /\ sweep.pc = "list"
  /\ LET ids == Oldest({j \in Jobs : Untouched(j)}) IN
     sweep' = IF ids = {} THEN NoSweep ELSE [sweep EXCEPT !.pc = "verify", !.ids = ids]
  /\ UNCHANGED <<setup, clock, owner, events, row, watermark, skipped, faults>>

\* Mutant: absence is read from the rows of a delta.
Verify_Delta ==
  /\ sweep.pc = "verify"
  /\ \/ /\ sweep' = [sweep EXCEPT !.pc = "mark", !.ids = @ \ {s.job : s \in Since(watermark)}]
        /\ UNCHANGED faults
     \/ sweep' = NoSweep /\ Fault("no_answer")
  /\ UNCHANGED <<setup, clock, owner, events, row, watermark, skipped>>
\* list_by_ids: who is asked about and does not come back is gone.
Verify ==
  /\ sweep.pc = "verify"
  /\ \/ /\ sweep' = [sweep EXCEPT !.pc = "mark", !.ids = {j \in @ : source[j].status \notin Statuses}]
        /\ UNCHANGED faults
     \/ sweep' = NoSweep /\ Fault("no_answer")
  /\ UNCHANGED <<setup, clock, owner, events, row, watermark, skipped>>

\* mark_owner_lost, which looks at the status again.
MarkLost(j) ==
  /\ sweep.pc = "mark" /\ j \in sweep.ids
  /\ sweep' = [sweep EXCEPT !.ids = @ \ {j}]
  /\ IF row[j].status \in Live
       THEN /\ row' = [row EXCEPT ![j] = [status |-> "failed", stamp |-> clock, lost |-> TRUE]]
            /\ clock' = clock + 1
       ELSE UNCHANGED <<row, clock>>
  /\ UNCHANGED <<setup, owner, events, watermark, skipped, faults>>

EndVerify ==
  /\ sweep.pc = "mark" /\ sweep.ids = {}
  /\ sweep' = NoSweep
  /\ UNCHANGED <<setup, clock, owner, events, row, watermark, skipped, faults>>

-----------------------------------------------------------------------------

SweepStep ==
  \/ StartSweep \/ Fetch \/ ApplyRow \/ Advance \/ ListLive \/ Verify
  \/ (\E j \in Jobs : MarkLost(j)) \/ EndVerify

Next ==
  \/ \E j \in Jobs : Read(j) \/ Delete(j) \/ \E w \in Writes : Begin(j, w)
  \/ \E x \in open : Commit(x) \/ Abort(x)
  \/ \E e \in events :
       \/ PublishAgain(e) \/ Trim(e) \/ Handle(e)
       \/ HandleUnacked(e) \/ HandleFails(e)
  \/ SweepStep \/ SweepFails \/ RestartSweeper

\* Transactions end; the relay, the consumer and the sweep keep running.
Fairness ==
  /\ WF_vars(\E x \in open : Commit(x))
  /\ WF_vars(\E e \in events : Handle(e))
  /\ WF_vars(SweepStep)

Spec == Init /\ [][Next]_vars /\ Fairness
-----------------------------------------------------------------------------

\* However events are reordered, repeated, retried or mixed with sweeps and
\* marks: what an event that was projected once said is never forgotten.
ProjectedIsKept == \A e \in events : e.applied => NotBehind(row[e.job], e)

\* The watermark passes a change only once the mirror has it, whatever is
\* written during a fetch and however many pages it takes.  Only where a new
\* sweeper starts ahead of the old one may it leave a row behind.
SweptIsKept ==
  \A j \in Jobs \ late :
    source[j].status \in Statuses /\ source[j].stamp < watermark =>
      NotBehind(row[j], SnapshotOf(j)) \/ SnapshotOf(j) \in skipped

\* What may still reach the mirror of a job: events that are neither trimmed nor
\* parked, and the rows the sweep is about to apply.
Version(s) == [status |-> s.status, stamp |-> s.stamp]
Said(j) ==
  {Version(e) : e \in {f \in events : f.job = j /\ f.place \in {"transit", "acked"}}}
    \cup {Version(s) : s \in {r \in sweep.rows : r.job = j}}
Mirroring(j) ==
  INSTANCE MirroredJob WITH
    now <- clock, truth <- Version(source[j]), said <- Said(j), shown <- row[j]

\* However events, sweeps, retries, marks and restarts are mixed, the mirror
\* shows of every job only what its owner said of it, in an order that never
\* takes back an end, and gives it up for lost only once its row is gone, for
\* good.  This is Mirroring(j)!Spec for every job, in the form TLC checks.
MirrorsOwner ==
  /\ \A j \in Jobs : Mirroring(j)!Init
  /\ [][\A j \in Jobs : [Mirroring(j)!Next]_(Mirroring(j)!vars)]_vars

\* The last event of a job is not going to arrive.
EventLost(j) ==
  \E e \in events :
    /\ e.job = j /\ e.place \in {"parked", "trimmed"} /\ ~e.applied
    /\ \A f \in events : f.job = j => f.stamp <= e.stamp

\* Neither the stream nor the sweep is bound to bring the last write: nothing
\* was sent of it or that was lost, and the sweep is past it.
Missed(j) ==
  /\ source[j].status \in Statuses
  /\ ~source[j].sent \/ EventLost(j)
  /\ j \in late \/ SnapshotOf(j) \in skipped

\* A batch of older live rows, all of them still there, is asked about again
\* and again.
Starved(j) ==
  Cardinality({i \in Jobs : /\ row[i].status \in Live /\ source[i].status \in Statuses
                            /\ row[i].stamp < row[j].stamp}) >= AbsenceBatch

Agrees(j) ==
  CASE source[j].status = "none" -> row[j].status = "none"
    [] source[j].status = "gone" -> row[j].status \notin Live
    [] source[j].status \in Terminal -> row[j].status = source[j].status
    [] OTHER -> row[j].status \in Terminal \cup {source[j].status}

\* Events may be parked or trimmed, the sweeper restarted and a sweep fail:
\* in the end the mirror shows of every job what its owner has, or that it is
\* gone, unless its event is lost and the sweep past it, or it is gone behind
\* a batch of older rows that are not.
Converges ==
  \A j \in Jobs : <>[](Agrees(j) \/ Missed(j) \/ (source[j].status = "gone" /\ Starved(j)))
=============================================================================
