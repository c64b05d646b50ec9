------------------------------- MODULE UsageRelay -------------------------------
(***************************************************************************)
(* How usage rows travel: the transactional outbox of provider-registry    *)
(* and its relay (internal/jobs/usage_relay.go, repo.go), the two Redis    *)
(* streams with their consumer groups, and the readers in usage-billing    *)
(* (internal/api/usage_consumer.go) and campaign-service                   *)
(* (app/events/spend_consumer.py).                                         *)
(*                                                                         *)
(* Postgres and Redis commit separately, so the relay delivers at least    *)
(* once and the readers count once.  A stream is the sequence of all its   *)
(* entries ever, of which a prefix is trimmed; a group is its last         *)
(* delivered entry and its pending entries, each owned by a consumer name. *)
(***************************************************************************)
EXTENDS Integers, Sequences, FiniteSets, SequencesExt

CONSTANTS
  Rows,             \* ids of usage_outbox rows, one for each ended job
  Tagged,           \* rows that carry a campaign_id
  Relays,           \* provider-registry replicas
  UsageReaders,     \* usage-billing replicas
  CampaignReaders,  \* campaign-service replicas
  Hosts,            \* names a campaign-service container may be given
  BatchSize,        \* USAGE_RELAY_BATCH
  ReadCount,        \* COUNT of XREADGROUP
  MaxLen,           \* *_STREAM_MAXLEN
  Faults,           \* what may go wrong in this instance
  MaxFaults         \* bound: faults in a behaviour

FaultKinds == {"abort", "write", "ack", "restart", "rename", "redis_at_start"}

ASSUME RowIds == Rows \subseteq Nat \ {0} /\ IsFiniteSet(Rows) /\ Tagged \subseteq Rows
ASSUME Sizes == {BatchSize, ReadCount, MaxLen} \subseteq Nat \ {0} /\ MaxFaults \in Nat
ASSUME FaultsAreKnown == Faults \subseteq FaultKinds

Streams == {"usage", "campaign"}
RowsOf(s) == IF s = "campaign" THEN Tagged ELSE Rows
ReadersOf(s) == IF s = "campaign" THEN CampaignReaders ELSE UsageReaders

VARIABLES
  outbox,      \* usage_outbox, by row id
  relay,       \* drainOnce of each replica: rows left to send, and sent
  stream,      \* the rows of all entries ever added, by stream
  trimmed,     \* how many of them are trimmed
  delivered,   \* the group's last delivered entry
  pending,     \* the group's pending entries: <<entry, consumer name>>
  reader,      \* the consumer loop of each replica, by stream
  host,        \* platform.node() of each campaign-service replica
  recorded,    \* usage_logs and campaign_usage_seen: how often each row counted
  faults

redis == <<stream, trimmed, delivered, pending>>
vars == <<outbox, relay, redis, reader, host, recorded, faults>>

-----------------------------------------------------------------------------

Gone == 0                                \* an entry read after it was trimmed
Item == [entry: Nat \ {0}, row: Rows \cup {Gone}]

\* The constant name every usage-billing replica uses.
UsageName == "usage-biller-1"
NameOf(s, c) == IF s = "usage" THEN UsageName ELSE host[c]

Batch == [todo: Seq(Rows), sent: SUBSET Rows, half: BOOLEAN]
Idle == [todo |-> <<>>, sent |-> {}, half |-> FALSE]
Reader == [pc: {"down", "starting", "running", "dead"}, todo: Seq(Item), wrote: BOOLEAN]
Down == [pc |-> "down", todo |-> <<>>, wrote |-> FALSE]

TypeOK ==
  /\ outbox \in [Rows -> {"absent", "waiting", "published", "purged"}]
  /\ relay \in [Relays -> Batch]
  /\ \A w \in Relays : ToSet(relay[w].todo) \cap relay[w].sent = {}
  /\ stream \in [Streams -> Seq(Rows)]
  /\ trimmed \in [Streams -> Nat] /\ delivered \in [Streams -> Nat]
  /\ pending \in [Streams -> SUBSET (Nat \X (Hosts \cup {UsageName}))]
  /\ DOMAIN reader = Streams
  /\ \A s \in Streams :
       /\ trimmed[s] <= Len(stream[s]) /\ delivered[s] <= Len(stream[s])
       /\ \A p \in pending[s] : p[1] \in 1 .. delivered[s]
       /\ reader[s] \in [ReadersOf(s) -> Reader]
  /\ host \in [CampaignReaders -> Hosts]
  /\ recorded \in [Streams -> [Rows -> Nat]]
  /\ faults \in 0 .. MaxFaults

\* A fault of the given kind happens in this step.
Fails(kind) == kind \in Faults /\ faults < MaxFaults /\ faults' = faults + 1

-----------------------------------------------------------------------------
(* The outbox.                                                             *)

\* insertUsageOutbox, in the transaction that ends the job.  Ids are drawn
\* before the commit, so rows become visible in any order.
Emit(r) ==
  /\ outbox[r] = "absent"
  /\ outbox' = [outbox EXCEPT ![r] = "waiting"]
  /\ UNCHANGED <<relay, redis, reader, host, recorded, faults>>

LockedBy(w) == ToSet(relay[w].todo) \cup relay[w].sent
Locked == UNION {LockedBy(w) : w \in Relays}

\* PurgePublishedOutbox: published rows past the retention window.
Purge(r) ==
  /\ outbox[r] = "published"
  /\ outbox' = [outbox EXCEPT ![r] = "purged"]
  /\ UNCHANGED <<relay, redis, reader, host, recorded, faults>>

-----------------------------------------------------------------------------
(* drainOnce.                                                              *)

\* Mutant: FOR UPDATE SKIP LOCKED is missing.
Selectable_Unlocked == {r \in Rows : outbox[r] = "waiting"}
Selectable == {r \in Rows : outbox[r] = "waiting"} \ Locked

\* ORDER BY id LIMIT n: the k-th is the one with k - 1 before it.
FirstById(S, n) ==
  [k \in 1 .. (IF Cardinality(S) < n THEN Cardinality(S) ELSE n) |->
     CHOOSE x \in S : Cardinality({y \in S : y < x}) = k - 1]

DrainBegin(w) ==
  /\ relay[w] = Idle
  /\ Selectable # {}
  /\ relay' = [relay EXCEPT ![w].todo = FirstById(Selectable, BatchSize)]
  /\ UNCHANGED <<outbox, redis, reader, host, recorded, faults>>

\* XADD with MAXLEN ~: Redis drops whole nodes, so a cut leaves at least
\* MaxLen entries and may leave more.
Added(s, r) ==
  /\ stream' = [stream EXCEPT ![s] = Append(@, r)]
  /\ \E cut \in trimmed[s] .. Len(stream[s]) + 1 :
       /\ cut # trimmed[s] => cut <= Len(stream[s]) + 1 - MaxLen
       /\ trimmed' = [trimmed EXCEPT ![s] = cut]
  /\ UNCHANGED <<delivered, pending>>

\* Mutant: the batch keeps the row it has just sent.
Marked_KeepHead(b) == [b EXCEPT !.sent = @ \cup {Head(b.todo)}, !.half = FALSE]
\* The head of the batch is sent and marked published in the transaction.
Marked(b) == [todo |-> Tail(b.todo), sent |-> b.sent \cup {Head(b.todo)}, half |-> FALSE]

SendUsage(w) ==
  LET b == relay[w] IN
  /\ b.todo # <<>> /\ ~b.half
  /\ Added("usage", Head(b.todo))
  /\ relay' = [relay EXCEPT ![w] =
       IF Head(b.todo) \in Tagged THEN [b EXCEPT !.half = TRUE] ELSE Marked(b)]
  /\ UNCHANGED <<outbox, reader, host, recorded, faults>>

SendCampaign(w) ==
  LET b == relay[w] IN
  /\ b.half
  /\ Added("campaign", Head(b.todo))
  /\ relay' = [relay EXCEPT ![w] = Marked(b)]
  /\ UNCHANGED <<outbox, reader, host, recorded, faults>>

\* The commit makes the whole batch published.
Commit(w) ==
  /\ relay[w].todo = <<>> /\ relay[w].sent # {}
  /\ outbox' = [r \in Rows |-> IF r \in relay[w].sent THEN "published" ELSE outbox[r]]
  /\ relay' = [relay EXCEPT ![w] = Idle]
  /\ UNCHANGED <<redis, reader, host, recorded, faults>>

\* Mutant: each row is marked published on its own, not in the transaction.
AfterAbort_Marked(w) == [r \in Rows |-> IF r \in LockedBy(w) THEN "published" ELSE outbox[r]]
AfterAbort(w) == outbox

\* An XADD fails, the DrainTimeout expires, the commit fails, or the replica
\* crashes: the transaction rolls back, and what Redis took stays there.
Abort(w) ==
  /\ relay[w] # Idle
  /\ Fails("abort")
  /\ outbox' = AfterAbort(w)
  /\ relay' = [relay EXCEPT ![w] = Idle]
  /\ UNCHANGED <<redis, reader, host, recorded>>

-----------------------------------------------------------------------------
(* The consumer loops.                                                     *)

PendingOf(s, name) == {p[1] : p \in {q \in pending[s] : q[2] = name}}

\* XREADGROUP of the entries up to a count; a trimmed one has no fields.
ItemOf(s, i) == [entry |-> i, row |-> IF i <= trimmed[s] THEN Gone ELSE stream[s][i]]
Items(s, S) == LET q == FirstById(S, ReadCount) IN [k \in 1 .. Len(q) |-> ItemOf(s, q[k])]

\* Mutant: the loop only ever reads new entries.
PendingRead_None(s, c) == <<>>
\* XREADGROUP 0: this name's pending entries, a single pass.
PendingRead(s, c) == Items(s, PendingOf(s, NameOf(s, c)))

SetReader(s, c, v) == reader' = [reader EXCEPT ![s][c] = v]

\* run: the group exists, and what an earlier run left pending comes first.
Start(s, c) ==
  /\ reader[s][c].pc = "down"
  /\ SetReader(s, c, [pc |-> "starting", todo |-> PendingRead(s, c), wrote |-> FALSE])
  /\ UNCHANGED <<outbox, relay, redis, host, recorded, faults>>

\* Redis is away when the loop starts: the Go loop logs the error and goes on,
\* the Python task ends, and nothing starts it again.
StartFails(s, c) ==
  /\ reader[s][c].pc = "down"
  /\ "redis_at_start" \in Faults
  /\ SetReader(s, c, [Down EXCEPT !.pc = IF s = "usage" THEN "starting" ELSE "dead"])
  /\ UNCHANGED <<outbox, relay, redis, host, recorded, faults>>

Ready(s, c) == reader[s][c].pc \in {"starting", "running"} /\ reader[s][c].todo = <<>>

\* The entries behind the last delivered one that are still in the stream.
Undelivered(s) == {i \in 1 .. Len(stream[s]) : i > delivered[s] /\ i > trimmed[s]}

\* XREADGROUP >.
Read(s, c) ==
  LET items == Items(s, Undelivered(s))
      entries == {items[k].entry : k \in DOMAIN items}
  IN
  /\ Ready(s, c)
  /\ items # <<>>
  /\ delivered' = [delivered EXCEPT ![s] = Last(items).entry]
  /\ pending' = [pending EXCEPT ![s] = @ \cup (entries \X {NameOf(s, c)})]
  /\ SetReader(s, c, [pc |-> "running", todo |-> items, wrote |-> FALSE])
  /\ UNCHANGED <<outbox, relay, stream, trimmed, host, recorded, faults>>

\* drainPending, when the blocking read came back empty.
DrainPending(s, c) ==
  /\ Ready(s, c)
  /\ Undelivered(s) = {}
  /\ PendingRead(s, c) # <<>>
  /\ SetReader(s, c, [pc |-> "running", todo |-> PendingRead(s, c), wrote |-> FALSE])
  /\ UNCHANGED <<outbox, relay, redis, host, recorded, faults>>

Handling(s, c) == reader[s][c].todo # <<>>
Current(s, c) == Head(reader[s][c].todo)

\* Mutant: the insert has no ON CONFLICT (request_id) DO NOTHING.
Counted_Again(n) == n + 1
\* The insert is keyed by request_id: a second one changes nothing.
Counted(n) == IF n = 0 THEN 1 ELSE n

\* writeUsageLog / accumulate_and_maybe_pause, one transaction.
Write(s, c) ==
  /\ Handling(s, c) /\ ~reader[s][c].wrote /\ Current(s, c).row # Gone
  /\ recorded' = [recorded EXCEPT ![s][Current(s, c).row] = Counted(@)]
  /\ SetReader(s, c, [reader[s][c] EXCEPT !.wrote = TRUE])
  /\ UNCHANGED <<outbox, relay, redis, host, faults>>

\* An entry is acked once written, or when it cannot be parsed.
Ackable(s, c) == reader[s][c].wrote \/ Current(s, c).row = Gone

\* The next message of the batch.
Onward(r) == [r EXCEPT !.todo = Tail(@), !.wrote = FALSE]

Ack(s, c) ==
  /\ Handling(s, c) /\ Ackable(s, c)
  /\ pending' = [pending EXCEPT ![s] = {p \in @ : p[1] # Current(s, c).entry}]
  /\ SetReader(s, c, Onward(reader[s][c]))
  /\ UNCHANGED <<outbox, relay, stream, trimmed, delivered, host, recorded, faults>>

\* XACK fails.  The Go loop logs it; in Python the exception leaves the batch,
\* and on the start-up drain it leaves run() itself.
AckFails(s, c) ==
  LET r == reader[s][c] IN
  /\ Handling(s, c) /\ Ackable(s, c)
  /\ Fails("ack")
  /\ SetReader(s, c,
       IF s = "usage" THEN Onward(r)
       ELSE [Down EXCEPT !.pc = IF r.pc = "starting" THEN "dead" ELSE "running"])
  /\ UNCHANGED <<outbox, relay, redis, host, recorded>>

\* Mutant: a transient failure is acked.
AfterFailure_Acked(s, c) == {p \in pending[s] : p[1] # Current(s, c).entry}
AfterFailure(s, c) == pending[s]

\* The transaction fails for a passing reason, or its commit is not confirmed:
\* the entry stays pending.
WriteFails(s, c, written) ==
  /\ Handling(s, c) /\ ~reader[s][c].wrote /\ Current(s, c).row # Gone
  /\ Fails("write")
  /\ recorded' = IF written
                 THEN [recorded EXCEPT ![s][Current(s, c).row] = Counted(@)]
                 ELSE recorded
  /\ pending' = [pending EXCEPT ![s] = AfterFailure(s, c)]
  /\ SetReader(s, c, Onward(reader[s][c]))
  /\ UNCHANGED <<outbox, relay, stream, trimmed, delivered, host>>

\* A replica crashes and starts again; a container that was created anew has
\* another host name.
Restart(s, c) ==
  /\ Fails("restart")
  /\ reader[s][c].pc # "down"
  /\ SetReader(s, c, Down)
  /\ \/ UNCHANGED host
     \/ /\ s = "campaign" /\ "rename" \in Faults
        /\ \E h \in Hosts \ {host[d] : d \in CampaignReaders} : host' = [host EXCEPT ![c] = h]
  /\ UNCHANGED <<outbox, relay, redis, recorded>>

-----------------------------------------------------------------------------

\* The loops have started, on empty streams.
Init ==
  /\ outbox = [r \in Rows |-> "absent"]
  /\ relay = [w \in Relays |-> Idle]
  /\ stream = [s \in Streams |-> <<>>]
  /\ trimmed = [s \in Streams |-> 0]
  /\ delivered = [s \in Streams |-> 0]
  /\ pending = [s \in Streams |-> {}]
  /\ reader = [s \in Streams |-> [c \in ReadersOf(s) |-> [Down EXCEPT !.pc = "running"]]]
  /\ host \in {h \in [CampaignReaders -> Hosts] : IsInjective(h)}
  /\ recorded = [s \in Streams |-> [r \in Rows |-> 0]]
  /\ faults = 0

RelayStep(w) == DrainBegin(w) \/ SendUsage(w) \/ SendCampaign(w) \/ Commit(w)
ReaderStep(s, c) == Start(s, c) \/ Read(s, c) \/ DrainPending(s, c) \/ Write(s, c) \/ Ack(s, c)
ReaderFault(s, c) ==
  \/ StartFails(s, c) \/ AckFails(s, c) \/ Restart(s, c)
  \/ \E written \in BOOLEAN : WriteFails(s, c, written)

Next ==
  \/ \E r \in Rows : Emit(r) \/ Purge(r)
  \/ \E w \in Relays : RelayStep(w) \/ Abort(w)
  \/ \E s \in Streams : \E c \in ReadersOf(s) : ReaderStep(s, c) \/ ReaderFault(s, c)

\* The relays tick, the broker delivers and the loops run.  No job has to end,
\* nothing has to be purged and no fault has to happen.
Fairness ==
  /\ \A w \in Relays : WF_vars(RelayStep(w))
  /\ \A s \in Streams : \A c \in ReadersOf(s) : WF_vars(ReaderStep(s, c))

Spec == Init /\ [][Next]_vars /\ Fairness
-----------------------------------------------------------------------------
(* Properties.                                                             *)

\* Some part of the system still holds the row for this service: the outbox,
\* an entry not yet delivered or still pending, or a reader's batch.
InHand(s, r) ==
  \E c \in ReadersOf(s) : \E k \in DOMAIN reader[s][c].todo : reader[s][c].todo[k].row = r
HasCopy(s, r) ==
  \/ outbox[r] = "waiting"
  \/ InHand(s, r)
  \/ \E i \in trimmed[s] + 1 .. Len(stream[s]) :
       /\ stream[s][i] = r
       /\ i > delivered[s] \/ \E p \in pending[s] : p[1] = i

\* A row on its way to a service, as a pair; lost when nothing holds it any more.
Copies == {e \in Streams \X Rows : e[2] \in RowsOf(e[1])}
Lost(s, r) == outbox[r] # "absent" /\ recorded[s][r] = 0 /\ ~HasCopy(s, r)

\* The abstract delivery.
Delivery ==
  INSTANCE UsageDelivery WITH
    emitted <- {r \in Rows : outbox[r] # "absent"},
    counted <- [e \in Copies |-> recorded[e[1]][e[2]]],
    lost <- {e \in Copies : Lost(e[1], e[2])}

\* Whatever is sent twice, delivered twice or processed by two replicas at
\* once, each service counts a row once, and a row it lost never comes back.
DeliversOnce == Delivery!Spec

\* The money cap and the audit may miss a row only because Redis trimmed its
\* entry: no abort, crash, failed write, failed ack or purge loses one.
LostOnlyByTrimming ==
  \A s \in Streams : \A r \in RowsOf(s) :
    Lost(s, r) => \E i \in 1 .. trimmed[s] : stream[s][i] = r

\* "No double-publish in the normal case": the replicas' batches are disjoint, so
\* only an aborted one makes a row enter a stream again.
DoublesNeedAborts ==
  \A s \in Streams : \A r \in Rows :
    Cardinality({i \in DOMAIN stream[s] : stream[s][i] = r}) <= 1 + faults

\* "XAck only after the durable write": an entry that left the pending list was
\* counted, unless it was trimmed.
AckedIsCounted ==
  \A s \in Streams : \A i \in trimmed[s] + 1 .. delivered[s] :
    (\A p \in pending[s] : p[1] # i) => recorded[s][stream[s][i]] = 1

\* Every emitted row is in the end counted by each service, or trimmed away.
Delivers == Delivery!EveryCopyEnds
=============================================================================
