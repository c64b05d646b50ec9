--------------------------- MODULE JobMirror_proofs ---------------------------
(***************************************************************************)
(* What is proved of JobMirror for every set of jobs, page size and number *)
(* of retries.  A step moves a mirrored row in one of three ways           *)
(* (RowMove), none of which takes it back (Onward); the rest follows the   *)
(* events and the sweep.                                                   *)
(***************************************************************************)
EXTENDS JobMirror, TLAPS, FiniteSetTheorems

-----------------------------------------------------------------------------
(* Types                                                                   *)

LEMMA StatusFacts ==
  /\ Live \cap Terminal = {}
  /\ Live \subseteq Statuses /\ Terminal \subseteq Statuses
  /\ "none" \notin Statuses /\ "gone" \notin Statuses
  /\ "failed" \in Terminal
BY DEF Live, Terminal, Statuses

\* What the statement writes is a status of the contract.
LEMMA OutcomeType == ASSUME NEW w \in Writes PROVE Outcome(w) \in Statuses
BY DEF Outcome, Writes, Statuses, Live, Terminal

LEMMA UpsertedType ==
  ASSUME row \in [Jobs -> Mirrored], NEW s, s.job \in Jobs, s.status \in Statuses, s.stamp \in Stamp
  PROVE  Upserted(s) \in [Jobs -> Mirrored]
BY DEF Upserted, Mirrored

LEMMA EventFields ==
  ASSUME NEW e \in Event
  PROVE  e.job \in Jobs /\ e.status \in Statuses /\ e.stamp \in Stamp
BY DEF Event

LEMMA MovedType ==
  ASSUME NEW e \in Event, NEW place \in {"transit", "acked", "parked", "trimmed"}, NEW n \in Nat,
         NEW b \in BOOLEAN
  PROVE  Moved(e, place, n, b) \in Event
BY DEF Event, Moved

LEMMA EmittedType ==
  ASSUME NEW x \in Txn, clock \in Stamp PROVE Emitted(x) \in Event
<1>1. x.job \in Jobs /\ Outcome(x.write) \in Statuses
  BY OutcomeType DEF Txn
<1> QED
  BY <1>1 DEF Emitted, Event

LEMMA SinceType ==
  ASSUME source \in [Jobs -> Row], NEW w PROVE Since(w) \subseteq Snapshot
BY DEF Since, SnapshotOf, Snapshot, Row

LEMMA PassedType ==
  ASSUME source \in [Jobs -> Row], NEW from, NEW to PROVE Passed(from, to) \subseteq Snapshot
BY SinceType DEF Passed

LEMMA PageType ==
  ASSUME source \in [Jobs -> Row], NEW w, NEW page \in Pages(w)
  PROVE  page \subseteq Snapshot
BY SinceType DEF Pages

LEMMA SweepMoves ==
  ASSUME NEW t \in Sweep, NEW pc \in {"idle", "ask", "apply", "list", "verify", "mark"},
         NEW n \in Stamp, NEW R \in SUBSET Snapshot, NEW J \in SUBSET Jobs
  PROVE  /\ NoSweep \in Sweep
         /\ [NoSweep EXCEPT !.pc = pc] \in Sweep
         /\ [NoSweep EXCEPT !.pc = pc, !.start = n] \in Sweep
         /\ [t EXCEPT !.pc = pc, !.rows = R, !.next = n] \in Sweep
         /\ [t EXCEPT !.rows = R] \in Sweep
         /\ [t EXCEPT !.ids = J] \in Sweep
         /\ [t EXCEPT !.pc = pc, !.ids = J] \in Sweep
BY DEF Sweep, NoSweep, Stamp

\* What the two fields changed by Verify are after it.
LEMMA VerifyMoves ==
  ASSUME sweep \in Sweep, Verify
  PROVE  \/ sweep' = NoSweep
         \/ /\ sweep'.pc = "mark" /\ sweep'.rows = sweep.rows
            /\ sweep'.ids = {j \in sweep.ids : source[j].status \notin Statuses}
<1>1. ASSUME NEW J PROVE
        LET t == [sweep EXCEPT !.pc = "mark", !.ids = J]
        IN  t.pc = "mark" /\ t.rows = sweep.rows /\ t.ids = J
  BY DEF Sweep
<1>2. \/ sweep' = NoSweep
      \/ sweep' = [sweep EXCEPT !.pc = "mark",
                               !.ids = {j \in sweep.ids : source[j].status \notin Statuses}]
  BY DEF Verify
<1> QED
  BY <1>1, <1>2

LEMMA SweptType == Swept \in Sweep
BY DEF Swept, Sweep, NoSweep, Stamp

LEMMA TypeInit == Init => TypeOK
<1> SUFFICES ASSUME Init PROVE TypeOK
  OBVIOUS
<1>1. setup \in Setups /\ setup.old \subseteq Jobs /\ setup.faults \subseteq FaultKinds
  BY SetupsAreJobs DEF Init
<1>2. Cardinality(setup.old) \in Nat
  BY <1>1, JobsAreFinite, FS_Subset, FS_CardinalityType
<1>3. clock \in Stamp
  BY <1>2 DEF Init, Stamp
<1>4. source \in [Jobs -> Row]
  <2>1. PICK at \in [setup.old -> 1..Cardinality(setup.old)] :
          source = [j \in Jobs |->
            IF j \in setup.old THEN [status |-> "running", stamp |-> at[j], sent |-> FALSE]
            ELSE [status |-> "none", stamp |-> 0, sent |-> FALSE]]
    BY DEF Init
  <2>2. \A j \in setup.old : at[j] \in Stamp
    BY <1>2 DEF Stamp
  <2> QED
    BY <2>1, <2>2 DEF Row, Statuses, Live, Terminal, Stamp
<1>5. row \in [Jobs -> Mirrored]
  BY DEF Init, Mirrored, Stamp
<1>6. sweep \in Sweep
  BY DEF Init, Sweep, NoSweep, Stamp
<1>7. worker \in [Jobs -> {"idle", "read", "work"}]
  BY DEF Init
<1>8. watermark \in Stamp /\ skipped \subseteq Snapshot
  BY <1>4, PassedType DEF Init, Stamp
<1> QED
  BY <1>1, <1>3, <1>4, <1>5, <1>6, <1>7, <1>8 DEF Init, TypeOK, Stamp

LEMMA TypeNext == TypeOK /\ [Next]_vars => TypeOK'
<1> SUFFICES ASSUME TypeOK, [Next]_vars PROVE TypeOK'
  OBVIOUS
<1> USE DEF TypeOK
<1>1. ASSUME NEW j \in Jobs, Read(j) PROVE TypeOK'
  BY <1>1 DEF Read, mirror
<1>2. ASSUME NEW j \in Jobs, Delete(j) PROVE TypeOK'
  BY <1>2 DEF Delete, mirror, Row, Stamp
<1>3. ASSUME NEW j \in Jobs, NEW w \in Writes, Begin(j, w) PROVE TypeOK'
  BY <1>3 DEF Begin, mirror, Txn, Stamp
<1>4. ASSUME NEW x \in open, Commit(x) PROVE TypeOK'
  <2>1. x.job \in Jobs /\ x.write \in Writes /\ x.stamp \in Stamp
    BY DEF Txn
  <2>2. Outcome(x.write) \in Statuses
    BY <2>1, OutcomeType
  <2>3. open' \subseteq Txn /\ clock' \in Stamp /\ late' \subseteq Jobs
    BY <1>4, <2>1 DEF Commit, Stamp
  <2>4. worker' \in [Jobs -> {"idle", "read", "work"}]
    BY <1>4, <2>1 DEF Commit, After
  <2>5. source' \in [Jobs -> Row]
    <3>1. Emits(x.write) \in BOOLEAN
      BY DEF Emits
    <3> QED
      BY <1>4, <2>1, <2>2, <3>1 DEF Commit, Row
  <2>6. events' \subseteq Event
    BY <1>4, EmittedType DEF Commit
  <2> QED
    BY <1>4, <2>3, <2>4, <2>5, <2>6 DEF Commit, mirror
<1>5. ASSUME NEW x \in open, Abort(x) PROVE TypeOK'
  BY <1>5 DEF Abort, Fault, mirror
<1>6. ASSUME NEW e \in events, PublishAgain(e) \/ Trim(e) PROVE TypeOK'
  <2>1. e \in Event /\ e.tries \in Nat /\ e.applied \in BOOLEAN
    BY DEF Event
  <2>2. events' \subseteq Event
    BY <1>6, <2>1, MovedType DEF PublishAgain, Trim, Becomes
  <2> QED
    BY <1>6, <2>2 DEF PublishAgain, Trim, Fault, owner, mirror
<1>7. ASSUME NEW e \in events, Handle(e) \/ HandleUnacked(e) PROVE TypeOK'
  <2>1. e \in Event /\ e.tries \in Nat
    BY DEF Event
  <2>2. events' \subseteq Event
    <3>1. Moved(e, "acked", e.tries, TRUE) \in Event /\ Moved(e, "transit", e.tries, TRUE) \in Event
      BY <2>1, MovedType
    <3> QED
      BY <1>7, <3>1 DEF Handle, HandleUnacked, Becomes
  <2>3. row' \in [Jobs -> Mirrored]
    BY <1>7, EventFields, UpsertedType DEF Handle, HandleUnacked
  <2> QED
    BY <1>7, <2>2, <2>3 DEF Handle, HandleUnacked, Fault, owner
<1>8. ASSUME NEW e \in events, HandleFails(e) PROVE TypeOK'
  <2>1. e \in Event /\ e.tries + 1 \in Nat /\ e.applied \in BOOLEAN
    BY DEF Event
  <2>2. events' \subseteq Event
    BY <1>8, <2>1, MovedType DEF HandleFails, Becomes
  <2> QED
    BY <1>8, <2>2 DEF HandleFails, owner, mirror
<1>9. CASE StartSweep
  BY <1>9, SweepMoves DEF StartSweep, owner
<1>10. CASE Fetch
  <2>0. PICK page \in Pages(watermark) :
          \E w \in NextWatermark(page) :
            sweep' = [sweep EXCEPT !.pc = "apply", !.rows = page, !.next = w]
    BY <1>10 DEF Fetch
  <2>1. PICK w \in NextWatermark(page) :
          sweep' = [sweep EXCEPT !.pc = "apply", !.rows = page, !.next = w]
    BY <2>0
  <2>2. page \subseteq Snapshot
    BY <2>1, PageType
  <2>3. w \in Stamp
    BY <2>1, <2>2 DEF NextWatermark, Snapshot, Sweep
  <2>4. sweep' \in Sweep
    BY <2>1, <2>2, <2>3, SweepMoves
  <2> QED
    BY <1>10, <2>4 DEF Fetch, owner
<1>11. CASE ApplyRow
  <2>1. PICK s \in sweep.rows : row' = Upserted(s) /\ sweep' = [sweep EXCEPT !.rows = @ \ {s}]
    BY <1>11 DEF ApplyRow
  <2>2. sweep.rows \subseteq Snapshot
    BY DEF Sweep
  <2>3. row' \in [Jobs -> Mirrored]
    BY <2>1, <2>2, UpsertedType DEF Snapshot
  <2>4. sweep' \in Sweep
    <3>1. sweep.rows \ {s} \in SUBSET Snapshot
      BY <2>2
    <3> QED
      BY <2>1, <3>1, SweepMoves
  <2> QED
    BY <1>11, <2>3, <2>4 DEF ApplyRow, owner
<1>12. CASE Advance
  BY <1>12, SweptType DEF Advance, owner, Sweep
<1>13. CASE SweepFails
  BY <1>13, SweptType DEF SweepFails, Fault, owner
<1>14. CASE RestartSweeper
  <2>1. NoSweep \in Sweep
    BY DEF NoSweep, Sweep, Stamp
  <2>2. watermark' \in Stamp
    BY <1>14 DEF RestartSweeper, Stamp
  <2>3. skipped' \subseteq Snapshot
    BY <1>14, PassedType DEF RestartSweeper
  <2> QED
    BY <1>14, <2>1, <2>2, <2>3 DEF RestartSweeper, Fault, owner
<1>15. CASE ListLive
  <2>1. Oldest({j \in Jobs : Untouched(j)}) \in SUBSET Jobs
    BY DEF Oldest
  <2> QED
    BY <1>15, <2>1, SweepMoves DEF ListLive, owner
<1>16. CASE Verify
  <2>1. {j \in sweep.ids : source[j].status \notin Statuses} \in SUBSET Jobs
    BY DEF Sweep
  <2>2. [sweep EXCEPT !.pc = "mark", !.ids = {j \in @ : source[j].status \notin Statuses}] \in Sweep
    BY <2>1, SweepMoves
  <2>3. sweep' \in Sweep
    BY <1>16, <2>2, SweepMoves DEF Verify
  <2> QED
    BY <1>16, <2>3 DEF Verify, Fault, owner
<1>17. ASSUME NEW j \in Jobs, MarkLost(j) PROVE TypeOK'
  <2>1. sweep.ids \ {j} \in SUBSET Jobs
    BY DEF Sweep
  <2>2. sweep' \in Sweep
    BY <1>17, <2>1, SweepMoves DEF MarkLost
  <2>3. row' \in [Jobs -> Mirrored] /\ clock' \in Stamp
    <3>1. [status |-> "failed", stamp |-> clock, lost |-> TRUE] \in Mirrored
      BY DEF Mirrored, Statuses, Terminal
    <3>2. clock + 1 \in Stamp
      BY DEF Stamp
    <3> QED
      BY <1>17, <3>1, <3>2 DEF MarkLost
  <2> QED
    BY <1>17, <2>2, <2>3 DEF MarkLost, owner
<1>18. CASE EndVerify
  BY <1>18, SweepMoves DEF EndVerify, owner
<1>19. CASE UNCHANGED vars
  BY <1>19 DEF vars, owner, mirror
<1> QED
  BY <1>1, <1>2, <1>3, <1>4, <1>5, <1>6, <1>7, <1>8, <1>9, <1>10, <1>11, <1>12, <1>13, <1>14,
     <1>15, <1>16, <1>17, <1>18, <1>19 DEF Next, SweepStep

\* Every variable keeps its type in every behaviour, the sets of Setups being
\* arbitrary.
THEOREM MirrorTypes == Spec => []TypeOK
BY TypeInit, TypeNext, PTL DEF Spec

-----------------------------------------------------------------------------
(* A mirrored row only moves on                                            *)

RowMove(j) ==
  \/ row'[j] = row[j]
  \/ \E status \in Statuses, stamp \in Stamp :
       /\ Accepts(row[j], status, stamp)
       /\ row'[j] = [status |-> status, stamp |-> stamp, lost |-> FALSE]
  \/ row[j].status \in Live /\ row'[j] = [status |-> "failed", stamp |-> clock, lost |-> TRUE]

\* An upsert leaves the row at least as far as what it was given.
LEMMA UpsertReaches ==
  ASSUME row \in [Jobs -> Mirrored], NEW s, s.job \in Jobs, s.status \in Statuses, s.stamp \in Stamp
  PROVE  NotBehind(Upserted(s)[s.job], s)
<1>1. row[s.job].status \in Statuses \cup {"none"} /\ row[s.job].stamp \in Nat
  BY DEF Mirrored, Stamp
<1>2. CASE Accepts(row[s.job], s.status, s.stamp)
  <2>1. Upserted(s)[s.job] = [status |-> s.status, stamp |-> s.stamp, lost |-> FALSE]
    BY <1>2 DEF Upserted
  <2> QED
    BY <2>1, StatusFacts DEF NotBehind, Statuses, Stamp
<1>3. CASE ~Accepts(row[s.job], s.status, s.stamp)
  <2>1. Upserted(s)[s.job] = row[s.job]
    BY <1>3 DEF Upserted
  <2>2. CASE s.status \in Terminal
    BY <1>1, <1>3, <2>1, <2>2 DEF Accepts, NotBehind, Stamp
  <2>3. CASE s.status \notin Terminal
    BY <1>1, <1>3, <2>1, <2>3 DEF Accepts, NotBehind, Stamp, Statuses
  <2> QED
    BY <2>2, <2>3
<1> QED
  BY <1>2, <1>3

LEMMA UpsertMove ==
  ASSUME row \in [Jobs -> Mirrored], NEW s, s.job \in Jobs, s.status \in Statuses,
         s.stamp \in Stamp, row' = Upserted(s), NEW j \in Jobs
  PROVE  RowMove(j)
<1>1. CASE j = s.job /\ Accepts(row[j], s.status, s.stamp)
  <2>1. row'[j] = [status |-> s.status, stamp |-> s.stamp, lost |-> FALSE]
    BY <1>1 DEF Upserted
  <2> QED
    BY <1>1, <2>1 DEF RowMove
<1>2. CASE ~(j = s.job /\ Accepts(row[j], s.status, s.stamp))
  <2>1. row'[j] = row[j]
    BY <1>2 DEF Upserted
  <2> QED
    BY <2>1 DEF RowMove
<1> QED
  BY <1>1, <1>2

\* Steps that do not write the mirror.
RowKept == row' = row

LEMMA OtherSteps ==
  ASSUME TypeOK,
         \/ \E j \in Jobs : Read(j) \/ Delete(j) \/ \E w \in Writes : Begin(j, w)
         \/ \E x \in open : Commit(x) \/ Abort(x)
         \/ \E e \in events : PublishAgain(e) \/ Trim(e) \/ HandleFails(e)
         \/ StartSweep \/ Fetch \/ Advance \/ SweepFails \/ RestartSweeper \/ ListLive
         \/ Verify \/ EndVerify \/ UNCHANGED vars
  PROVE  RowKept
BY DEF RowKept, Read, Delete, Begin, Commit, Abort, PublishAgain, Trim, HandleFails, StartSweep,
       Fetch, Advance, SweepFails, RestartSweeper, ListLive, Verify, EndVerify, vars, mirror

\* Every step of the system moves every row of the mirror in one of the ways.
LEMMA RowSteps == ASSUME TypeOK, [Next]_vars, NEW j \in Jobs PROVE RowMove(j)
<1>1. row \in [Jobs -> Mirrored]
  BY DEF TypeOK
<1>2. ASSUME RowKept PROVE RowMove(j)
  BY <1>2 DEF RowKept, RowMove
<1>3. ASSUME NEW e \in events, Handle(e) \/ HandleUnacked(e) PROVE RowMove(j)
  <2>1. e \in Event /\ row' = Upserted(e)
    BY <1>3 DEF Handle, HandleUnacked, TypeOK
  <2> QED
    BY <1>1, <2>1, EventFields, UpsertMove
<1>4. CASE ApplyRow
  <2>1. PICK s \in sweep.rows : row' = Upserted(s)
    BY <1>4 DEF ApplyRow
  <2>2. s \in Snapshot
    BY <2>1 DEF TypeOK, Sweep
  <2> QED
    BY <1>1, <2>1, <2>2, UpsertMove DEF Snapshot
<1>5. ASSUME NEW i \in Jobs, MarkLost(i) PROVE RowMove(j)
  <2>1. CASE row[i].status \in Live /\ i = j
    BY <1>1, <1>5, <2>1 DEF MarkLost, RowMove
  <2>2. CASE ~(row[i].status \in Live /\ i = j)
    <3>1. row'[j] = row[j]
      BY <1>1, <1>5, <2>2 DEF MarkLost
    <3> QED
      BY <3>1 DEF RowMove
  <2> QED
    BY <2>1, <2>2
<1> QED
  BY <1>2, <1>3, <1>4, <1>5, OtherSteps DEF Next, SweepStep

LEMMA Onward ==
  ASSUME row \in [Jobs -> Mirrored], NEW j \in Jobs, RowMove(j),
         NEW x, x.status \in Statuses, x.stamp \in Stamp, NotBehind(row[j], x)
  PROVE  NotBehind(row'[j], x)
<1>1. row[j].status \in Statuses \cup {"none"} /\ row[j].stamp \in Nat
  BY DEF Mirrored, Stamp
<1>2. CASE row'[j] = row[j]
  BY <1>2
<1>3. ASSUME NEW status \in Statuses, NEW stamp \in Stamp, Accepts(row[j], status, stamp),
             row'[j] = [status |-> status, stamp |-> stamp, lost |-> FALSE]
      PROVE  NotBehind(row'[j], x)
  <2>1. row'[j].status = status /\ row'[j].stamp = stamp /\ stamp \in Nat /\ x.stamp \in Nat
    BY <1>3 DEF Stamp
  <2>2. CASE x.status \in Terminal
    BY <1>1, <1>3, <2>1, <2>2, StatusFacts DEF NotBehind, Accepts
  <2>3. CASE x.status \notin Terminal
    BY <1>1, <1>3, <2>1, <2>3, StatusFacts DEF NotBehind, Accepts, Statuses
  <2> QED
    BY <2>2, <2>3
<1>4. CASE row[j].status \in Live /\ row'[j] = [status |-> "failed", stamp |-> clock, lost |-> TRUE]
  BY <1>4, StatusFacts DEF NotBehind
<1> QED
  BY <1>2, <1>3, <1>4 DEF RowMove

-----------------------------------------------------------------------------
(* What an event once said                                                 *)

Same(e, f) == e.job = f.job /\ e.status = f.status /\ e.stamp = f.stamp

\* An event marked as projected was so before, or has just been.
LEMMA AppliedEvents ==
  ASSUME TypeOK, [Next]_vars, NEW f \in events', f.applied
  PROVE  \/ \E e \in events : e.applied /\ Same(e, f)
         \/ \E e \in events : row' = Upserted(e) /\ Same(e, f)
<1> DEFINE Goal == \/ \E e \in events : e.applied /\ Same(e, f)
                   \/ \E e \in events : row' = Upserted(e) /\ Same(e, f)
<1>1. CASE f \in events
  BY <1>1 DEF Same
<1>2. ASSUME f \notin events, NEW x \in open, Commit(x) PROVE Goal
  BY <1>2 DEF Commit, Emitted
<1>3. ASSUME f \notin events, NEW e \in events, PublishAgain(e) \/ Trim(e) \/ HandleFails(e) PROVE Goal
  <2>1. PICK place, n : f = Moved(e, place, n, e.applied)
    BY <1>3 DEF PublishAgain, Trim, HandleFails, Becomes
  <2>2. Same(e, f)
    BY <2>1 DEF Moved, Same
  <2>3. f.applied = e.applied
    BY <2>1, Zenon DEF Moved
  <2> QED
    BY <2>2, <2>3
<1>4. ASSUME f \notin events, NEW e \in events, Handle(e) \/ HandleUnacked(e) PROVE Goal
  <2>1. PICK place, n : f = Moved(e, place, n, TRUE)
    BY <1>4 DEF Handle, HandleUnacked, Becomes
  <2>2. Same(e, f)
    BY <2>1 DEF Moved, Same
  <2>3. row' = Upserted(e)
    BY <1>4 DEF Handle, HandleUnacked
  <2> QED
    BY <2>2, <2>3
<1>5. CASE events' = events
  BY <1>1, <1>5
<1>6. \/ events' = events
      \/ \E x \in open : Commit(x)
      \/ \E e \in events : PublishAgain(e) \/ Trim(e) \/ HandleFails(e) \/ Handle(e) \/ HandleUnacked(e)
  BY DEF Next, SweepStep, vars, Read, Delete, Begin, Abort, StartSweep, Fetch, ApplyRow, Advance,
         SweepFails, RestartSweeper, ListLive, Verify, MarkLost, EndVerify
<1> QED
  BY <1>1, <1>2, <1>3, <1>4, <1>5, <1>6

LEMMA ProjectedNext == TypeOK /\ ProjectedIsKept /\ [Next]_vars => ProjectedIsKept'
<1> SUFFICES ASSUME TypeOK, ProjectedIsKept, [Next]_vars, NEW f \in events', f.applied
             PROVE  NotBehind(row'[f.job], f)
  BY DEF ProjectedIsKept, NotBehind
<1>0. row \in [Jobs -> Mirrored]
  BY DEF TypeOK
<1>1. ASSUME NEW e \in events, e.applied, Same(e, f) PROVE NotBehind(row'[f.job], f)
  <2>1. e.job \in Jobs /\ e.status \in Statuses /\ e.stamp \in Stamp
    BY EventFields DEF TypeOK
  <2>2. NotBehind(row[e.job], e)
    BY <1>1 DEF ProjectedIsKept
  <2>3. NotBehind(row'[e.job], e)
    BY <1>0, <2>1, <2>2, RowSteps, Onward
  <2> QED
    BY <1>1, <2>3 DEF NotBehind, Same
<1>2. ASSUME NEW e \in events, row' = Upserted(e), Same(e, f) PROVE NotBehind(row'[f.job], f)
  <2>1. e.job \in Jobs /\ e.status \in Statuses /\ e.stamp \in Stamp
    BY EventFields DEF TypeOK
  <2>2. NotBehind(row'[e.job], e)
    BY <1>0, <1>2, <2>1, UpsertReaches
  <2> QED
    BY <1>2, <2>2 DEF NotBehind, Same
<1> QED
  BY <1>1, <1>2, AppliedEvents

\* What an event that was projected once said is never forgotten.
THEOREM ProjectionIsMonotonic == Spec => []ProjectedIsKept
<1>1. Init => ProjectedIsKept
  BY DEF Init, ProjectedIsKept
<1> QED
  BY <1>1, ProjectedNext, TypeInit, TypeNext, PTL DEF Spec

-----------------------------------------------------------------------------
(* What the watermark has passed                                           *)

\* The mirror has every change of j up to w, or is about to get it, or a new
\* sweeper has started beyond it.
Reached(j, w, rows) ==
  source[j].status \in Statuses /\ source[j].stamp < w =>
    NotBehind(row[j], SnapshotOf(j)) \/ SnapshotOf(j) \in rows \cup skipped

ClockInv ==
  /\ \A j \in Jobs : source[j].stamp <= clock
  /\ \A x \in open : x.stamp <= clock
  /\ watermark <= clock
  /\ sweep.pc = "ask" => sweep.start <= clock
  /\ sweep.pc = "apply" => sweep.next <= clock

SweptInv ==
  /\ \A j \in Jobs \ late : Reached(j, watermark, {})
  /\ sweep.pc = "ask" => watermark <= sweep.start
  /\ sweep.pc = "apply" => watermark <= sweep.next
  /\ sweep.pc = "apply" => \A j \in Jobs \ late : Reached(j, sweep.next, sweep.rows)

LEMMA ClockNext == TypeOK /\ ClockInv /\ [Next]_vars => ClockInv'
<1> SUFFICES ASSUME TypeOK, ClockInv, [Next]_vars PROVE ClockInv'
  OBVIOUS
<1> USE DEF mirror, owner
<1>0. /\ watermark \in Nat /\ clock \in Nat /\ sweep.next \in Nat /\ sweep.start \in Nat
      /\ source \in [Jobs -> Row] /\ sweep \in Sweep /\ open \subseteq Txn
      /\ \A j \in Jobs : source[j].stamp \in Nat
      /\ \A x \in open : x.stamp \in Nat
  BY DEF TypeOK, Sweep, Stamp, Row, Txn
<1>1. ASSUME UNCHANGED <<source, open, watermark>>, clock' \in Nat, clock' >= clock,
             sweep' = sweep \/ sweep'.pc \notin {"ask", "apply"}
      PROVE  ClockInv'
  <2>1. (\A j \in Jobs : source'[j].stamp <= clock') /\ (\A x \in open' : x.stamp <= clock') /\ watermark' <= clock'
    BY <1>0, <1>1 DEF ClockInv
  <2> QED
    BY <1>0, <1>1, <2>1 DEF ClockInv
<1>2. ASSUME NEW j \in Jobs, Delete(j) PROVE ClockInv'
  <2>1. \A i \in Jobs : source'[i].stamp <= clock
    BY <1>0, <1>2 DEF Delete, ClockInv
  <2> QED
    BY <1>2, <2>1 DEF Delete, ClockInv
<1>3. ASSUME NEW j \in Jobs, NEW w \in Writes, Begin(j, w) PROVE ClockInv'
  <2>1. \A x \in open' : x.stamp <= clock'
    BY <1>0, <1>3 DEF Begin, ClockInv
  <2>2. \A i \in Jobs : source'[i].stamp <= clock'
    BY <1>0, <1>3 DEF Begin, ClockInv
  <2> QED
    BY <1>0, <1>3, <2>1, <2>2 DEF Begin, ClockInv
<1>4. ASSUME NEW x \in open, Commit(x) PROVE ClockInv'
  <2>1. clock' \in Nat /\ clock' >= clock /\ open' \subseteq open /\ x.job \in Jobs
    BY <1>0, <1>4 DEF Commit, Txn
  <2>2. \A i \in Jobs : source'[i].stamp = source[i].stamp \/ source'[i].stamp = x.stamp
    BY <1>0, <1>4, <2>1 DEF Commit
  <2>3. (\A i \in Jobs : source'[i].stamp <= clock') /\ (\A y \in open' : y.stamp <= clock')
    BY <1>0, <2>1, <2>2 DEF ClockInv
  <2> QED
    BY <1>0, <1>4, <2>1, <2>3 DEF Commit, ClockInv
<1>5. ASSUME NEW x \in open, Abort(x) PROVE ClockInv'
  BY <1>5 DEF Abort, ClockInv
<1>6. CASE StartSweep
  BY <1>0, <1>6 DEF StartSweep, NoSweep, ClockInv
<1>7. CASE Fetch
  <2>1. PICK page \in Pages(watermark) :
          \E w \in NextWatermark(page) :
            sweep' = [sweep EXCEPT !.pc = "apply", !.rows = page, !.next = w]
    BY <1>7 DEF Fetch
  <2>2. PICK w \in NextWatermark(page) :
          sweep' = [sweep EXCEPT !.pc = "apply", !.rows = page, !.next = w]
    BY <2>1
  <2>3. sweep'.pc = "apply" /\ sweep'.next = w
    BY <1>0, <2>2 DEF Sweep
  <2>4. w <= clock
    <3>1. \A r \in Since(watermark) : r.stamp <= clock
      BY DEF Since, SnapshotOf, ClockInv
    <3>2. page \subseteq Since(watermark)
      BY DEF Pages
    <3> QED
      BY <1>7, <3>1, <3>2 DEF NextWatermark, Fetch, ClockInv
  <2> QED
    BY <1>7, <2>3, <2>4 DEF Fetch, ClockInv
<1>8. CASE ApplyRow
  BY <1>0, <1>8 DEF ApplyRow, ClockInv, Sweep
<1>9. CASE Advance
  BY <1>9 DEF Advance, Swept, NoSweep, ClockInv
<1>10. CASE RestartSweeper
  <2>1. watermark' <= clock
    BY <1>0, <1>10 DEF RestartSweeper, ClockInv
  <2> QED
    BY <1>10, <2>1 DEF RestartSweeper, ClockInv, NoSweep
<1>11. CASE SweepFails
  BY <1>0, <1>1, <1>11 DEF SweepFails, Swept, NoSweep
<1>12. CASE ListLive
  BY <1>0, <1>1, <1>12 DEF ListLive, Sweep, NoSweep
<1>13. CASE Verify
  <2>1. UNCHANGED <<source, open, watermark, clock>>
    BY <1>13 DEF Verify
  <2>2. sweep'.pc \notin {"ask", "apply"}
    BY <1>0, <1>13, VerifyMoves DEF NoSweep
  <2> QED
    BY <1>0, <1>1, <2>1, <2>2
<1>14. ASSUME NEW j \in Jobs, MarkLost(j) PROVE ClockInv'
  BY <1>0, <1>1, <1>14 DEF MarkLost, Sweep
<1>15. CASE EndVerify
  BY <1>0, <1>1, <1>15 DEF EndVerify, NoSweep
<1>16. ASSUME NEW e \in events,
              \/ PublishAgain(e) \/ Trim(e) \/ HandleFails(e)
              \/ Handle(e) \/ HandleUnacked(e)
       PROVE  ClockInv'
  <2>1. UNCHANGED <<source, open, watermark, clock, sweep>>
    BY <1>16 DEF PublishAgain, Trim, HandleFails, Handle, HandleUnacked
  <2> QED
    BY <1>0, <1>1, <2>1
<1>17. ASSUME NEW j \in Jobs, Read(j) PROVE ClockInv'
  BY <1>0, <1>1, <1>17 DEF Read
<1>18. CASE UNCHANGED vars
  BY <1>0, <1>1, <1>18 DEF vars
<1> QED
  BY <1>2, <1>3, <1>4, <1>5, <1>6, <1>7, <1>8, <1>9, <1>10, <1>11, <1>12, <1>13, <1>14, <1>15,
     <1>16, <1>17, <1>18 DEF Next, SweepStep

LEMMA SnapshotFields ==
  ASSUME TypeOK, NEW j \in Jobs, source[j].status \in Statuses
  PROVE  /\ SnapshotOf(j) \in Snapshot /\ SnapshotOf(j).job = j
         /\ SnapshotOf(j).status = source[j].status /\ SnapshotOf(j).stamp = source[j].stamp
BY DEF TypeOK, SnapshotOf, Snapshot, Row

\* What was reached stays reached as long as the owner leaves the row alone.
LEMMA ReachedKept ==
  ASSUME TypeOK, [Next]_vars, NEW j \in Jobs, source'[j] = source[j], skipped' = skipped,
         NEW w, NEW v, NEW rows, NEW left, Reached(j, w, rows),
         source[j].stamp < v => source[j].stamp < w,
         SnapshotOf(j) \in rows => SnapshotOf(j) \in left \/ NotBehind(row'[j], SnapshotOf(j))
  PROVE  Reached(j, v, left)'
<1>1. SnapshotOf(j)' = SnapshotOf(j)
  BY DEF SnapshotOf
<1>2. CASE source[j].status \in Statuses /\ source[j].stamp < v
  <2>1. NotBehind(row[j], SnapshotOf(j)) \/ SnapshotOf(j) \in rows \cup skipped
    BY <1>2 DEF Reached
  <2>2. ASSUME NotBehind(row[j], SnapshotOf(j)) PROVE NotBehind(row'[j], SnapshotOf(j))
    <3>1. row \in [Jobs -> Mirrored]
      BY DEF TypeOK
    <3>2. SnapshotOf(j).status \in Statuses /\ SnapshotOf(j).stamp \in Stamp
      BY <1>2, SnapshotFields DEF Snapshot
    <3> QED
      BY <2>2, <3>1, <3>2, RowSteps, Onward
  <2>3. SnapshotOf(j) \in left \cup skipped \/ NotBehind(row'[j], SnapshotOf(j))
    BY <2>1, <2>2
  <2>4. NotBehind(row[j], SnapshotOf(j))' = NotBehind(row'[j], SnapshotOf(j))
    BY <1>1 DEF NotBehind
  <2> QED
    BY <1>1, <2>3, <2>4 DEF Reached
<1>3. CASE ~(source[j].status \in Statuses /\ source[j].stamp < v)
  BY <1>3 DEF Reached
<1> QED
  BY <1>2, <1>3

\* A write in time has a stamp no fetch has passed.
LEMMA CommitInTime ==
  ASSUME TypeOK, NEW x \in open, Commit(x), NEW j \in Jobs \ late', source'[j] # source[j]
  PROVE  source'[j].stamp >= Horizon
<1>1. x \in Txn /\ x.job \in Jobs /\ x.stamp \in Nat
  BY DEF TypeOK, Txn, Stamp
<1>2. Applies(x) /\ j = x.job
  BY <1>1 DEF Commit, TypeOK
<1>3. source'[j].stamp = x.stamp
  BY <1>1, <1>2 DEF Commit, TypeOK
<1>4. ~TooLate(x)
  BY <1>2 DEF Commit
<1>5. Horizon \in Nat
  BY DEF Horizon, TypeOK, Sweep, Stamp
<1> QED
  BY <1>1, <1>3, <1>4, <1>5 DEF TooLate

LEMMA OwnerSteps ==
  ASSUME TypeOK, SweptInv, [Next]_vars, UNCHANGED <<watermark, skipped, sweep>>,
         \A j \in Jobs \ late' :
            \/ source'[j] = source[j] /\ j \notin late
            \/ source'[j].status \notin Statuses
            \/ source'[j].stamp >= Horizon,
         clock' >= clock
  PROVE  SweptInv'
<1>1. watermark \in Nat /\ sweep.next \in Nat /\ clock \in Nat /\ clock' \in Nat
  BY TypeNext DEF TypeOK, Sweep, Stamp
<1>2. ASSUME NEW j \in Jobs \ late', NEW w \in Nat, NEW rows, Reached(j, w, rows) \/ j \in late, w <= Horizon
      PROVE  Reached(j, w, rows)'
  <2>1. CASE source'[j] = source[j] /\ j \notin late
    BY <1>2, <2>1, ReachedKept
  <2>2. CASE source'[j].status \notin Statuses
    BY <2>2 DEF Reached
  <2>3. CASE source'[j].stamp >= Horizon /\ source'[j].status \in Statuses
    <3>1. Horizon \in Nat /\ source'[j].stamp \in Nat
      BY <1>1, TypeNext DEF Horizon, TypeOK, Row, Stamp
    <3>2. ~(source'[j].stamp < w)
      BY <1>2, <2>3, <3>1
    <3> QED
      BY <3>2 DEF Reached
  <2> QED
    BY <2>1, <2>2, <2>3
<1>3. watermark <= Horizon
  BY <1>1 DEF Horizon, SweptInv
<1>4. \A j \in Jobs \ late' : Reached(j, watermark, {})'
  BY <1>1, <1>2, <1>3 DEF SweptInv
<1>5. sweep.pc = "apply" => \A j \in Jobs \ late' : Reached(j, sweep.next, sweep.rows)'
  BY <1>1, <1>2 DEF SweptInv, Horizon
<1> QED
  BY <1>1, <1>4, <1>5 DEF SweptInv, Reached

LEMMA PageReaches ==
  ASSUME TypeOK, NEW page \in Pages(watermark), NEW w \in NextWatermark(page), NEW j \in Jobs,
         Reached(j, watermark, {})
  PROVE  Reached(j, w, page)
<1> SUFFICES ASSUME source[j].status \in Statuses, source[j].stamp < w,
                    ~NotBehind(row[j], SnapshotOf(j)), SnapshotOf(j) \notin page \cup skipped
             PROVE  FALSE
  BY DEF Reached
<1>1. source[j].stamp \in Nat /\ watermark \in Nat
  BY DEF TypeOK, Row, Stamp
<1>2. ~(source[j].stamp < watermark)
  BY DEF Reached
<1>3. SnapshotOf(j) \in Since(watermark)
  BY <1>1, <1>2 DEF Since
<1>4. Cardinality(page) = PageLimit
  BY <1>3 DEF Pages
<1>5. PICK r \in page : w = r.stamp
  BY <1>4 DEF NextWatermark
<1>6. r.stamp <= SnapshotOf(j).stamp
  BY <1>3, <1>5 DEF Pages
<1>7. r.stamp \in Nat
  BY <1>5, PageType DEF TypeOK, Snapshot, Stamp
<1> QED
  BY <1>1, <1>5, <1>6, <1>7, SnapshotFields

LEMMA NextIsAhead ==
  ASSUME TypeOK, SweptInv, sweep.pc = "ask",
         NEW page \in Pages(watermark), NEW w \in NextWatermark(page)
  PROVE  watermark <= w
<1>1. CASE Cardinality(page) = PageLimit
  <2>1. PICK r \in page : w = r.stamp
    BY <1>1 DEF NextWatermark
  <2>2. r \in Since(watermark)
    BY <2>1 DEF Pages
  <2> QED
    BY <2>1, <2>2 DEF Since, SnapshotOf
<1>2. CASE Cardinality(page) # PageLimit
  BY <1>2 DEF NextWatermark, SweptInv
<1> QED
  BY <1>1, <1>2

LEMMA SweptNext == TypeOK /\ ClockInv /\ SweptInv /\ [Next]_vars => SweptInv'
<1> SUFFICES ASSUME TypeOK, ClockInv, SweptInv, [Next]_vars PROVE SweptInv'
  OBVIOUS
<1> USE DEF mirror, owner
<1>0. /\ watermark \in Nat /\ clock \in Nat /\ sweep.next \in Nat /\ sweep.start \in Nat
      /\ source \in [Jobs -> Row] /\ sweep \in Sweep
  BY DEF TypeOK, Sweep, Stamp
<1>1. ASSUME UNCHANGED <<source, late, watermark, skipped, sweep>>, clock' >= clock PROVE SweptInv'
  BY <1>1, OwnerSteps
<1>2. ASSUME NEW j \in Jobs, Delete(j) PROVE SweptInv'
  <2>1. \A i \in Jobs : source'[i] = source[i] \/ source'[i].status = "gone"
    BY <1>0, <1>2 DEF Delete
  <2> QED
    BY <1>0, <1>2, <2>1, StatusFacts, OwnerSteps DEF Delete
<1>3. ASSUME NEW x \in open, Commit(x) PROVE SweptInv'
  <2>1. x.job \in Jobs /\ clock' >= clock
    BY <1>0, <1>3 DEF Commit, TypeOK, Txn
  <2>2. ASSUME NEW i \in Jobs \ late', source'[i] = source[i] PROVE i \notin late \/ source'[i].stamp >= Horizon
    <3>1. CASE i \notin late
      BY <3>1
    <3>2. CASE i \in late
      <4>1. i = x.job /\ Applies(x) /\ ~TooLate(x)
        BY <1>3, <2>2, <3>2 DEF Commit
      <4>2. source'[i].stamp = x.stamp
        BY <1>0, <1>3, <4>1 DEF Commit
      <4>3. x.stamp \in Nat /\ Horizon \in Nat
        BY <1>0 DEF TypeOK, Txn, Stamp, Horizon
      <4> QED
        BY <4>1, <4>2, <4>3 DEF TooLate
    <3> QED
      BY <3>1, <3>2
  <2> QED
    BY <1>3, <2>1, <2>2, CommitInTime, OwnerSteps DEF Commit
<1>4. ASSUME UNCHANGED <<source, late, watermark, skipped>>, clock' >= clock,
             sweep'.pc \notin {"ask", "apply"}
      PROVE  SweptInv'
  <2>1. \A j \in Jobs \ late : Reached(j, watermark, {})'
    BY <1>4, ReachedKept DEF SweptInv
  <2>2. clock' \in Nat
    BY TypeNext DEF TypeOK, Stamp
  <2> QED
    BY <1>0, <1>4, <2>1, <2>2 DEF SweptInv, Reached
<1>5. CASE StartSweep
  <2>1. sweep'.pc = "ask" /\ sweep'.start = clock
    BY <1>5 DEF StartSweep, NoSweep
  <2>2. \A j \in Jobs \ late : Reached(j, watermark, {})'
    BY <1>5, ReachedKept DEF StartSweep, SweptInv
  <2> QED
    BY <1>5, <2>1, <2>2 DEF StartSweep, SweptInv, Reached, ClockInv
<1>6. CASE Fetch
  <2>1. PICK page \in Pages(watermark) :
          \E w \in NextWatermark(page) :
            sweep' = [sweep EXCEPT !.pc = "apply", !.rows = page, !.next = w]
    BY <1>6 DEF Fetch
  <2>2. PICK w \in NextWatermark(page) :
          sweep' = [sweep EXCEPT !.pc = "apply", !.rows = page, !.next = w]
    BY <2>1
  <2>3. sweep'.pc = "apply" /\ sweep'.rows = page /\ sweep'.next = w
    BY <1>0, <2>2 DEF Sweep
  <2>4. \A j \in Jobs \ late : Reached(j, w, page)
    BY PageReaches DEF SweptInv
  <2>5. watermark <= w
    BY <1>6, NextIsAhead DEF Fetch
  <2>6. UNCHANGED <<source, row, watermark, skipped, late, clock>>
    BY <1>6 DEF Fetch
  <2>7. \A j \in Jobs : SnapshotOf(j)' = SnapshotOf(j)
    BY <2>6 DEF SnapshotOf
  <2>8. \A j \in Jobs \ late : Reached(j, sweep.next, sweep.rows)'
    BY <2>3, <2>4, <2>6, <2>7 DEF Reached, NotBehind
  <2>9. \A j \in Jobs \ late : Reached(j, watermark, {})'
    BY <2>6, <2>7 DEF SweptInv, Reached, NotBehind
  <2> QED
    BY <2>3, <2>5, <2>6, <2>8, <2>9 DEF SweptInv
<1>7. CASE ApplyRow
  <2>1. PICK s \in sweep.rows : row' = Upserted(s) /\ sweep' = [sweep EXCEPT !.rows = @ \ {s}]
    BY <1>7 DEF ApplyRow
  <2>2. s \in Snapshot
    BY <1>0, <2>1 DEF Sweep
  <2>3. NotBehind(row'[s.job], s)
    BY <2>1, <2>2, UpsertReaches DEF TypeOK, Snapshot
  <2>4. sweep'.pc = "apply" /\ sweep'.next = sweep.next /\ sweep'.rows = sweep.rows \ {s}
    BY <1>0, <1>7, <2>1 DEF Sweep, ApplyRow
  <2>5. UNCHANGED <<source, watermark, skipped, late, clock>>
    BY <1>7 DEF ApplyRow
  <2>6. ASSUME NEW j \in Jobs \ late PROVE Reached(j, sweep.next, sweep.rows)'
    <3>1. Reached(j, sweep.next, sweep.rows)
      BY <1>7 DEF ApplyRow, SweptInv
    <3>2. SnapshotOf(j) \in sweep.rows =>
            SnapshotOf(j) \in sweep.rows \ {s} \/ NotBehind(row'[j], SnapshotOf(j))
      BY <2>3 DEF SnapshotOf
    <3>3. Reached(j, sweep.next, sweep.rows \ {s})' <=> Reached(j, sweep.next, sweep.rows)'
      BY <2>4 DEF Reached
    <3>4. SnapshotOf(j)' = SnapshotOf(j)
      BY <2>5 DEF SnapshotOf
    <3>5. CASE source[j].status \in Statuses /\ source[j].stamp < sweep.next
      <4>1. CASE NotBehind(row[j], SnapshotOf(j))
        <5>1. NotBehind(row'[j], SnapshotOf(j))
          BY <3>5, <4>1, SnapshotFields, RowSteps, Onward DEF TypeOK, Snapshot
        <5> QED
          BY <3>4, <5>1 DEF Reached, NotBehind
      <4>2. CASE SnapshotOf(j) \in sweep.rows \ {s}
        BY <2>4, <3>4, <4>2 DEF Reached
      <4>3. CASE NotBehind(row'[j], SnapshotOf(j))
        BY <3>4, <4>3 DEF Reached, NotBehind
      <4>4. CASE SnapshotOf(j) \in skipped
        BY <2>5, <3>4, <4>4 DEF Reached
      <4> QED
        BY <3>1, <3>2, <3>5, <4>1, <4>2, <4>3, <4>4 DEF Reached
    <3>6. CASE ~(source[j].status \in Statuses /\ source[j].stamp < sweep.next)
      BY <2>4, <2>5, <3>6 DEF Reached
    <3> QED
      BY <3>5, <3>6
  <2>7. \A j \in Jobs \ late : Reached(j, watermark, {})'
    BY <2>5, ReachedKept DEF SweptInv
  <2> QED
    BY <1>7, <2>4, <2>5, <2>6, <2>7 DEF SweptInv, ApplyRow
<1>8. CASE Advance
  <2>1. UNCHANGED <<source, row, skipped, late, clock>> /\ watermark' = sweep.next /\ sweep' = Swept
    BY <1>8 DEF Advance
  <2>2. sweep'.pc \notin {"ask", "apply"}
    BY <2>1 DEF Swept, NoSweep
  <2>3. \A j \in Jobs : SnapshotOf(j)' = SnapshotOf(j)
    BY <2>1 DEF SnapshotOf
  <2>4. \A j \in Jobs \ late : Reached(j, watermark, {})'
    BY <1>8, <2>1, <2>3 DEF SweptInv, Advance, Reached, NotBehind
  <2> QED
    BY <2>1, <2>2, <2>4 DEF SweptInv
<1>9. CASE RestartSweeper
  <2>1. /\ UNCHANGED <<source, row, late, clock>> /\ watermark' \in 0..clock /\ sweep' = NoSweep
        /\ skipped' = {s \in skipped : s.stamp < watermark'} \cup Passed(watermark, watermark')
    BY <1>9 DEF RestartSweeper
  <2>2. sweep'.pc \notin {"ask", "apply"} /\ watermark' <= clock /\ watermark' \in Nat
    BY <1>0, <2>1 DEF NoSweep
  <2>3. \A j \in Jobs : SnapshotOf(j)' = SnapshotOf(j) /\ source[j].stamp \in Nat
    BY <1>0, <2>1 DEF SnapshotOf, Row, Stamp
  <2>4. ASSUME NEW j \in Jobs \ late, source[j].status \in Statuses, source[j].stamp < watermark',
               ~NotBehind(row[j], SnapshotOf(j))
        PROVE  SnapshotOf(j) \in skipped'
    <3>1. SnapshotOf(j).stamp = source[j].stamp /\ SnapshotOf(j).job = j
      BY <2>4, SnapshotFields
    <3>2. CASE source[j].stamp < watermark
      <4>1. SnapshotOf(j) \in skipped
        BY <2>4, <3>2 DEF SweptInv, Reached
      <4> QED
        BY <2>1, <2>4, <3>1, <4>1
    <3>3. CASE ~(source[j].stamp < watermark)
      <4>1. SnapshotOf(j) \in Since(watermark)
        BY <1>0, <2>3, <2>4, <3>3 DEF Since
      <4>2. SnapshotOf(j) \in Passed(watermark, watermark')
        BY <2>4, <3>1, <4>1 DEF Passed
      <4> QED
        BY <2>1, <4>2
    <3> QED
      BY <3>2, <3>3
  <2>5. \A j \in Jobs \ late : Reached(j, watermark, {})'
    BY <2>1, <2>3, <2>4 DEF Reached, NotBehind
  <2> QED
    BY <1>0, <2>1, <2>2, <2>5 DEF SweptInv
<1>10. CASE SweepFails
  <2>1. UNCHANGED <<source, late, watermark, skipped, clock>> /\ sweep'.pc \notin {"ask", "apply"}
    BY <1>10 DEF SweepFails, Swept, NoSweep
  <2> QED
    BY <1>0, <1>4, <2>1
<1>11. CASE ListLive
  BY <1>0, <1>4, <1>11 DEF ListLive, Sweep, NoSweep
<1>12. CASE Verify
  <2>1. UNCHANGED <<source, late, watermark, skipped, clock>>
    BY <1>12 DEF Verify
  <2>2. sweep'.pc \notin {"ask", "apply"}
    BY <1>0, <1>12, VerifyMoves DEF NoSweep
  <2> QED
    BY <1>0, <1>4, <2>1, <2>2
<1>13. ASSUME NEW j \in Jobs, MarkLost(j) PROVE SweptInv'
  <2>1. UNCHANGED <<source, late, watermark, skipped>> /\ clock' >= clock /\ sweep'.pc = "mark"
    BY <1>0, <1>13 DEF MarkLost, Sweep
  <2> QED
    BY <1>4, <2>1
<1>14. CASE EndVerify
  BY <1>0, <1>4, <1>14 DEF EndVerify, NoSweep
<1>15. ASSUME NEW j \in Jobs, NEW w \in Writes, Read(j) \/ Begin(j, w) PROVE SweptInv'
  BY <1>0, <1>1, <1>15 DEF Read, Begin
<1>16. ASSUME NEW x \in open, Abort(x) PROVE SweptInv'
  BY <1>0, <1>1, <1>16 DEF Abort
<1>17. ASSUME NEW e \in events,
              \/ PublishAgain(e) \/ Trim(e) \/ HandleFails(e)
              \/ Handle(e) \/ HandleUnacked(e)
       PROVE  SweptInv'
  <2>1. UNCHANGED <<source, late, watermark, skipped, clock, sweep>>
    BY <1>17 DEF PublishAgain, Trim, HandleFails, Handle, HandleUnacked
  <2> QED
    BY <1>0, <1>1, <2>1
<1>18. CASE UNCHANGED vars
  BY <1>0, <1>1, <1>18 DEF vars
<1>19. ASSUME NEW j \in Jobs, Read(j) PROVE SweptInv'
  BY <1>0, <1>1, <1>19 DEF Read
<1> QED
  BY <1>2, <1>3, <1>5, <1>6, <1>7, <1>8, <1>9, <1>10, <1>11, <1>12, <1>13, <1>14, <1>15, <1>16,
     <1>17, <1>18, <1>19 DEF Next, SweepStep

\* The watermark passes a change only once the mirror has it, or where a new
\* sweeper starts ahead of the old one.
THEOREM WatermarkIsSafe == Spec => []SweptIsKept
<1>1. Init => SweptInv /\ ClockInv
  <2> SUFFICES ASSUME Init PROVE SweptInv /\ ClockInv
    OBVIOUS
  <2>1. TypeOK
    BY TypeInit
  <2>2. watermark <= clock /\ sweep.pc = "idle"
    BY <2>1 DEF Init, TypeOK, Stamp, NoSweep
  <2>3. ASSUME NEW j \in Jobs, source[j].status \in Statuses, source[j].stamp < watermark
        PROVE  SnapshotOf(j) \in skipped
    <3>1. SnapshotOf(j) \in Since(0)
      BY <2>1, <2>3 DEF Since, TypeOK, Row, Stamp
    <3>2. ~NotBehind(row[j], SnapshotOf(j))
      BY StatusFacts DEF Init, NotBehind
    <3> QED
      BY <2>1, <2>3, <3>1, <3>2, SnapshotFields DEF Init, Passed
  <2>4. clock \in Nat /\ clock = Cardinality(setup.old) + 1 /\ open = {}
    BY <2>1 DEF Init, TypeOK, Stamp
  <2>5. \A j \in Jobs : source[j].stamp <= clock
    <3>1. setup.old \subseteq Jobs /\ Cardinality(setup.old) \in Nat
      BY SetupsAreJobs, JobsAreFinite, FS_Subset, FS_CardinalityType DEF Init
    <3>2. PICK at \in [setup.old -> 1..Cardinality(setup.old)] :
            source = [j \in Jobs |->
              IF j \in setup.old THEN [status |-> "running", stamp |-> at[j], sent |-> FALSE]
              ELSE [status |-> "none", stamp |-> 0, sent |-> FALSE]]
      BY DEF Init
    <3>3. \A j \in setup.old : at[j] <= clock
      BY <2>4, <3>1, <3>2
    <3> QED
      BY <2>4, <3>2, <3>3
  <2>6. SweptInv
    BY <2>2, <2>3 DEF SweptInv, Reached
  <2> QED
    BY <2>2, <2>4, <2>5, <2>6 DEF ClockInv
<1>2. SweptInv => SweptIsKept
  BY DEF SweptInv, SweptIsKept, Reached
<1> QED
  BY <1>1, <1>2, SweptNext, ClockNext, TypeInit, TypeNext, PTL DEF Spec
-----------------------------------------------------------------------------
(* Given up for lost                                                       *)

\* Only a job whose owner has no row of it any more is given up for lost.
LostIsGone == \A j \in Jobs : row[j].lost => source[j].status = "gone"

\* Nothing is known of a job its owner never had, and what the absence pass
\* is about to mark is gone for good.
LostInv ==
  /\ LostIsGone
  /\ \A e \in events : source[e.job].status # "none"
  /\ \A j \in Jobs : row[j].status # "none" => source[j].status # "none"
  /\ \A s \in sweep.rows : source[s.job].status # "none"
  /\ \A j \in sweep.ids : source[j].status # "none"
  /\ sweep.pc = "mark" => \A j \in sweep.ids : source[j].status = "gone"

\* A row that is gone does not come back, and one that was there is there or gone.
LEMMA SourceSteps ==
  ASSUME TypeOK, [Next]_vars, NEW j \in Jobs
  PROVE  /\ source[j].status = "gone" => source'[j].status = "gone"
         /\ source[j].status # "none" => source'[j].status # "none"
<1>0. source \in [Jobs -> Row] /\ open \subseteq Txn
  BY DEF TypeOK
<1>1. ASSUME NEW i \in Jobs, Delete(i)
      PROVE  \/ source'[j] = source[j]
             \/ source[j].status \in Statuses /\ source'[j].status = "gone"
  <2>1. CASE i = j
    BY <1>0, <1>1, <2>1 DEF Delete
  <2>2. CASE i # j
    BY <1>0, <1>1, <2>2 DEF Delete
  <2> QED
    BY <2>1, <2>2
<1>2. ASSUME NEW x \in open, Commit(x)
      PROVE  \/ source'[j] = source[j]
             \/ source[j].status # "gone" /\ source'[j].status \in Statuses
  <2>1. x \in Txn /\ x.job \in Jobs /\ x.write \in Writes
    BY <1>0 DEF Txn
  <2>2. Outcome(x.write) \in Statuses
    BY <2>1, OutcomeType
  <2>3. CASE Applies(x) /\ x.job = j
    <3>1. source'[j] = [status |-> Outcome(x.write), stamp |-> x.stamp, sent |-> Emits(x.write)]
      BY <1>0, <1>2, <2>3 DEF Commit
    <3>2. source[j].status # "gone"
      BY <2>1, <2>3 DEF Applies, Live
    <3> QED
      BY <2>2, <3>1, <3>2
  <2>4. CASE ~Applies(x)
    BY <1>2, <2>4 DEF Commit
  <2>5. CASE Applies(x) /\ x.job # j
    <3>1. source' = [source EXCEPT ![x.job] =
                      [status |-> Outcome(x.write), stamp |-> x.stamp, sent |-> Emits(x.write)]]
      BY <1>2, <2>5 DEF Commit
    <3> QED
      BY <1>0, <2>1, <2>5, <3>1
  <2> QED
    BY <2>3, <2>4, <2>5
<1>3. \/ source' = source
      \/ \E i \in Jobs : Delete(i)
      \/ \E x \in open : Commit(x)
  BY DEF Next, SweepStep, vars, owner, Read, Begin, Abort, StartSweep, Fetch, ApplyRow, Advance,
         SweepFails, RestartSweeper, ListLive, Verify, MarkLost, EndVerify, PublishAgain, Trim,
         Handle, HandleUnacked, HandleFails
<1>4. "none" \notin Statuses /\ "gone" \notin Statuses
  BY DEF Statuses, Live, Terminal
<1> QED
  BY <1>1, <1>2, <1>3, <1>4

\* An event is of a job that had one, or of the row that is written with it.
LEMMA EventJobs ==
  ASSUME TypeOK, [Next]_vars, NEW f \in events'
  PROVE  \/ \E e \in events : f.job = e.job
         \/ \E x \in open : Commit(x) /\ Applies(x) /\ f.job = x.job
<1> DEFINE Goal == \/ \E e \in events : f.job = e.job
                   \/ \E x \in open : Commit(x) /\ Applies(x) /\ f.job = x.job
<1>1. CASE f \in events
  BY <1>1
<1>2. ASSUME f \notin events, NEW x \in open, Commit(x) PROVE Goal
  <2>1. f = Emitted(x) /\ Applies(x)
    BY <1>2 DEF Commit
  <2>2. f.job = x.job
    BY <2>1 DEF Emitted
  <2> QED
    BY <1>2, <2>1, <2>2
<1>3. ASSUME f \notin events, NEW e \in events,
             PublishAgain(e) \/ Trim(e) \/ HandleFails(e) \/ Handle(e) \/ HandleUnacked(e)
      PROVE  Goal
  <2>1. PICK place, n, b : f = Moved(e, place, n, b)
    BY <1>3 DEF PublishAgain, Trim, HandleFails, Handle, HandleUnacked, Becomes
  <2> QED
    BY <2>1 DEF Moved
<1>4. CASE events' = events
  BY <1>1, <1>4
<1>5. \/ events' = events
      \/ \E x \in open : Commit(x)
      \/ \E e \in events : PublishAgain(e) \/ Trim(e) \/ HandleFails(e) \/ Handle(e) \/ HandleUnacked(e)
  BY DEF Next, SweepStep, vars, Read, Delete, Begin, Abort, StartSweep, Fetch, ApplyRow, Advance,
         SweepFails, RestartSweeper, ListLive, Verify, MarkLost, EndVerify
<1> QED
  BY <1>1, <1>2, <1>3, <1>4, <1>5

\* A mirrored row is written from an event, from a fetched row, or by a mark.
LEMMA RowOrigins ==
  ASSUME TypeOK, [Next]_vars, NEW j \in Jobs
  PROVE  \/ row'[j] = row[j]
         \/ row'[j].status # "none" /\ ~row'[j].lost /\ \E e \in events : e.job = j
         \/ row'[j].status # "none" /\ ~row'[j].lost /\ \E s \in sweep.rows : s.job = j
         \/ row'[j].status # "none" /\ MarkLost(j)
<1> DEFINE Fresh == row'[j].status # "none" /\ ~row'[j].lost
<1>0. row \in [Jobs -> Mirrored]
  BY DEF TypeOK
<1>1. ASSUME NEW s, s.job \in Jobs, s.status \in Statuses, row' = Upserted(s)
      PROVE  row'[j] = row[j] \/ (Fresh /\ s.job = j)
  <2>1. CASE s.job = j /\ Accepts(row[j], s.status, s.stamp)
    <3>1. row'[j] = [status |-> s.status, stamp |-> s.stamp, lost |-> FALSE]
      BY <1>0, <1>1, <2>1 DEF Upserted
    <3>2. row'[j].status # "none"
      BY <1>1, <3>1 DEF Statuses, Live, Terminal
    <3>3. ~row'[j].lost
      BY <3>1
    <3> QED
      BY <2>1, <3>2, <3>3, Zenon
  <2>2. CASE ~(s.job = j /\ Accepts(row[j], s.status, s.stamp))
    BY <1>0, <1>1, <2>2 DEF Upserted
  <2> QED
    BY <2>1, <2>2
<1>2. ASSUME NEW e \in events, Handle(e) \/ HandleUnacked(e)
      PROVE  row'[j] = row[j] \/ (Fresh /\ e.job = j)
  <2>1. e \in Event /\ row' = Upserted(e)
    BY <1>2 DEF Handle, HandleUnacked, TypeOK
  <2>2. e.job \in Jobs /\ e.status \in Statuses
    BY <2>1, EventFields
  <2> QED
    BY <1>1, <2>1, <2>2
<1>3. CASE ApplyRow
  <2>1. PICK s \in sweep.rows : row' = Upserted(s)
    BY <1>3 DEF ApplyRow
  <2>2. s.job \in Jobs /\ s.status \in Statuses
    BY <2>1 DEF TypeOK, Sweep, Snapshot
  <2> QED
    BY <1>1, <2>1, <2>2
<1>4. ASSUME NEW i \in Jobs, MarkLost(i)
      PROVE  row'[j] = row[j] \/ (row'[j].status # "none" /\ MarkLost(j))
  <2>1. CASE i = j /\ row[j].status \in Live
    <3>1. row'[j].status = "failed"
      BY <1>0, <1>4, <2>1 DEF MarkLost
    <3> QED
      BY <1>4, <2>1, <3>1
  <2>2. CASE ~(i = j /\ row[j].status \in Live)
    <3>1. row'[j] = row[j]
      BY <1>0, <1>4, <2>2 DEF MarkLost
    <3> QED
      BY <3>1
  <2> QED
    BY <2>1, <2>2
<1> QED
  BY <1>2, <1>3, <1>4, OtherSteps DEF Next, SweepStep, RowKept

\* What the sweep holds is what it held, what it fetches or what the mirror shows.
LEMMA SweepOrigins ==
  ASSUME TypeOK, [Next]_vars
  PROVE  /\ \A s \in sweep'.rows : s \in sweep.rows \/ source[s.job].status \in Statuses
         /\ \A j \in sweep'.ids : j \in sweep.ids \/ row[j].status \in Live
         /\ sweep'.pc = "mark" =>
              \A j \in sweep'.ids :
                j \in sweep.ids /\ (sweep.pc = "mark" \/ source[j].status \notin Statuses)
<1> DEFINE Goal ==
      /\ \A s \in sweep'.rows : s \in sweep.rows \/ source[s.job].status \in Statuses
      /\ \A j \in sweep'.ids : j \in sweep.ids \/ row[j].status \in Live
      /\ sweep'.pc = "mark" =>
           \A j \in sweep'.ids :
             j \in sweep.ids /\ (sweep.pc = "mark" \/ source[j].status \notin Statuses)
<1>0. sweep \in Sweep
  BY DEF TypeOK
<1>1. CASE sweep' = sweep
  BY <1>1
<1>2. ASSUME sweep'.rows = {}, sweep'.ids = {} PROVE Goal
  BY <1>2
<1>3. CASE StartSweep \/ Advance \/ SweepFails \/ RestartSweeper \/ EndVerify
  <2>1. sweep' \in {NoSweep, Swept, [NoSweep EXCEPT !.pc = "ask", !.start = clock]}
    BY <1>3 DEF StartSweep, Advance, SweepFails, RestartSweeper, EndVerify
  <2>2. /\ NoSweep.rows = {} /\ NoSweep.ids = {}
        /\ \A pc : [NoSweep EXCEPT !.pc = pc].rows = {} /\ [NoSweep EXCEPT !.pc = pc].ids = {}
        /\ [NoSweep EXCEPT !.pc = "ask", !.start = clock].rows = {}
        /\ [NoSweep EXCEPT !.pc = "ask", !.start = clock].ids = {}
    BY DEF NoSweep
  <2>3. Swept.rows = {} /\ Swept.ids = {}
    BY <2>2 DEF Swept
  <2>4. sweep'.rows = {} /\ sweep'.ids = {}
    BY <2>1, <2>2, <2>3
  <2> QED
    BY <1>2, <2>4
<1>4. CASE Fetch
  <2>1. PICK page \in Pages(watermark) : \E w \in NextWatermark(page) :
          sweep' = [sweep EXCEPT !.pc = "apply", !.rows = page, !.next = w]
    BY <1>4 DEF Fetch
  <2>2. sweep'.rows = page /\ sweep'.ids = sweep.ids /\ sweep'.pc = "apply"
    BY <1>0, <2>1 DEF Sweep
  <2>3. \A s \in page : source[s.job].status \in Statuses
    BY DEF Pages, Since, SnapshotOf
  <2> QED
    BY <2>2, <2>3
<1>5. CASE ApplyRow
  <2>1. sweep'.rows \subseteq sweep.rows /\ sweep'.ids = sweep.ids /\ sweep'.pc = "apply"
    BY <1>0, <1>5 DEF ApplyRow, Sweep
  <2> QED
    BY <2>1
<1>6. CASE ListLive
  <2>1. \/ sweep' = NoSweep
        \/ sweep' = [sweep EXCEPT !.pc = "verify", !.ids = Oldest({j \in Jobs : Untouched(j)})]
    BY <1>6 DEF ListLive
  <2>2. CASE sweep' = NoSweep
    BY <1>2, <2>2 DEF NoSweep
  <2>3. ASSUME NEW J, sweep' = [sweep EXCEPT !.pc = "verify", !.ids = J]
        PROVE  sweep'.pc = "verify" /\ sweep'.rows = sweep.rows /\ sweep'.ids = J
    BY <1>0, <2>3 DEF Sweep
  <2> QED
    BY <2>1, <2>2, <2>3 DEF Untouched, Oldest
<1>7. CASE Verify
  <2>1. \/ sweep' = NoSweep
        \/ /\ sweep'.pc = "mark" /\ sweep'.rows = sweep.rows
           /\ sweep'.ids = {j \in sweep.ids : source[j].status \notin Statuses}
    BY <1>0, <1>7, VerifyMoves
  <2> QED
    BY <1>2, <2>1 DEF NoSweep
<1>8. ASSUME NEW i \in Jobs, MarkLost(i) PROVE Goal
  <2>1. sweep'.ids \subseteq sweep.ids /\ sweep'.rows = sweep.rows /\ sweep.pc = "mark"
    BY <1>0, <1>8 DEF MarkLost, Sweep
  <2> QED
    BY <2>1
<1>9. \/ sweep' = sweep
      \/ StartSweep \/ Advance \/ SweepFails \/ RestartSweeper \/ EndVerify
      \/ Fetch \/ ApplyRow \/ ListLive \/ Verify \/ \E i \in Jobs : MarkLost(i)
  BY DEF Next, SweepStep, vars, mirror, Read, Delete, Begin, Commit, Abort, PublishAgain, Trim,
         Handle, HandleUnacked, HandleFails
<1> QED
  BY <1>1, <1>3, <1>4, <1>5, <1>6, <1>7, <1>8, <1>9

LEMMA LostNext == TypeOK /\ LostInv /\ [Next]_vars => LostInv'
<1> SUFFICES ASSUME TypeOK, LostInv, [Next]_vars PROVE LostInv'
  OBVIOUS
<1>0. /\ source \in [Jobs -> Row] /\ row \in [Jobs -> Mirrored] /\ "none" \notin Statuses
      /\ "none" \notin Live
      /\ events \subseteq Event /\ sweep.rows \subseteq Snapshot /\ sweep.ids \subseteq Jobs
  BY DEF TypeOK, Sweep, Statuses, Live, Terminal
<1>1. ASSUME NEW j \in Jobs, row'[j].lost PROVE source'[j].status = "gone"
  <2>1. CASE row'[j] = row[j]
    BY <1>1, <2>1, SourceSteps DEF LostInv, LostIsGone
  <2>2. CASE MarkLost(j)
    BY <2>2, SourceSteps DEF LostInv, MarkLost
  <2> QED
    BY <1>1, <2>1, <2>2, RowOrigins
<1>2. ASSUME NEW f \in events' PROVE source'[f.job].status # "none"
  <2>1. CASE \E e \in events : f.job = e.job
    BY <1>0, <2>1, EventFields, SourceSteps DEF LostInv
  <2>2. ASSUME NEW x \in open, Commit(x), Applies(x), f.job = x.job
        PROVE  source'[f.job].status # "none"
    <3>1. x.job \in Jobs /\ x.write \in Writes
      BY DEF TypeOK, Txn
    <3>2. source'[x.job] = [status |-> Outcome(x.write), stamp |-> x.stamp, sent |-> Emits(x.write)]
      BY <1>0, <2>2, <3>1 DEF Commit
    <3> QED
      BY <1>0, <2>2, <3>1, <3>2, OutcomeType
  <2> QED
    BY <2>1, <2>2, EventJobs
<1>3. ASSUME NEW j \in Jobs, row'[j].status # "none" PROVE source'[j].status # "none"
  <2>1. source[j].status # "none"
    <3>1. CASE row'[j] = row[j]
      BY <1>3, <3>1 DEF LostInv
    <3>2. CASE MarkLost(j)
      BY <3>2 DEF MarkLost, LostInv
    <3> QED
      BY <3>1, <3>2, RowOrigins DEF LostInv
  <2> QED
    BY <2>1, SourceSteps
<1>4. ASSUME NEW s \in sweep'.rows PROVE source'[s.job].status # "none"
  <2>1. s.job \in Jobs
    BY TypeNext DEF TypeOK, Sweep, Snapshot
  <2>2. source[s.job].status # "none"
    BY <1>0, SweepOrigins DEF LostInv
  <2> QED
    BY <2>1, <2>2, SourceSteps
<1>5. ASSUME NEW j \in sweep'.ids PROVE source'[j].status # "none"
  <2>1. j \in Jobs
    BY TypeNext DEF TypeOK, Sweep
  <2>2. source[j].status # "none"
    BY <1>0, <2>1, SweepOrigins DEF LostInv
  <2> QED
    BY <2>1, <2>2, SourceSteps
<1>6. ASSUME sweep'.pc = "mark", NEW j \in sweep'.ids PROVE source'[j].status = "gone"
  <2>1. j \in Jobs /\ j \in sweep.ids /\ (sweep.pc = "mark" \/ source[j].status \notin Statuses)
    BY <1>0, <1>6, SweepOrigins
  <2>2. source[j].status = "gone"
    BY <1>0, <2>1 DEF LostInv, Row
  <2> QED
    BY <2>1, <2>2, SourceSteps
<1> QED
  BY <1>1, <1>2, <1>3, <1>4, <1>5, <1>6 DEF LostInv, LostIsGone

\* Only a job whose owner has no row of it any more is given up for lost.
THEOREM OnlyTheGoneAreLost == Spec => []LostIsGone
<1>1. Init => LostInv
  BY DEF Init, LostInv, LostIsGone, NoSweep
<1>2. LostInv => LostIsGone
  BY DEF LostInv
<1> QED
  BY <1>1, <1>2, LostNext, TypeInit, TypeNext, PTL DEF Spec
-----------------------------------------------------------------------------
(* What is promised of each job                                            *)

\* A transaction has the stamp of its begin, which is behind the clock.
BegunInv == \A x \in open : x.stamp < clock

LEMMA BegunNext == TypeOK /\ BegunInv /\ [Next]_vars => BegunInv'
<1> SUFFICES ASSUME TypeOK, BegunInv, [Next]_vars PROVE BegunInv'
  OBVIOUS
<1>0. clock \in Nat /\ \A x \in open : x.stamp \in Nat
  BY DEF TypeOK, Txn, Stamp
<1>1. ASSUME open' \subseteq open, clock' \in {clock, clock + 1} PROVE BegunInv'
  BY <1>0, <1>1 DEF BegunInv
<1>2. ASSUME NEW j \in Jobs, NEW w \in Writes, Begin(j, w) PROVE BegunInv'
  BY <1>0, <1>2 DEF Begin, BegunInv
<1>3. ASSUME NEW x \in open, Commit(x) \/ Abort(x) PROVE BegunInv'
  BY <1>1, <1>3 DEF Commit, Abort
<1>4. ASSUME NEW j \in Jobs, MarkLost(j) PROVE BegunInv'
  BY <1>1, <1>4 DEF MarkLost, owner
<1>5. \/ UNCHANGED <<open, clock>>
      \/ \E j \in Jobs, w \in Writes : Begin(j, w)
      \/ \E x \in open : Commit(x) \/ Abort(x)
      \/ \E j \in Jobs : MarkLost(j)
  BY DEF Next, SweepStep, vars, owner, Read, Delete, StartSweep, Fetch, ApplyRow, Advance,
         SweepFails, RestartSweeper, ListLive, Verify, EndVerify, PublishAgain, Trim, Handle,
         HandleUnacked, HandleFails
<1> QED
  BY <1>1, <1>2, <1>3, <1>4, <1>5

Arriving(e) == e.place \in {"transit", "acked"}

\* Of which events and fetched rows the words about a job are.
Heard(j, E, R, v) ==
  \/ \E e \in E : e.job = j /\ Arriving(e) /\ v = Version(e)
  \/ \E s \in R : s.job = j /\ v = Version(s)

LEMMA SaidIs ==
  ASSUME NEW j
  PROVE  /\ \A v : v \in Said(j) <=> Heard(j, events, sweep.rows, v)
         /\ \A v : v \in Said(j)' <=> Heard(j, events', sweep'.rows, v)
BY DEF Said, Heard, Arriving

LEMMA VersionIs ==
  ASSUME NEW s
  PROVE  Version(s).status = s.status /\ Version(s).stamp = s.stamp
BY DEF Version

LEMMA SameVersion == ASSUME NEW e, NEW f, Same(e, f) PROVE Version(e) = Version(f) /\ e.job = f.job
BY DEF Same, Version

\* An event that may still arrive was one before, unless it is just written.
LEMMA EventsArrive ==
  ASSUME NEW f \in events', Arriving(f), NEW e \in events,
         PublishAgain(e) \/ Trim(e) \/ HandleFails(e) \/ Handle(e) \/ HandleUnacked(e)
  PROVE  \E d \in events : Arriving(d) /\ Same(d, f)
<1>1. CASE f \in events
  BY <1>1 DEF Same
<1>2. CASE f \notin events
  <2>1. PICK place, n, b : f = Moved(e, place, n, b)
    BY <1>2 DEF PublishAgain, Trim, HandleFails, Handle, HandleUnacked, Becomes
  <2>2. Same(e, f)
    BY <2>1 DEF Moved, Same
  <2>3. Arriving(e)
    BY DEF PublishAgain, Trim, HandleFails, Handle, HandleUnacked, Arriving
  <2> QED
    BY <2>2, <2>3
<1> QED
  BY <1>1, <1>2

Quiet(j) == clock' = clock /\ source'[j] = source[j] /\ row'[j] = row[j]
Hushed(j) == \A v : Heard(j, events', sweep'.rows, v) => Heard(j, events, sweep.rows, v)
Step(j) == [Mirroring(j)!Next]_(Mirroring(j)!vars)

LEMMA QuietIsForget == ASSUME NEW j, Quiet(j), Hushed(j) PROVE Step(j)
<1>1. Said(j)' \subseteq Said(j)
  BY SaidIs DEF Hushed
<1>2. Version(source[j])' = Version(source[j])
  BY DEF Version, Quiet
<1> QED
  BY <1>1, <1>2 DEF Step, Mirroring!Next, Mirroring!Forget, Quiet

LEMMA RestIsTick ==
  ASSUME NEW j, source'[j] = source[j], row'[j] = row[j], clock' \in {clock, clock + 1},
         \A v : Heard(j, events', sweep'.rows, v) <=> Heard(j, events, sweep.rows, v)
  PROVE  Step(j)
<1>1. Said(j)' = Said(j)
  BY SaidIs
<1>2. Version(source[j])' = Version(source[j])
  BY DEF Version
<1> QED
  BY <1>1, <1>2 DEF Step, Mirroring!Next, Mirroring!Tick, Mirroring!vars

LEMMA SameStatuses ==
  ASSUME NEW j
  PROVE  Mirroring(j)!Live = Live /\ Mirroring(j)!Terminal = Terminal
BY DEF Mirroring!Live, Mirroring!Terminal, Live, Terminal

\* The WHERE of the upsert, in the words of the promise.
LEMMA AcceptsIsOnward ==
  ASSUME row \in [Jobs -> Mirrored], NEW j \in Jobs, NEW v, v.status \in Statuses, v.stamp \in Stamp,
         Accepts(row[j], v.status, v.stamp)
  PROVE  Mirroring(j)!Onward(v)
<1>1. row[j].status \in Statuses \cup {"none"} /\ row[j].stamp \in Nat /\ v.stamp \in Nat
  BY DEF Mirrored, Stamp
<1> QED
  BY <1>1, SameStatuses, StatusFacts DEF Accepts, Mirroring!Onward, Statuses

LEMMA UpsertIsShow ==
  ASSUME row \in [Jobs -> Mirrored], NEW j \in Jobs, NEW s, s.job \in Jobs, s.status \in Statuses,
         s.stamp \in Stamp, row' = Upserted(s), s.job = j => Version(s) \in Said(j),
         clock' = clock, source' = source, Hushed(j)
  PROVE  Step(j)
<1>1. CASE s.job = j /\ Accepts(row[j], s.status, s.stamp)
  <2>1. row'[j] = [status |-> Version(s).status, stamp |-> Version(s).stamp, lost |-> FALSE]
    BY <1>1, VersionIs DEF Upserted
  <2>2. Said(j)' \subseteq Said(j)
    BY SaidIs DEF Hushed
  <2>3. Version(source[j])' = Version(source[j])
    BY DEF Version
  <2>4. Mirroring(j)!Onward(Version(s))
    BY <1>1, VersionIs, AcceptsIsOnward
  <2>5. Mirroring(j)!Show(Version(s))
    BY <1>1, <2>1, <2>2, <2>3, <2>4 DEF Mirroring!Show
  <2> QED
    BY <1>1, <2>5 DEF Step, Mirroring!Next
<1>2. CASE ~(s.job = j /\ Accepts(row[j], s.status, s.stamp))
  <2>1. row'[j] = row[j]
    BY <1>2 DEF Upserted
  <2> QED
    BY <2>1, QuietIsForget DEF Quiet
<1> QED
  BY <1>1, <1>2

LEMMA EventStepIsMirrored ==
  ASSUME TypeOK, NEW j \in Jobs, NEW e \in events,
         PublishAgain(e) \/ Trim(e) \/ HandleFails(e) \/ Handle(e) \/ HandleUnacked(e)
  PROVE  Step(j)
<1>1. UNCHANGED <<clock, source, sweep>>
  BY DEF PublishAgain, Trim, HandleFails, Handle, HandleUnacked, owner, mirror
<1>2. Hushed(j)
  BY <1>1, EventsArrive, SameVersion DEF Hushed, Heard
<1>3. CASE PublishAgain(e) \/ Trim(e) \/ HandleFails(e)
  BY <1>1, <1>2, <1>3, QuietIsForget DEF Quiet, PublishAgain, Trim, HandleFails, mirror
<1>4. CASE Handle(e) \/ HandleUnacked(e)
  <2>1. e \in Event /\ row' = Upserted(e) /\ Arriving(e)
    BY <1>4 DEF Handle, HandleUnacked, TypeOK, Arriving
  <2>2. e.job \in Jobs /\ e.status \in Statuses /\ e.stamp \in Stamp
    BY <2>1, EventFields
  <2>3. e.job = j => Version(e) \in Said(j)
    BY <2>1, SaidIs DEF Heard
  <2>4. row \in [Jobs -> Mirrored]
    BY DEF TypeOK
  <2> QED
    BY <1>1, <1>2, <2>1, <2>2, <2>3, <2>4, UpsertIsShow
<1> QED
  BY <1>3, <1>4

\* A fetch looks at the row, every other step of the sweep drops rows.
LEMMA SweepIsMirrored ==
  ASSUME TypeOK, NEW j \in Jobs,
         \/ StartSweep \/ Fetch \/ Advance \/ SweepFails \/ RestartSweeper
         \/ ListLive \/ Verify \/ EndVerify
  PROVE  Step(j)
<1>1. UNCHANGED <<clock, source, events, row>>
  BY DEF StartSweep, Fetch, Advance, SweepFails, RestartSweeper, ListLive, Verify, EndVerify, owner
<1>2. Quiet(j)
  BY <1>1 DEF Quiet
<1>3. ASSUME sweep'.rows \subseteq sweep.rows PROVE Step(j)
  <2>1. Hushed(j)
    BY <1>1, <1>3 DEF Hushed, Heard
  <2> QED
    BY <1>2, <2>1, QuietIsForget
<1>4. CASE Fetch
  <2>1. PICK page \in Pages(watermark) : \E w \in NextWatermark(page) :
          sweep' = [sweep EXCEPT !.pc = "apply", !.rows = page, !.next = w]
    BY <1>4 DEF Fetch
  <2>2. sweep'.rows = page
    BY <2>1 DEF TypeOK, Sweep
  <2>3. \A s \in page : s.job = j => s = SnapshotOf(j) /\ source[j].status \in Statuses
    BY DEF Pages, Since, SnapshotOf
  <2>4. Version(SnapshotOf(j)) = Version(source[j])
    BY DEF Version, SnapshotOf
  <2>5. \A v : Heard(j, events', sweep'.rows, v) =>
               Heard(j, events, sweep.rows, v)
               \/ (v = Version(source[j]) /\ source[j].status \in Statuses)
    BY <1>1, <2>2, <2>3, <2>4 DEF Heard
  <2>6. CASE source[j].status \in Statuses
    <3>1. Said(j)' \subseteq Said(j) \cup {Version(source[j])}
      BY <2>5, SaidIs
    <3>2. Version(source[j]).status \in Mirroring(j)!Live \cup Mirroring(j)!Terminal
      BY <2>6, VersionIs, SameStatuses DEF Statuses
    <3>3. Version(source[j])' = Version(source[j])
      BY <1>1 DEF Version
    <3>4. Mirroring(j)!Look
      BY <1>1, <3>1, <3>2, <3>3 DEF Mirroring!Look
    <3> QED
      BY <3>4 DEF Step, Mirroring!Next
  <2>7. CASE source[j].status \notin Statuses
    <3>1. Hushed(j)
      BY <2>5, <2>7 DEF Hushed
    <3> QED
      BY <1>2, <3>1, QuietIsForget
  <2> QED
    BY <2>6, <2>7
<1>5. NoSweep.rows = {} /\ Swept.rows = {} /\ [NoSweep EXCEPT !.pc = "ask", !.start = clock].rows = {}
  BY DEF NoSweep, Swept
<1>6. CASE StartSweep \/ Advance \/ SweepFails \/ RestartSweeper \/ EndVerify
  <2>1. sweep' \in {NoSweep, Swept, [NoSweep EXCEPT !.pc = "ask", !.start = clock]}
    BY <1>6 DEF StartSweep, Advance, SweepFails, RestartSweeper, EndVerify
  <2> QED
    BY <1>3, <1>5, <2>1
<1>7. CASE ListLive
  <2>1. \/ sweep' = NoSweep
        \/ sweep' = [sweep EXCEPT !.pc = "verify", !.ids = Oldest({i \in Jobs : Untouched(i)})]
    BY <1>7 DEF ListLive
  <2>2. ASSUME NEW J, sweep' = [sweep EXCEPT !.pc = "verify", !.ids = J]
        PROVE  sweep'.rows = sweep.rows
    BY <2>2 DEF TypeOK, Sweep
  <2> QED
    BY <1>3, <1>5, <2>1, <2>2
<1>8. CASE Verify
  BY <1>3, <1>5, <1>8, VerifyMoves DEF TypeOK
<1> QED
  BY <1>4, <1>6, <1>7, <1>8

LEMMA ApplyIsMirrored == ASSUME TypeOK, NEW j \in Jobs, ApplyRow PROVE Step(j)
<1>0. sweep \in Sweep /\ row \in [Jobs -> Mirrored]
  BY DEF TypeOK
<1>1. PICK s \in sweep.rows : row' = Upserted(s) /\ sweep' = [sweep EXCEPT !.rows = @ \ {s}]
  BY DEF ApplyRow
<1>2. s \in Snapshot
  BY <1>0 DEF Sweep
<1>3. s.job \in Jobs /\ s.status \in Statuses /\ s.stamp \in Stamp
  BY <1>2 DEF Snapshot
<1>4. sweep'.rows \subseteq sweep.rows
  BY <1>0, <1>1 DEF Sweep
<1>5. UNCHANGED <<clock, source, events>>
  BY DEF ApplyRow, owner
<1>6. Hushed(j)
  BY <1>4, <1>5 DEF Hushed, Heard
<1>7. s.job = j => Version(s) \in Said(j)
  BY SaidIs DEF Heard
<1> QED
  BY <1>0, <1>1, <1>3, <1>5, <1>6, <1>7, UpsertIsShow

LEMMA MarkIsLose ==
  ASSUME TypeOK, LostInv, NEW i \in Jobs, MarkLost(i), NEW j \in Jobs
  PROVE  Step(j)
<1>0. row \in [Jobs -> Mirrored] /\ sweep \in Sweep /\ clock \in Nat
  BY DEF TypeOK, Stamp
<1>1. UNCHANGED <<source, events>> /\ sweep'.rows = sweep.rows
  BY <1>0 DEF MarkLost, owner, Sweep
<1>2. \A v : Heard(j, events', sweep'.rows, v) <=> Heard(j, events, sweep.rows, v)
  BY <1>1
<1>3. CASE row[i].status \in Live /\ i = j
  <2>1. row'[j] = [status |-> "failed", stamp |-> clock, lost |-> TRUE] /\ clock' = clock + 1
    BY <1>0, <1>3 DEF MarkLost
  <2>2. Said(j)' = Said(j)
    BY <1>2, SaidIs
  <2>3. Version(source[j])' = Version(source[j])
    BY <1>1 DEF Version
  <2>4. Version(source[j]).status = "gone"
    BY <1>3, VersionIs DEF MarkLost, LostInv
  <2>5. Mirroring(j)!Lose
    BY <1>3, <2>1, <2>2, <2>3, <2>4, SameStatuses DEF Mirroring!Lose
  <2> QED
    BY <2>5 DEF Step, Mirroring!Next
<1>4. CASE ~(row[i].status \in Live /\ i = j)
  <2>1. row'[j] = row[j] /\ clock' \in {clock, clock + 1}
    BY <1>0, <1>4 DEF MarkLost
  <2> QED
    BY <1>1, <1>2, <2>1, RestIsTick
<1> QED
  BY <1>3, <1>4

LEMMA DeleteIsRemove == ASSUME TypeOK, NEW i \in Jobs, Delete(i), NEW j \in Jobs PROVE Step(j)
<1>0. source \in [Jobs -> Row]
  BY DEF TypeOK
<1>1. UNCHANGED <<clock, events, row, sweep>>
  BY DEF Delete, mirror
<1>2. \A v : Heard(j, events', sweep'.rows, v) <=> Heard(j, events, sweep.rows, v)
  BY <1>1
<1>3. CASE i = j
  <2>1. source'[j] = [status |-> "gone", stamp |-> 0, sent |-> FALSE]
    BY <1>0, <1>3 DEF Delete
  <2>2. Version(source[j])' = [status |-> "gone", stamp |-> 0]
    BY <2>1 DEF Version
  <2>3. Version(source[j]).status \in Mirroring(j)!Live \cup Mirroring(j)!Terminal
    BY <1>3, VersionIs, SameStatuses DEF Delete, Statuses
  <2>4. Said(j)' = Said(j)
    BY <1>2, SaidIs
  <2>5. Mirroring(j)!Remove
    BY <1>1, <2>2, <2>3, <2>4 DEF Mirroring!Remove
  <2> QED
    BY <2>5 DEF Step, Mirroring!Next
<1>4. CASE i # j
  <2>1. source'[j] = source[j]
    BY <1>0, <1>4 DEF Delete
  <2> QED
    BY <1>1, <1>2, <2>1, RestIsTick
<1> QED
  BY <1>3, <1>4

\* The guards of the statements, in the words of the promise.
LEMMA AppliesIsMay ==
  ASSUME source \in [Jobs -> Row], NEW x \in Txn, Applies(x), Emits(x.write)
  PROVE  Mirroring(x.job)!May(Outcome(x.write))
<1>1. x.job \in Jobs /\ x.write \in Writes
  BY DEF Txn
<1>2. Version(source[x.job]).status = source[x.job].status
  BY VersionIs
<1>3. source[x.job].status \in Statuses \cup {"none", "gone"}
  BY <1>1 DEF Row
<1>4. CASE x.write = "create"
  BY <1>2, <1>4 DEF Applies, Outcome, Mirroring!May
<1>5. CASE x.write = "cancel"
  BY <1>2, <1>5, SameStatuses DEF Applies, Outcome, Mirroring!May
<1>6. CASE x.write \in {"start", "complete", "fail"}
  <2>1. Outcome(x.write) \in {"running", "completed", "failed"}
    BY <1>6 DEF Outcome
  <2>2. source[x.job].status \in Live \cup Terminal
    BY <1>3, <1>6 DEF Applies, Statuses
  <2> QED
    BY <1>2, <2>1, <2>2, SameStatuses DEF Mirroring!May
<1> QED
  BY <1>1, <1>4, <1>5, <1>6 DEF Writes, Emits

LEMMA CommitIsWrite ==
  ASSUME TypeOK, BegunInv, NEW x \in open, Commit(x), NEW j \in Jobs
  PROVE  Step(j)
<1>0. /\ source \in [Jobs -> Row] /\ clock \in Nat
      /\ x \in Txn /\ x.job \in Jobs /\ x.write \in Writes /\ x.stamp \in Nat
  BY DEF TypeOK, Txn, Stamp
<1>1. UNCHANGED <<row, sweep>> /\ clock' \in {clock, clock + 1}
  BY DEF Commit, mirror
<1>2. Outcome(x.write) \in Statuses
  BY <1>0, OutcomeType
<1>3. x.stamp \in 0..clock-1
  BY <1>0 DEF BegunInv
<1>4. CASE ~Applies(x)
  <2>1. source' = source /\ events' = events
    BY <1>4 DEF Commit
  <2> QED
    BY <1>1, <2>1, RestIsTick
<1>5. CASE Applies(x) /\ x.job # j
  <2>1. source' = [source EXCEPT ![x.job] =
                    [status |-> Outcome(x.write), stamp |-> x.stamp, sent |-> Emits(x.write)]]
    BY <1>5 DEF Commit
  <2>2. source'[j] = source[j]
    BY <1>0, <1>5, <2>1
  <2>3. Emitted(x).job = x.job
    BY DEF Emitted
  <2>4. events' = events \/ events' = events \cup {Emitted(x)}
    BY <1>5 DEF Commit
  <2>5. \A v : Heard(j, events', sweep'.rows, v) <=> Heard(j, events, sweep.rows, v)
    BY <1>1, <1>5, <2>3, <2>4 DEF Heard
  <2> QED
    BY <1>1, <2>2, <2>5, RestIsTick
<1>6. ASSUME Applies(x), x.job = j
      PROVE  Version(source[j])' = [status |-> Outcome(x.write), stamp |-> x.stamp]
  <2>1. source'[j] = [status |-> Outcome(x.write), stamp |-> x.stamp, sent |-> Emits(x.write)]
    BY <1>0, <1>6 DEF Commit
  <2> QED
    BY <2>1 DEF Version
<1>7. CASE Applies(x) /\ x.job = j /\ Emits(x.write)
  <2>1. events' = events \cup {Emitted(x)} /\ clock' = clock + 1
    BY <1>7 DEF Commit
  <2>2. /\ Emitted(x).job = j /\ Arriving(Emitted(x))
        /\ Version(Emitted(x)) = [status |-> Outcome(x.write), stamp |-> clock]
    BY <1>7 DEF Emitted, Arriving, Version
  <2>3. Said(j)' = Said(j) \cup {[status |-> Outcome(x.write), stamp |-> clock]}
    <3>1. \A v : Heard(j, events', sweep'.rows, v) <=>
                 Heard(j, events, sweep.rows, v)
                 \/ v = [status |-> Outcome(x.write), stamp |-> clock]
      BY <1>1, <2>1, <2>2 DEF Heard
    <3> QED
      BY <3>1, SaidIs
  <2>4. Mirroring(j)!May(Outcome(x.write))
    BY <1>0, <1>7, AppliesIsMay
  <2>5. Mirroring(j)!Write(Outcome(x.write), x.stamp)
    BY <1>1, <1>6, <1>7, <2>1, <2>3, <2>4 DEF Mirroring!Write
  <2> QED
    BY <1>2, <1>3, <2>5, SameStatuses DEF Step, Mirroring!Next, Statuses
<1>8. CASE Applies(x) /\ x.job = j /\ ~Emits(x.write)
  <2>1. events' = events /\ clock' = clock /\ x.write = "reap"
    BY <1>8 DEF Commit, Emits
  <2>2. Version(source[j]).status \in Mirroring(j)!Live
    BY <1>8, <2>1, VersionIs, SameStatuses DEF Applies
  <2>3. Said(j)' = Said(j)
    BY <1>1, <2>1, SaidIs
  <2>4. Outcome(x.write) = "failed"
    BY <2>1 DEF Outcome
  <2>5. Mirroring(j)!Reap(x.stamp)
    BY <1>1, <1>6, <1>8, <2>1, <2>2, <2>3, <2>4 DEF Mirroring!Reap
  <2> QED
    BY <1>3, <2>5 DEF Step, Mirroring!Next
<1> QED
  BY <1>4, <1>5, <1>7, <1>8

LEMMA MirroringNext ==
  ASSUME TypeOK, LostInv, BegunInv, [Next]_vars, NEW j \in Jobs
  PROVE  Step(j)
<1>1. ASSUME UNCHANGED <<source, row, events, sweep>>, clock' \in {clock, clock + 1} PROVE Step(j)
  BY <1>1, RestIsTick
<1>2. ASSUME NEW i \in Jobs, NEW w \in Writes, Read(i) \/ Begin(i, w) PROVE Step(j)
  BY <1>1, <1>2 DEF Read, Begin, mirror
<1>3. ASSUME NEW x \in open, Abort(x) PROVE Step(j)
  BY <1>1, <1>3 DEF Abort, mirror
<1>4. CASE UNCHANGED vars
  BY <1>1, <1>4 DEF vars, owner, mirror
<1>5. ASSUME NEW i \in Jobs, Read(i) PROVE Step(j)
  BY <1>1, <1>5 DEF Read, mirror
<1> QED
  BY <1>2, <1>3, <1>4, <1>5, DeleteIsRemove, CommitIsWrite, EventStepIsMirrored, SweepIsMirrored,
     ApplyIsMirrored, MarkIsLose DEF Next, SweepStep

LEMMA MirroringInit == ASSUME Init, NEW j \in Jobs PROVE Mirroring(j)!Init
<1>1. clock \in Nat \ {0} /\ Cardinality(setup.old) \in Nat /\ clock = Cardinality(setup.old) + 1
  BY SetupsAreJobs, JobsAreFinite, FS_Subset, FS_CardinalityType DEF Init
<1>2. \/ Version(source[j]) = [status |-> "none", stamp |-> 0]
      \/ \E s \in 0..clock-1 : Version(source[j]) = [status |-> "running", stamp |-> s]
  <2>1. PICK at \in [setup.old -> 1..Cardinality(setup.old)] :
          source = [i \in Jobs |->
            IF i \in setup.old THEN [status |-> "running", stamp |-> at[i], sent |-> FALSE]
            ELSE [status |-> "none", stamp |-> 0, sent |-> FALSE]]
    BY DEF Init
  <2>2. CASE j \in setup.old
    <3>1. Version(source[j]) = [status |-> "running", stamp |-> at[j]]
      BY <2>1, <2>2 DEF Version
    <3>2. at[j] \in 0..clock-1
      BY <1>1, <2>1, <2>2
    <3> QED
      BY <3>1, <3>2
  <2>3. CASE j \notin setup.old
    BY <2>1, <2>3 DEF Version
  <2> QED
    BY <2>2, <2>3
<1>3. events = {} /\ sweep.rows = {}
  BY DEF Init, NoSweep
<1>4. Said(j) = {}
  BY <1>3, SaidIs DEF Heard
<1>5. row[j] = [status |-> "none", stamp |-> 0, lost |-> FALSE]
  BY DEF Init
<1> QED
  BY <1>1, <1>2, <1>4, <1>5 DEF Mirroring!Init

\* What the mirror shows of every job is what its owner said, in an order that
\* takes back no end, and only a job whose row is gone is given up for lost:
\* JobMirror, with its events, sweeps and marks, implements MirroredJob.
THEOREM ImplementsMirroring == Spec => MirrorsOwner
<1>1. Init => TypeOK /\ LostInv /\ BegunInv /\ \A j \in Jobs : Mirroring(j)!Init
  <2>1. Init => LostInv
    BY DEF Init, LostInv, LostIsGone, NoSweep
  <2>2. Init => BegunInv
    BY DEF Init, BegunInv
  <2> QED
    BY <2>1, <2>2, TypeInit, MirroringInit
<1>2. TypeOK /\ LostInv /\ BegunInv /\ [Next]_vars =>
        \A j \in Jobs : [Mirroring(j)!Next]_(Mirroring(j)!vars)
  BY MirroringNext DEF Step
<1> QED
  BY <1>1, <1>2, TypeNext, LostNext, BegunNext, PTL DEF Spec, MirrorsOwner

\* In the form of the abstract specification, for each job by itself.
THEOREM MirrorsEachJob ==
  ASSUME NEW j \in Jobs
  PROVE  Spec => Mirroring(j)!Spec
<1>1. Init => TypeOK /\ LostInv /\ BegunInv /\ Mirroring(j)!Init
  <2>1. Init => LostInv
    BY DEF Init, LostInv, LostIsGone, NoSweep
  <2>2. Init => BegunInv
    BY DEF Init, BegunInv
  <2> QED
    BY <2>1, <2>2, TypeInit, MirroringInit
<1>2. TypeOK /\ LostInv /\ BegunInv /\ [Next]_vars => [Mirroring(j)!Next]_(Mirroring(j)!vars)
  BY MirroringNext DEF Step
<1> QED
  BY <1>1, <1>2, TypeNext, LostNext, BegunNext, PTL DEF Spec, Mirroring!Spec

-----------------------------------------------------------------------------
(* What follows from the promise alone                                     *)

\* All stamps are behind the clock, and once a job is lost nothing that could
\* still arrive is as late as its mark.
PastInv(j) ==
  /\ clock \in Nat \ {0}
  /\ Version(source[j]).stamp \in 0..clock-1
  /\ \A v \in Said(j) : v.stamp \in 0..clock-1
  /\ row[j].lost =>
       /\ Version(source[j]).status = "gone"
       /\ row[j].status = "failed" /\ row[j].stamp \in Nat
       /\ \A v \in Said(j) : v.stamp < row[j].stamp

\* A version is shown only if it is as late as an end that is shown already.
LEMMA EndsYieldToLaterOnly ==
  ASSUME NEW j, NEW v, Mirroring(j)!Onward(v), row[j].status = "failed"
  PROVE  row[j].stamp <= v.stamp
BY DEF Mirroring!Onward, Mirroring!Live

LEMMA PastNext ==
  ASSUME NEW j, PastInv(j), Mirroring(j)!Next
  PROVE  PastInv(j)' /\ (row[j].lost => row'[j] = row[j])
<1> DEFINE Goal == PastInv(j)' /\ (row[j].lost => row'[j] = row[j])
<1>1. ASSUME NEW status, NEW begun \in 0..clock-1, Mirroring(j)!Write(status, begun) PROVE Goal
  <2>1. /\ Version(source[j])' = [status |-> status, stamp |-> begun]
        /\ Said(j)' = Said(j) \cup {[status |-> status, stamp |-> clock]}
        /\ clock' = clock + 1 /\ row'[j] = row[j]
    BY <1>1 DEF Mirroring!Write
  <2>2. Version(source[j])'.stamp = begun
    BY <2>1
  <2>3. Version(source[j]).status # "gone"
    BY <1>1 DEF Mirroring!Write, Mirroring!May, Mirroring!Live, Mirroring!Terminal
  <2>4. ~row[j].lost
    BY <2>3 DEF PastInv
  <2>5. \A v \in Said(j)' : v.stamp \in 0..clock
    BY <2>1 DEF PastInv
  <2> QED
    BY <2>1, <2>2, <2>4, <2>5 DEF PastInv
<1>2. ASSUME NEW begun \in 0..clock-1, Mirroring(j)!Reap(begun) PROVE Goal
  <2>1. Version(source[j])' = [status |-> "failed", stamp |-> begun]
    BY <1>2 DEF Mirroring!Reap
  <2>2. Version(source[j]).status # "gone"
    BY <1>2 DEF Mirroring!Reap, Mirroring!Live
  <2>3. clock' = clock /\ Said(j)' = Said(j) /\ row'[j] = row[j]
    BY <1>2 DEF Mirroring!Reap
  <2> QED
    BY <2>1, <2>2, <2>3 DEF PastInv
<1>3. ASSUME NEW v \in Said(j), Mirroring(j)!Show(v) PROVE Goal
  <2>1. /\ Said(j)' \subseteq Said(j) /\ clock' = clock
        /\ Version(source[j])' = Version(source[j])
        /\ row'[j] = [status |-> v.status, stamp |-> v.stamp, lost |-> FALSE]
    BY <1>3 DEF Mirroring!Show
  <2>2. ~row[j].lost
    <3>1. Mirroring(j)!Onward(v)
      BY <1>3 DEF Mirroring!Show
    <3> QED
      BY <3>1, EndsYieldToLaterOnly DEF PastInv
  <2>3. ~row'[j].lost
    BY <2>1
  <2> QED
    BY <2>1, <2>2, <2>3 DEF PastInv
<1>4. CASE Mirroring(j)!Remove
  <2>1. Version(source[j])' = [status |-> "gone", stamp |-> 0]
    BY <1>4 DEF Mirroring!Remove
  <2>2. clock' = clock /\ Said(j)' = Said(j) /\ row'[j] = row[j]
    BY <1>4 DEF Mirroring!Remove
  <2> QED
    BY <2>1, <2>2 DEF PastInv
<1>5. CASE Mirroring(j)!Look
  <2>1. /\ Said(j)' \subseteq Said(j) \cup {Version(source[j])} /\ clock' = clock
        /\ Version(source[j])' = Version(source[j]) /\ row'[j] = row[j]
    BY <1>5 DEF Mirroring!Look
  <2>2. Version(source[j]).status # "gone"
    BY <1>5 DEF Mirroring!Look, Mirroring!Live, Mirroring!Terminal
  <2>3. \A v \in Said(j)' : v.stamp \in 0..clock-1
    BY <2>1 DEF PastInv
  <2> QED
    BY <2>1, <2>2, <2>3 DEF PastInv
<1>6. CASE Mirroring(j)!Forget
  BY <1>6 DEF Mirroring!Forget, PastInv
<1>7. CASE Mirroring(j)!Lose
  <2>1. /\ Said(j)' = Said(j) /\ clock' = clock + 1
        /\ Version(source[j])' = Version(source[j]) /\ Version(source[j]).status = "gone"
        /\ row'[j] = [status |-> "failed", stamp |-> clock, lost |-> TRUE]
    BY <1>7 DEF Mirroring!Lose
  <2>2. ~row[j].lost
    BY <1>7 DEF Mirroring!Lose, Mirroring!Live, PastInv
  <2>3. row'[j].status = "failed" /\ row'[j].stamp = clock
    BY <2>1
  <2>4. \A v \in Said(j)' : v.stamp \in 0..clock-1
    BY <2>1 DEF PastInv
  <2> QED
    BY <2>1, <2>2, <2>3, <2>4 DEF PastInv
<1>8. CASE Mirroring(j)!Tick
  <2>1. /\ Said(j)' = Said(j) /\ clock' = clock + 1 /\ row'[j] = row[j]
        /\ Version(source[j])' = Version(source[j])
    BY <1>8 DEF Mirroring!Tick
  <2> QED
    BY <2>1 DEF PastInv
<1> QED
  BY <1>1, <1>2, <1>3, <1>4, <1>5, <1>6, <1>7, <1>8 DEF Mirroring!Next

\* A job given up for lost stays so.
LostForGood == [][\A j \in Jobs : row[j].lost => row'[j] = row[j]]_vars

LEMMA PastInit == ASSUME Init, NEW j \in Jobs PROVE PastInv(j)
<1>1. Mirroring(j)!Init
  BY MirroringInit
<1>2. clock \in Nat \ {0} /\ Said(j) = {} /\ ~row[j].lost
  BY <1>1 DEF Mirroring!Init
<1>3. Version(source[j]).stamp \in 0..clock-1
  <2>1. CASE Version(source[j]) = [status |-> "none", stamp |-> 0]
    BY <1>2, <2>1
  <2>2. ASSUME NEW s \in 0..clock-1, Version(source[j]) = [status |-> "running", stamp |-> s]
        PROVE  Version(source[j]).stamp \in 0..clock-1
    BY <2>2
  <2> QED
    BY <1>1, <2>1, <2>2 DEF Mirroring!Init
<1> QED
  BY <1>2, <1>3 DEF PastInv

\* No event that was on its way, and no row that a sweep has in hand, is as late
\* as the mark of a job that was given up for lost, so nothing brings it back.
THEOREM LostIsFinal == Spec => LostForGood
<1> DEFINE AllPast == \A j \in Jobs : PastInv(j)
<1>1. Init => TypeOK /\ LostInv /\ BegunInv /\ AllPast
  <2>1. Init => LostInv
    BY DEF Init, LostInv, LostIsGone, NoSweep
  <2>2. Init => BegunInv
    BY DEF Init, BegunInv
  <2> QED
    BY <2>1, <2>2, TypeInit, PastInit
<1>2. ASSUME TypeOK, LostInv, BegunInv, AllPast, [Next]_vars, NEW j \in Jobs
      PROVE  PastInv(j)' /\ (row[j].lost => row'[j] = row[j])
  <2>1. Step(j) /\ PastInv(j)
    BY <1>2, MirroringNext
  <2>2. CASE Mirroring(j)!Next
    BY <2>1, <2>2, PastNext
  <2>3. CASE UNCHANGED Mirroring(j)!vars
    BY <2>1, <2>3 DEF PastInv, Mirroring!vars
  <2> QED
    BY <2>1, <2>2, <2>3 DEF Step
<1>3. TypeOK /\ LostInv /\ BegunInv /\ AllPast /\ [Next]_vars => AllPast'
  BY <1>2
<1>4. TypeOK /\ LostInv /\ BegunInv /\ AllPast /\ [Next]_vars =>
        [\A j \in Jobs : row[j].lost => row'[j] = row[j]]_vars
  BY <1>2
<1> QED
  BY <1>1, <1>3, <1>4, TypeNext, LostNext, BegunNext, PTL DEF Spec, LostForGood
=============================================================================
