--------------------------- MODULE LlmJobFaults_proofs ---------------------------
(***************************************************************************)
(* Proofs about LlmJob that go through its goroutines, handlers and        *)
(* messages rather than its records: a cancelled job has no live call, an  *)
(* accepted one is backed by its message, every end is audited, and the    *)
(* hold of a direct run outlasts it; each in the absence of those faults   *)
(* that break it.                                                          *)
(***************************************************************************)
EXTENDS LlmJob_proofs

-----------------------------------------------------------------------------
(* What a step does to a goroutine.                                        *)

\* From w to v, for job j.
Move(w, v, j) ==
  \/ /\ v.pc = w.pc /\ (v.live => w.live)
     /\ w.live => v.live \/ w.pc \in {"claimed", "answered", "settle"} \/ canceller[j].pc = "abort"
  \/ v.pc = "none"
  \/ v.pc = "delivered" /\ w.pc = "none" /\ message[j] = "queued"
  \/ v.pc = "loaded" /\ v.live /\ (w.pc = "delivered" \/ submit[j].pc = "inserted")
  \/ v.pc = "claimed" /\ w.pc = "loaded" /\ row[j].status = "pending" /\ row'[j].status = "running"
  \/ v.pc = "answered" /\ w.pc = "loaded" /\ ("database" \in Faults)
  \/ v.pc = "answered" /\ w.pc = "claimed"
  \/ v.pc = "settle" /\ w.pc = "answered"
Moves == \A p \in Replicas, j \in Jobs : Move(runner[p][j], runner'[p][j], j)

\* A goroutine may stay as it is, or return.
LEMMA MoveTrivial ==
  ASSUME NEW w, NEW j
  PROVE  Move(w, w, j) /\ Move(w, NoRunner, j)
  BY DEF Move, NoRunner

\* A step of one goroutine moves that one.
LEMMA MoveOne ==
  ASSUME TypeOK, NEW q \in Replicas, NEW k \in Jobs, NEW v,
         runner' = [runner EXCEPT ![q][k] = v], Move(runner[q][k], v, k)
  PROVE  Moves
  <1> SUFFICES ASSUME NEW p \in Replicas, NEW j \in Jobs
               PROVE  Move(runner[p][j], runner'[p][j], j)
    BY DEF Moves
  <1>1. runner'[p][j] = IF p = q /\ j = k THEN v ELSE runner[p][j]
    BY DEF TypeOK
  <1>2. Move(runner[p][j], runner[p][j], j)
    BY MoveTrivial
  <1> QED BY <1>1, <1>2

\* Without one, or with one that returns, there is nothing else to see.
LEMMA MoveNone ==
  /\ UNCHANGED runner => Moves
  /\ \A p \in Replicas, j \in Jobs : TypeOK /\ Returns(p, j) => Moves
  <1>1. UNCHANGED runner => Moves
    BY MoveTrivial DEF Moves
  <1>2. ASSUME TypeOK, NEW p \in Replicas, NEW j \in Jobs, Returns(p, j) PROVE Moves
    <2>1. runner' = [runner EXCEPT ![p][j] = NoRunner]
      BY <1>2 DEF Returns
    <2>2. Move(runner[p][j], NoRunner, j)
      BY MoveTrivial
    <2> QED BY <1>2, <2>1, <2>2, MoveOne
  <1> QED BY <1>1, <1>2

\* The records the worker's steps write.
LEMMA RunnerFields ==
  ASSUME NEW w \in Runner
  PROVE  /\ \A pc : [w EXCEPT !.pc = pc].pc = pc /\ ([w EXCEPT !.pc = pc].live <=> w.live)
         /\ \A pc : [w EXCEPT !.pc = pc, !.live = TRUE].pc = pc /\ [w EXCEPT !.pc = pc, !.live = TRUE].live
         /\ \A pc, b : [w EXCEPT !.pc = pc, !.outcome = b].pc = pc
         /\ \A pc, b : [w EXCEPT !.pc = pc, !.billed = b].pc = pc
         /\ [w EXCEPT !.live = FALSE].pc = w.pc /\ ~[w EXCEPT !.live = FALSE].live
  BY DEF Runner

\* The worker's own steps.
LEMMA RunnerStepMoves ==
  ASSUME TypeOK, NEW p \in Replicas, NEW j \in Jobs, RunnerStep(p, j)
  PROVE  Moves
  <1> DEFINE w == runner[p][j]
  <1>0. w \in Runner
    BY DEF TypeOK
  <1>1. CASE Load(p, j)
    <2>1. CASE Returns(p, j)
      BY <2>1, MoveNone
    <2>2. CASE ~Returns(p, j)
      <3> DEFINE v == [w EXCEPT !.pc = "loaded", !.live = TRUE]
      <3>1. runner' = [runner EXCEPT ![p][j].pc = "loaded", ![p][j].live = TRUE] /\ w.pc = "delivered"
        BY <1>1, <2>2 DEF Load
      <3>2. runner' = [runner EXCEPT ![p][j] = v]
        BY <3>1
      <3>3. v.pc = "loaded" /\ v.live
        BY <1>0, RunnerFields
      <3> HIDE DEF v
      <3>4. Move(w, v, j)
        BY <3>1, <3>3 DEF Move
      <3> QED BY <3>2, <3>4, MoveOne
    <2> QED BY <2>1, <2>2
  <1>2. CASE Drop(p, j) \/ FinalizeError(p, j)
    BY <1>2, MoveNone DEF Drop, FinalizeError
  <1>3. CASE Claim(p, j)
    <2>1. CASE Returns(p, j)
      BY <2>1, MoveNone
    <2>2. CASE ~Returns(p, j)
      <3> DEFINE v == [w EXCEPT !.pc = "claimed"]
      <3>1. /\ runner' = [runner EXCEPT ![p][j] = v]
            /\ w.pc = "loaded" /\ row[j].status = "pending"
        BY <1>3, <2>2 DEF Claim, Claimable
      <3>2. v.pc = "claimed"
        BY <1>0, RunnerFields
      <3>4. row'[j].status = "running"
        <4>1. row[j] \in Row
          BY DEF TypeOK
        <4>2. row' = [row EXCEPT ![j] = [row[j] EXCEPT !.status = "running", !.ran = 0, !.idle = 0]]
          BY <1>3, <2>2 DEF Claim, MarkedRunning
        <4> QED BY <4>1, <4>2, StatusOf DEF TypeOK
      <3> HIDE DEF v
      <3>3. Move(w, v, j)
        BY <3>1, <3>2, <3>4 DEF Move
      <3> QED BY <3>1, <3>3, MoveOne
    <2> QED BY <2>1, <2>2
  <1>4. CASE Progress(p, j)
    BY <1>4, MoveNone DEF Progress
  <1>5. ASSUME NEW written \in BOOLEAN, ClaimError(p, j, written) PROVE Moves
    <2> DEFINE v == [w EXCEPT !.pc = "answered"]
    <2>1. runner' = [runner EXCEPT ![p][j] = v] /\ w.pc = "loaded" /\ "database" \in Faults
      BY <1>5 DEF ClaimError, MayFail
    <2>2. v.pc = "answered"
      BY <1>0, RunnerFields
    <2> HIDE DEF v
    <2>3. Move(w, v, j)
      BY <2>1, <2>2 DEF Move
    <2> QED BY <2>1, <2>3, MoveOne
  <1>6. ASSUME NEW outcome \in Outcomes, Answer(p, j, outcome) PROVE Moves
    <2> DEFINE v == [w EXCEPT !.pc = "answered", !.outcome = outcome]
    <2>1. runner' = [runner EXCEPT ![p][j].pc = "answered", ![p][j].outcome = outcome] /\ w.pc = "claimed"
      BY <1>6 DEF Answer
    <2>2. runner' = [runner EXCEPT ![p][j] = v]
      BY <2>1
    <2>3. v.pc = "answered"
      BY <1>0, RunnerFields
    <2> HIDE DEF v
    <2>4. Move(w, v, j)
      BY <2>1, <2>3 DEF Move
    <2> QED BY <2>2, <2>4, MoveOne
  <1>7. ASSUME NEW billed \in BOOLEAN, NEW confirmed \in BOOLEAN, Finalize(p, j, billed, confirmed)
        PROVE  Moves
    <2>1. CASE Returns(p, j)
      BY <2>1, MoveNone
    <2>2. CASE ~Returns(p, j)
      <3> DEFINE v == [w EXCEPT !.pc = "settle", !.billed = billed]
      <3>1. runner' = [runner EXCEPT ![p][j].pc = "settle", ![p][j].billed = billed] /\ w.pc = "answered"
        BY <1>7, <2>2 DEF Finalize
      <3>2. runner' = [runner EXCEPT ![p][j] = v]
        BY <3>1
      <3>3. v.pc = "settle"
        BY <1>0, RunnerFields
      <3> HIDE DEF v
      <3>4. Move(w, v, j)
        BY <3>1, <3>3 DEF Move
      <3> QED BY <3>2, <3>4, MoveOne
    <2> QED BY <2>1, <2>2
  <1>8. ASSUME NEW arrives \in BOOLEAN, Settle(p, j, arrives) PROVE Moves
    BY <1>8, MoveNone DEF Settle
  <1> QED BY <1>1, <1>2, <1>3, <1>4, <1>5, <1>6, <1>7, <1>8 DEF RunnerStep

\* Every step.
LEMMA RunnerMoves == TypeOK /\ [Next]_vars => Moves
  <1> SUFFICES ASSUME TypeOK, [Next]_vars PROVE Moves
    OBVIOUS
  <1>0. ASSUME UNCHANGED runner PROVE Moves
    BY <1>0, MoveNone
  <1>1. ASSUME NEW j \in Jobs, SubmitStep(j) PROVE Moves
    <2>1. ASSUME NEW a \in BOOLEAN, NEW b \in BOOLEAN, Reserve(j, a, b) \/ Insert(j, a, b) \/ Publish(j)
          PROVE  Moves
      BY <1>0, <2>1 DEF Reserve, Insert, Publish
    <2>2. ASSUME NEW sent \in BOOLEAN, DirectDispatch(j, sent) PROVE Moves
      <3> DEFINE q == submit[j].at
                 v == [NoRunner EXCEPT !.pc = "loaded", !.live = TRUE, !.direct = TRUE]
      <3>1. q \in Replicas
        BY DEF TypeOK, Submit
      <3>2. v.pc = "loaded" /\ v.live
        BY DEF NoRunner
      <3>3. runner' = [runner EXCEPT ![q][j] = v] /\ submit[j].pc = "inserted"
        BY <2>2 DEF DirectDispatch
      <3> HIDE DEF q, v
      <3>4. Move(runner[q][j], v, j)
        BY <3>2, <3>3 DEF Move
      <3> QED BY <3>1, <3>3, <3>4, MoveOne
    <2> QED BY <1>1, <2>1, <2>2 DEF SubmitStep
  <1>2. ASSUME NEW j \in Jobs, Abort(j) PROVE Moves
    <2> DEFINE q == canceller[j].at
               v == [runner[q][j] EXCEPT !.live = FALSE]
    <2>1. q \in Replicas
      BY DEF TypeOK, Canceller
    <2>2. runner[q][j] \in Runner
      BY <2>1 DEF TypeOK
    <2>3. runner' = [runner EXCEPT ![q][j] = v] /\ canceller[j].pc = "abort"
      BY <1>2 DEF Abort, AbortedRunner
    <2>4. v.pc = runner[q][j].pc /\ ~v.live
      BY <2>2, RunnerFields
    <2> HIDE DEF q, v
    <2>5. Move(runner[q][j], v, j)
      BY <2>3, <2>4 DEF Move
    <2> QED BY <2>1, <2>3, <2>5, MoveOne
  <1>3. ASSUME NEW q \in Replicas, NEW j \in Jobs, WallclockExpires(q, j) PROVE Moves
    <2> DEFINE v == [runner[q][j] EXCEPT !.live = FALSE]
    <2>1. runner[q][j] \in Runner
      BY DEF TypeOK
    <2>2. runner' = [runner EXCEPT ![q][j] = v] /\ runner[q][j].pc \in {"claimed", "answered", "settle"}
      BY <1>3 DEF WallclockExpires
    <2>3. v.pc = runner[q][j].pc /\ ~v.live
      BY <2>1, RunnerFields
    <2> HIDE DEF v
    <2>4. Move(runner[q][j], v, j)
      BY <2>2, <2>3 DEF Move
    <2> QED BY <2>2, <2>4, MoveOne
  <1>4. ASSUME NEW q \in Replicas, NEW j \in Jobs, Deliver(q, j) PROVE Moves
    <2> DEFINE v == [NoRunner EXCEPT !.pc = "delivered"]
    <2>1. v.pc = "delivered"
      BY DEF NoRunner
    <2>2. runner' = [runner EXCEPT ![q][j] = v] /\ runner[q][j].pc = "none" /\ message[j] = "queued"
      BY <1>4 DEF Deliver
    <2> HIDE DEF v
    <2>3. Move(runner[q][j], v, j)
      BY <2>1, <2>2 DEF Move
    <2> QED BY <2>2, <2>3, MoveOne
  <1>5. ASSUME NEW q \in Replicas, Crash(q) PROVE Moves
    <2>1. \A p \in Replicas, j \in Jobs : runner'[p][j] = IF p = q THEN NoRunner ELSE runner[p][j]
      BY <1>5 DEF Crash, TypeOK
    <2> QED BY <2>1, MoveTrivial DEF Moves
  <1>6. ASSUME NEW j \in Jobs, NEW arrives \in BOOLEAN,
               CancelRelease(j, arrives) \/ StuckSweep(j) \/ HoldLapses(j)
        PROVE  UNCHANGED runner
    BY <1>6 DEF CancelRelease, StuckSweep, HoldLapses
  <1>7. ASSUME NEW q \in Replicas, NEW j \in Jobs, NEW confirmed \in BOOLEAN, Cancel(q, j, confirmed)
        PROVE  UNCHANGED runner
    BY <1>7 DEF Cancel
  <1>8. ASSUME NEW q \in Replicas, ConnectionLost(q) PROVE UNCHANGED runner
    BY <1>8 DEF ConnectionLost
  <1>9. CASE Tick \/ UNCHANGED vars
    BY <1>0, <1>9 DEF Tick, vars
  <1> QED BY <1>0, <1>1, <1>2, <1>3, <1>4, <1>5, <1>6, <1>7, <1>8, <1>9, RunnerStepMoves
          DEF Next, CancelStep

-----------------------------------------------------------------------------
(* DELETE.  A handler is at work only for a job it has cancelled, and no   *)
(* worker claims a job that is cancelled.                                  *)

Cancelled == \A j \in Jobs : canceller[j].pc # "none" => row[j].status = "cancelled"

\* What a step does to the handler of a job.
CancellerMove(j) ==
  \/ canceller'[j] = canceller[j]
  \/ canceller'[j].pc = "abort" /\ row'[j].status = "cancelled"
  \/ /\ canceller[j].pc \in {"abort", "release"} /\ canceller'[j].at = canceller[j].at
     /\ \/ canceller[j].pc = "release"
        \/ ~runner'[canceller[j].at][j].live
        \/ runner'[canceller[j].at][j].pc = "none"

\* The handlers of other jobs stay as they are.
LEMMA CancellerOne ==
  ASSUME TypeOK, NEW j \in Jobs, NEW k \in Jobs, NEW v, canceller' = [canceller EXCEPT ![k] = v],
         j = k => CancellerMove(k)
  PROVE  CancellerMove(j)
  BY DEF TypeOK, CancellerMove

\* The records the handler writes.
LEMMA CancellerFields ==
  ASSUME NEW c \in Canceller, NEW pc
  PROVE  [c EXCEPT !.pc = pc].at = c.at
  BY DEF Canceller

\* Every step is such a move.
LEMMA CancellerMoves == ASSUME TypeOK, [Next]_vars, NEW j \in Jobs PROVE CancellerMove(j)
  <1>0. canceller[j] \in Canceller /\ row[j] \in Row
    BY DEF TypeOK
  <1>1. ASSUME UNCHANGED canceller PROVE CancellerMove(j)
    BY <1>1 DEF CancellerMove
  <1>2. ASSUME NEW p \in Replicas, NEW k \in Jobs, NEW confirmed \in BOOLEAN, Cancel(p, k, confirmed)
        PROVE  CancellerMove(j)
    <2>1. canceller' = [canceller EXCEPT ![k] = [pc |-> "abort", at |-> p]] \/ canceller' = canceller
      BY <1>2 DEF Cancel
    <2>2. row' = [row EXCEPT ![k] = [row[k] EXCEPT !.status = "cancelled"]]
      BY <1>2 DEF Cancel
    <2>3. j = k => row'[j].status = "cancelled"
      BY <1>0, <2>2, StatusOf DEF TypeOK
    <2>4. canceller'[j] = canceller[j] \/ (j = k /\ canceller'[j].pc = "abort")
      BY <2>1 DEF TypeOK
    <2> QED BY <2>3, <2>4 DEF CancellerMove
  <1>3. ASSUME NEW k \in Jobs, Abort(k) PROVE CancellerMove(j)
    <2> DEFINE q == canceller[k].at
    <2>1. q \in Replicas /\ canceller[k] \in Canceller
      BY DEF TypeOK, Canceller
    <2>2. runner[q][k] \in Runner
      BY <2>1 DEF TypeOK
    <2>3. runner' = [runner EXCEPT ![q][k] = [runner[q][k] EXCEPT !.live = FALSE]]
      BY <1>3 DEF Abort, AbortedRunner
    <2>4. runner'[q][k] = [runner[q][k] EXCEPT !.live = FALSE]
      BY <2>1, <2>3 DEF TypeOK
    <2>5. ~runner'[q][k].live
      BY <2>2, <2>4, RunnerFields
    <2>6. canceller' = [canceller EXCEPT ![k] = [canceller[k] EXCEPT !.pc = "release"]]
          /\ canceller[k].pc = "abort"
      BY <1>3 DEF Abort
    <2>7. canceller'[k].at = canceller[k].at
      BY <2>1, <2>6, CancellerFields DEF TypeOK
    <2>8. CancellerMove(k)
      BY <2>5, <2>6, <2>7 DEF CancellerMove
    <2> QED BY <2>6, <2>8, CancellerOne
  <1>4. ASSUME NEW k \in Jobs, NEW arrives \in BOOLEAN, CancelRelease(k, arrives) PROVE CancellerMove(j)
    <2>1. canceller' = [canceller EXCEPT ![k] = [canceller[k] EXCEPT !.pc = "done"]]
          /\ canceller[k].pc = "release" /\ canceller[k] \in Canceller
      BY <1>4 DEF CancelRelease, TypeOK
    <2>2. canceller'[k].at = canceller[k].at
      BY <2>1, CancellerFields DEF TypeOK
    <2>3. CancellerMove(k)
      BY <2>1, <2>2 DEF CancellerMove
    <2> QED BY <2>1, <2>3, CancellerOne
  <1>5. ASSUME NEW p \in Replicas, Crash(p) PROVE CancellerMove(j)
    <2>1. CASE canceller[j].at = p /\ canceller[j].pc \in {"abort", "release"}
      <3>1. canceller'[j] = [canceller[j] EXCEPT !.pc = "done"]
        BY <1>5, <2>1 DEF Crash
      <3>2. canceller'[j].at = canceller[j].at
        BY <1>0, <3>1, CancellerFields
      <3>3. runner'[p][j] = NoRunner
        BY <1>5 DEF Crash, TypeOK
      <3> QED BY <2>1, <3>2, <3>3 DEF CancellerMove, NoRunner
    <2>2. CASE ~(canceller[j].at = p /\ canceller[j].pc \in {"abort", "release"})
      <3>1. canceller'[j] = canceller[j]
        BY <1>5, <2>2 DEF Crash
      <3> QED BY <3>1 DEF CancellerMove
    <2> QED BY <2>1, <2>2
  <1>6. ASSUME NEW k \in Jobs, SubmitStep(k) \/ StuckSweep(k) \/ HoldLapses(k)
        PROVE  UNCHANGED canceller
    BY <1>6 DEF SubmitStep, Reserve, Insert, Publish, DirectDispatch, StuckSweep, HoldLapses
  <1>7. ASSUME NEW p \in Replicas, NEW k \in Jobs, RunnerStep(p, k) PROVE UNCHANGED canceller
    BY <1>7 DEF RunnerStep, Load, Drop, Claim, Progress, FinalizeError, ClaimError, Answer, Finalize,
                Settle
  <1>8. ASSUME NEW p \in Replicas, NEW k \in Jobs, Deliver(p, k) \/ WallclockExpires(p, k)
        PROVE  UNCHANGED canceller
    BY <1>8 DEF Deliver, WallclockExpires
  <1>9. ASSUME NEW p \in Replicas, ConnectionLost(p) PROVE UNCHANGED canceller
    BY <1>9 DEF ConnectionLost
  <1>10. CASE Tick \/ UNCHANGED vars
    BY <1>1, <1>10 DEF Tick, vars
  <1> QED BY <1>1, <1>2, <1>3, <1>4, <1>5, <1>6, <1>7, <1>8, <1>9, <1>10 DEF Next, CancelStep

Aborted == Records /\ Cancelled /\ CancelAborts

\* Before anything was submitted nothing is cancelled.
LEMMA AbortedInit == Init => Aborted
  <1> SUFFICES ASSUME Init PROVE Aborted
    OBVIOUS
  <1>1. PICK p \in Replicas : canceller = [j \in Jobs |-> [pc |-> "none", at |-> p]]
    BY DEF Init
  <1> QED BY <1>1, RecordsInit DEF Aborted, Cancelled, CancelAborts

\* The end of a cancelled job is final.
LEMMA CancelledNext == Records /\ Cancelled /\ [Next]_vars => Cancelled'
  <1> SUFFICES ASSUME Records, Cancelled, [Next]_vars, NEW j \in Jobs, canceller'[j].pc # "none"
               PROVE  row'[j].status = "cancelled"
    BY DEF Cancelled
  <1>1. TypeOK /\ NotInserted
    BY DEF Records
  <1>2. row[j].status = "cancelled" => row'[j].status = "cancelled"
    BY <1>1, EndedStays DEF Ended, Terminal
  <1>3. canceller[j].pc # "none" \/ row'[j].status = "cancelled"
    BY <1>1, CancellerMoves DEF CancellerMove
  <1> QED BY <1>2, <1>3 DEF Cancelled

\* So it is not claimed any more.
LEMMA AbortedNext == Aborted /\ [Next]_vars => Aborted'
  <1> SUFFICES ASSUME Aborted, [Next]_vars PROVE Aborted'
    OBVIOUS
  <1>1. Records' /\ TypeOK /\ NotInserted /\ TypeOK'
    BY RecordsNext DEF Aborted, Records
  <1>3. Cancelled'
    BY CancelledNext DEF Aborted
  <1>4. CancelAborts'
    <2> SUFFICES ASSUME NEW j \in Jobs, canceller'[j].pc \in {"release", "done"},
                        runner'[canceller'[j].at][j].pc = "claimed",
                        runner'[canceller'[j].at][j].live
                 PROVE  FALSE
      BY DEF CancelAborts
    <2> DEFINE p == canceller'[j].at
    <2>1. p \in Replicas
      BY <1>1 DEF TypeOK, Canceller
    <2>2. CancellerMove(j)
      BY <1>1, CancellerMoves
    <2>3. canceller[j].at = p /\ canceller[j].pc \in {"abort", "release", "done"}
      BY <2>2 DEF CancellerMove
    <2>4. row[j].status = "cancelled"
      BY <2>3 DEF Aborted, Cancelled
    <2>5. Move(runner[p][j], runner'[p][j], j)
      BY <1>1, <2>1, RunnerMoves DEF Moves
    <2>6. runner[p][j].pc = "claimed" /\ runner[p][j].live
      BY <2>4, <2>5 DEF Move
    <2>7. canceller[j].pc \notin {"release", "done"}
      BY <2>3, <2>6 DEF Aborted, CancelAborts
    <2>8. ~runner'[p][j].live \/ runner'[p][j].pc = "none"
      BY <2>2, <2>3, <2>7 DEF CancellerMove
    <2> QED BY <2>8
  <1> QED BY <1>1, <1>3, <1>4 DEF Aborted

\* Hence it always holds.
LEMMA AbortedAlways == Spec => []Aborted
  BY AbortedInit, AbortedNext, PTL DEF Spec

\* Once the replica that runs a job has answered its DELETE, it has no live
\* call for the job any more, at whatever point the worker was, and whatever
\* crashed or failed.
THEOREM CancelStopsTheCall == Spec => []CancelAborts
  BY AbortedAlways, PTL DEF Aborted

-----------------------------------------------------------------------------
(* Every end is audited.  The two steps that end a job, but for the stuck  *)
(* sweep, write its audit row in their transaction; the worker's does not  *)
(* when the billing lookup fails, which takes a failing database.          *)

\* What a step does to the audit of a job.
AuditStep(j) ==
  \/ /\ Ended(j)' => Ended(j)
     /\ usage'[j] = usage[j] /\ (row[j].stuck <=> row'[j].stuck)
  \/ row'[j].stuck
  \/ usage'[j] # <<>>

\* The mark of the stuck sweep is left alone by every other write of a row.
LEMMA StuckOf ==
  ASSUME NEW v \in Row, NEW s
  PROVE  /\ [v EXCEPT !.status = s].stuck <=> v.stuck
         /\ [v EXCEPT !.status = s, !.ran = 0, !.idle = 0].stuck <=> v.stuck
         /\ [v EXCEPT !.status = s, !.stuck = TRUE].stuck
         /\ \A n : [v EXCEPT !.idle = n].stuck <=> v.stuck
         /\ \A m, n : [v EXCEPT !.ran = m, !.idle = n].stuck <=> v.stuck
  BY DEF Row

\* Steps that write neither a row nor an audit row.
LEMMA AuditKept ==
  ASSUME NEW j \in Jobs, UNCHANGED <<row, usage>>
  PROVE  AuditStep(j)
  BY DEF AuditStep, Ended

\* A write of a row that does not end the job.
LEMMA AuditOne ==
  ASSUME TypeOK, NEW j \in Jobs, NEW k \in Jobs, NEW v, row' = [row EXCEPT ![k] = v],
         v.stuck <=> row[k].stuck, v.status \in Terminal => v.status = row[k].status,
         UNCHANGED usage
  PROVE  AuditStep(j)
  <1>1. row'[j] = IF j = k THEN v ELSE row[j]
    BY DEF TypeOK
  <1> QED BY <1>1 DEF AuditStep, Ended

\* One that ends it with its audit row.
LEMMA AuditEnds ==
  ASSUME TypeOK, NEW j \in Jobs, NEW k \in Jobs, NEW v, row' = [row EXCEPT ![k] = v],
         NEW s \in Terminal, usage' = [usage EXCEPT ![k] = Append(@, s)]
  PROVE  AuditStep(j)
  <1>1. CASE j = k
    <2>1. usage[j] \in Seq(Terminal) /\ usage'[j] = Append(usage[j], s)
      BY <1>1 DEF TypeOK
    <2>2. usage'[j] # <<>>
      BY <2>1
    <2> QED BY <2>2 DEF AuditStep
  <1>2. CASE j # k
    <2>1. row'[j] = row[j] /\ usage'[j] = usage[j]
      BY <1>2 DEF TypeOK
    <2> QED BY <2>1 DEF AuditStep, Ended
  <1> QED BY <1>1, <1>2

\* The worker, whose database works, audits the job it ends.
LEMMA AuditRunner ==
  ASSUME "database" \notin Faults, TypeOK, NEW j \in Jobs, NEW p \in Replicas, NEW k \in Jobs,
         RunnerStep(p, k)
  PROVE  AuditStep(j)
  <1>0. row[k] \in Row
    BY DEF TypeOK
  <1>1. ASSUME Load(p, k) \/ Drop(p, k) \/ FinalizeError(p, k) PROVE AuditStep(j)
    BY <1>1, AuditKept DEF Load, Drop, FinalizeError, database
  <1>2. ASSUME Claim(p, k) PROVE AuditStep(j)
    <2> DEFINE v == [row[k] EXCEPT !.status = "running", !.ran = 0, !.idle = 0]
    <2>1. v.status = "running" /\ (v.stuck <=> row[k].stuck)
      BY <1>0, StatusOf, StuckOf
    <2>2. row' = row \/ row' = MarkedRunning(k)
      BY <1>2 DEF Claim
    <2>3. row' = row \/ row' = [row EXCEPT ![k] = v]
      BY <2>2 DEF MarkedRunning
    <2>4. UNCHANGED usage /\ "running" \notin Terminal
      BY <1>2 DEF Claim, Terminal
    <2> HIDE DEF v
    <2> QED BY <2>1, <2>3, <2>4, AuditKept, AuditOne
  <1>3. ASSUME NEW written \in BOOLEAN PROVE ~ClaimError(p, k, written)
    BY DEF ClaimError, MayFail
  <1>4. ASSUME Progress(p, k) PROVE AuditStep(j)
    <2> DEFINE v == [row[k] EXCEPT !.idle = 0]
    <2>1. v.status = row[k].status /\ (v.stuck <=> row[k].stuck)
      BY <1>0, StatusOf, StuckOf
    <2>2. row' = [row EXCEPT ![k] = v] /\ UNCHANGED usage
      BY <1>4 DEF Progress
    <2> HIDE DEF v
    <2> QED BY <2>1, <2>2, AuditOne
  <1>5. ASSUME NEW outcome \in Outcomes, Answer(p, k, outcome) PROVE AuditStep(j)
    BY <1>5, AuditKept DEF Answer, database
  <1>6. ASSUME NEW billed \in BOOLEAN, NEW confirmed \in BOOLEAN, Finalize(p, k, billed, confirmed)
        PROVE  AuditStep(j)
    <2>1. CASE ~Finalizable(k)
      BY <1>6, <2>1, AuditKept DEF Finalize, database
    <2>2. CASE Finalizable(k)
      <3> DEFINE s == runner[p][k].outcome
                 v == [row[k] EXCEPT !.status = s]
      <3>1. s \in Terminal
        BY DEF TypeOK, Runner, Outcomes, Terminal
      <3>2. billed
        BY <1>6 DEF Finalize, MayFail
      <3>3. row' = [row EXCEPT ![k] = v] /\ usage' = [usage EXCEPT ![k] = Append(@, s)]
        BY <1>6, <2>2, <3>2 DEF Finalize
      <3> HIDE DEF s, v
      <3> QED BY <3>1, <3>3, AuditEnds
    <2> QED BY <2>1, <2>2
  <1>7. ASSUME NEW arrives \in BOOLEAN, Settle(p, k, arrives) PROVE AuditStep(j)
    BY <1>7, AuditKept DEF Settle, database
  <1> QED BY <1>1, <1>2, <1>3, <1>4, <1>5, <1>6, <1>7 DEF RunnerStep

\* DELETE audits the job it ends, the sweep marks it, and the rest ends none.
LEMMA AuditSteps ==
  ASSUME "database" \notin Faults, TypeOK, [Next]_vars, NEW j \in Jobs
  PROVE  AuditStep(j)
  <1>1. ASSUME NEW k \in Jobs, SubmitStep(k) PROVE AuditStep(j)
    <2>1. ASSUME NEW a \in BOOLEAN, NEW b \in BOOLEAN,
                 Reserve(k, a, b) \/ Publish(k) \/ DirectDispatch(k, a)
          PROVE  AuditStep(j)
      BY <2>1, AuditKept DEF Reserve, Publish, DirectDispatch, database
    <2>2. ASSUME NEW a \in BOOLEAN, NEW b \in BOOLEAN, Insert(k, a, b) PROVE AuditStep(j)
      <3> DEFINE v == [row[k] EXCEPT !.status = "pending"]
      <3>0. row[k] \in Row
        BY DEF TypeOK
      <3>1. v.status = "pending" /\ (v.stuck <=> row[k].stuck)
        BY <3>0, StatusOf, StuckOf
      <3>2. (row' = row \/ row' = [row EXCEPT ![k] = v]) /\ UNCHANGED usage
        BY <2>2 DEF Insert
      <3>3. "pending" \notin Terminal
        BY DEF Terminal
      <3> HIDE DEF v
      <3> QED BY <3>1, <3>2, <3>3, AuditKept, AuditOne
    <2> QED BY <1>1, <2>1, <2>2 DEF SubmitStep
  <1>2. ASSUME NEW p \in Replicas, NEW k \in Jobs, NEW confirmed \in BOOLEAN, Cancel(p, k, confirmed)
        PROVE  AuditStep(j)
    <2>1. /\ row' = [row EXCEPT ![k] = [row[k] EXCEPT !.status = "cancelled"]]
          /\ usage' = [usage EXCEPT ![k] = Append(@, "cancelled")]
      BY <1>2 DEF Cancel, CancelUsage
    <2> QED BY <2>1, AuditEnds DEF Terminal
  <1>3. ASSUME NEW k \in Jobs, StuckSweep(k) PROVE AuditStep(j)
    <2> DEFINE v == [row[k] EXCEPT !.status = "failed", !.stuck = TRUE]
    <2>1. v.stuck
      BY StuckOf DEF TypeOK
    <2>2. row' = [row EXCEPT ![k] = v] /\ UNCHANGED usage
      BY <1>3 DEF StuckSweep
    <2> HIDE DEF v
    <2>3. row'[j] = IF j = k THEN v ELSE row[j]
      BY <2>2 DEF TypeOK
    <2> QED BY <2>1, <2>2, <2>3 DEF AuditStep, Ended
  <1>4. ASSUME Tick PROVE AuditStep(j)
    <2>0. row[j] \in Row
      BY DEF TypeOK
    <2>1. \/ row'[j] = row[j]
          \/ row'[j] = [row[j] EXCEPT !.ran = Aged(row[j].ran, JobTimeout),
                                      !.idle = Aged(row[j].idle, StuckAfter)]
      BY <1>4 DEF Tick
    <2>2. row'[j].status = row[j].status
      BY <2>0, <2>1 DEF Row
    <2>3. row'[j].stuck <=> row[j].stuck
      BY <2>0, <2>1 DEF Row
    <2> QED BY <1>4, <2>2, <2>3 DEF Tick, AuditStep, Ended
  <1>5. ASSUME NEW k \in Jobs, CancelStep(k) \/ HoldLapses(k) PROVE AuditStep(j)
    BY <1>5, AuditKept DEF CancelStep, Abort, CancelRelease, HoldLapses, database
  <1>6. ASSUME NEW p \in Replicas, NEW k \in Jobs, Deliver(p, k) \/ WallclockExpires(p, k)
        PROVE  AuditStep(j)
    BY <1>6, AuditKept DEF Deliver, WallclockExpires, database
  <1>7. ASSUME NEW p \in Replicas, ConnectionLost(p) \/ Crash(p) PROVE AuditStep(j)
    BY <1>7, AuditKept DEF ConnectionLost, Crash, database
  <1>8. CASE UNCHANGED vars
    BY <1>8, AuditKept DEF vars, database
  <1> QED BY <1>1, <1>2, <1>3, <1>4, <1>5, <1>6, <1>7, <1>8, AuditRunner DEF Next

\* With a database that works, every job that ended, except by the stuck
\* sweep, left its audit row, whichever replicas crashed and whoever won.
THEOREM EveryEndIsAudited ==
  ASSUME "database" \notin Faults
  PROVE  Spec => []EveryCallAudited
  <1>1. Init => EveryCallAudited
    <2> SUFFICES ASSUME Init, NEW j \in Jobs PROVE ~Ended(j)
      BY DEF EveryCallAudited
    <2>1. row[j].status = "none"
      BY DEF Init, NoRow
    <2> QED BY <2>1 DEF Ended, Terminal
  <1>2. TypeOK /\ EveryCallAudited /\ [Next]_vars => EveryCallAudited'
    <2> SUFFICES ASSUME TypeOK, EveryCallAudited, [Next]_vars, NEW j \in Jobs,
                        Ended(j)', ~row'[j].stuck
                 PROVE  usage'[j] # <<>>
      BY DEF EveryCallAudited
    <2>1. AuditStep(j)
      BY AuditSteps
    <2> QED BY <2>1 DEF AuditStep, EveryCallAudited
  <1> QED BY <1>1, <1>2, TypeCorrect, PTL DEF Spec

-----------------------------------------------------------------------------
(* The queue backs what was accepted.  Where the database answers, models  *)
(* are not deleted under a job and the broker stays connected, a worker    *)
(* acks a message only once its job is no longer pending.                  *)

Reliable == Faults \cap {"connection", "database", "model_gone"} = {}

Early == {"none", "pending"}

\* How far the job is when a worker is at a given point.
Reached ==
  \A p \in Replicas, j \in Jobs :
    /\ runner[p][j].pc \in {"claimed", "answered", "settle"} => row[j].status \notin Early
    /\ runner[p][j].pc = "loaded" /\ row[j].status \in Early => runner[p][j].live

BackedByBroker ==
  \A j \in Jobs :
    submit[j].pc = "accepted" /\ row[j].status = "pending" => message[j] \in {"queued"} \cup Replicas

Backed == Records /\ Cancelled /\ connected = Replicas /\ Reached /\ BackedByBroker

\* A claimed or ended job is never pending again.
LEMMA NeverEarlyAgain ==
  ASSUME Records, [Next]_vars, NEW j \in Jobs, row[j].status \notin Early
  PROVE  row'[j].status \notin Early
  BY JobSteps, EndsOnce DEF Records, JobStep, Keeps, Inserts, Claims, Early, Terminal

\* What a step does to the message of a job.
MessageStep(j) ==
  \/ message'[j] \in {"queued"} \cup Replicas
  \/ row[j].status # "pending" /\ UNCHANGED submit
  \/ message'[j] = message[j] /\ (submit'[j].pc = "accepted" => submit[j].pc = "accepted")

\* A goroutine returns, and acks, once its job is no longer pending.
LEMMA MessageReturns ==
  ASSUME TypeOK, NEW j \in Jobs, NEW p \in Replicas, NEW k \in Jobs, Returns(p, k),
         row[k].status # "pending", UNCHANGED submit
  PROVE  MessageStep(j)
  <1>1. j # k => message'[j] = message[j]
    BY DEF Returns, Acked, TypeOK
  <1> QED BY <1>1 DEF MessageStep

\* The worker's steps.
LEMMA MessageRunner ==
  ASSUME Reliable, Backed, NEW j \in Jobs, NEW p \in Replicas, NEW k \in Jobs, RunnerStep(p, k)
  PROVE  MessageStep(j)
  <1>0. TypeOK /\ "database" \notin Faults /\ "model_gone" \notin Faults
    BY DEF Reliable, Backed, Records
  <1>1. ASSUME UNCHANGED <<message, submit>> PROVE MessageStep(j)
    BY <1>1 DEF MessageStep
  <1>2. CASE Load(p, k)
    BY <1>0, <1>1, <1>2, MessageReturns DEF Load
  <1>3. ~Drop(p, k) /\ \A written \in BOOLEAN : ~ClaimError(p, k, written)
    BY <1>0 DEF Drop, ClaimError, MayFail
  <1>4. CASE Claim(p, k)
    <2>1. UNCHANGED submit /\ runner[p][k].pc = "loaded"
      BY <1>4 DEF Claim
    <2>2. row[k].status = "pending" => runner[p][k].live
      BY <2>1 DEF Backed, Reached, Early
    <2>3. message' = message \/ (Returns(p, k) /\ row[k].status # "pending")
      BY <1>4, <2>2 DEF Claim, Claimable
    <2> QED BY <1>0, <1>1, <2>1, <2>3, MessageReturns
  <1>5. CASE Progress(p, k)
    BY <1>1, <1>5 DEF Progress
  <1>6. ASSUME NEW outcome \in Outcomes, Answer(p, k, outcome) PROVE MessageStep(j)
    BY <1>1, <1>6 DEF Answer
  <1>7. ASSUME runner[p][k].pc \in {"answered", "settle"} PROVE row[k].status # "pending"
    BY <1>7 DEF Backed, Reached, Early
  <1>8. CASE FinalizeError(p, k)
    BY <1>0, <1>7, <1>8, MessageReturns DEF FinalizeError
  <1>9. ASSUME NEW billed \in BOOLEAN, NEW confirmed \in BOOLEAN, Finalize(p, k, billed, confirmed)
        PROVE  MessageStep(j)
    <2>1. UNCHANGED submit /\ runner[p][k].pc = "answered" /\ (message' = message \/ Returns(p, k))
      BY <1>9 DEF Finalize
    <2> QED BY <1>0, <1>1, <1>7, <2>1, MessageReturns
  <1>10. ASSUME NEW arrives \in BOOLEAN, Settle(p, k, arrives) PROVE MessageStep(j)
    BY <1>0, <1>7, <1>10, MessageReturns DEF Settle
  <1> QED BY <1>2, <1>3, <1>4, <1>5, <1>6, <1>8, <1>9, <1>10 DEF RunnerStep

\* Every step.  The direct dispatch has no place while the broker is connected.
LEMMA MessageSteps ==
  ASSUME Reliable, Backed, [Next]_vars, NEW j \in Jobs
  PROVE  MessageStep(j)
  <1>0. TypeOK /\ "connection" \notin Faults /\ connected = Replicas
    BY DEF Reliable, Backed, Records
  <1>1. ASSUME UNCHANGED <<message, submit>> PROVE MessageStep(j)
    BY <1>1 DEF MessageStep
  <1>2. ASSUME NEW k \in Jobs, SubmitStep(k) PROVE MessageStep(j)
    <2>0. submit[k] \in Submit
      BY <1>0 DEF TypeOK
    <2>1. ASSUME NEW pc \in {"reserved", "inserted", "refused"}, SubmitTo(k, pc), UNCHANGED message
          PROVE  MessageStep(j)
      <3>1. submit'[j].pc = IF j = k THEN pc ELSE submit[j].pc
        BY <1>0, <2>0, <2>1 DEF SubmitTo, TypeOK, Submit
      <3> QED BY <2>1, <3>1 DEF MessageStep
    <2>2. ASSUME NEW a \in BOOLEAN, NEW b \in BOOLEAN, Reserve(k, a, b) PROVE MessageStep(j)
      <3>1. SubmitTo(k, "reserved") \/ SubmitTo(k, "refused")
        BY <2>2 DEF Reserve
      <3> QED BY <2>1, <2>2, <3>1 DEF Reserve
    <2>3. ASSUME NEW a \in BOOLEAN, NEW b \in BOOLEAN, Insert(k, a, b) PROVE MessageStep(j)
      <3>1. SubmitTo(k, "inserted") \/ SubmitTo(k, "refused")
        BY <2>3 DEF Insert
      <3> QED BY <2>1, <2>3, <3>1 DEF Insert
    <2>4. CASE Publish(k)
      <3>1. message' = [message EXCEPT ![k] = "queued"] /\ SubmitTo(k, "accepted")
        BY <2>4 DEF Publish
      <3>2. CASE j = k
        BY <1>0, <3>1, <3>2 DEF MessageStep, TypeOK
      <3>3. CASE j # k
        BY <1>0, <3>1, <3>3 DEF MessageStep, SubmitTo, TypeOK
      <3> QED BY <3>2, <3>3
    <2>5. ASSUME NEW sent \in BOOLEAN PROVE ~DirectDispatch(k, sent)
      BY <1>0, <2>0 DEF DirectDispatch, MayFail, Submit
    <2> QED BY <1>2, <2>2, <2>3, <2>4, <2>5 DEF SubmitStep
  <1>3. ASSUME NEW p \in Replicas, NEW k \in Jobs, Deliver(p, k) PROVE MessageStep(j)
    <2>1. message'[j] = p \/ message'[j] = message[j]
      BY <1>0, <1>3 DEF Deliver, TypeOK
    <2> QED BY <1>3, <2>1 DEF Deliver, MessageStep
  <1>4. ASSUME NEW p \in Replicas, Crash(p) PROVE MessageStep(j)
    <2>1. message'[j] = "queued" \/ message'[j] = message[j]
      BY <1>4 DEF Crash, Requeued
    <2>2. submit[j] \in Submit
      BY <1>0 DEF TypeOK
    <2>3. submit'[j].pc = "accepted" => submit[j].pc = "accepted"
      BY <1>4, <2>2 DEF Crash, Submit
    <2> QED BY <2>1, <2>3 DEF MessageStep
  <1>5. ASSUME NEW p \in Replicas PROVE ~ConnectionLost(p)
    BY <1>0 DEF ConnectionLost, MayFail
  <1>6. ASSUME NEW k \in Jobs, CancelStep(k) \/ StuckSweep(k) \/ HoldLapses(k) PROVE MessageStep(j)
    BY <1>1, <1>6 DEF CancelStep, Abort, CancelRelease, StuckSweep, HoldLapses
  <1>7. ASSUME NEW p \in Replicas, NEW k \in Jobs, NEW confirmed \in BOOLEAN,
               Cancel(p, k, confirmed)
        PROVE  MessageStep(j)
    BY <1>1, <1>7 DEF Cancel
  <1>8. CASE Tick \/ UNCHANGED vars
    BY <1>1, <1>8 DEF Tick, vars
  <1>9. ASSUME NEW p \in Replicas, NEW k \in Jobs, WallclockExpires(p, k) PROVE MessageStep(j)
    BY <1>1, <1>9 DEF WallclockExpires
  <1> QED BY <1>2, <1>3, <1>4, <1>5, <1>6, <1>7, <1>8, <1>9, MessageRunner DEF Next

\* Before anything was submitted.
LEMMA BackedInit == Reliable /\ Init => Backed
  <1> SUFFICES ASSUME Reliable, Init PROVE Backed
    OBVIOUS
  <1>1. connected = Replicas
    BY DEF Init, Reliable, Dialled, MayFail
  <1>2. Reached
    BY DEF Init, Reached, NoRunner
  <1>3. BackedByBroker
    BY DEF Init, BackedByBroker, NoRow
  <1> QED BY <1>1, <1>2, <1>3, AbortedInit DEF Backed, Aborted, Records

\* The broker stays connected, crashed replicas included.
LEMMA ConnectedNext ==
  ASSUME Reliable, TypeOK, connected = Replicas, [Next]_vars
  PROVE  connected' = Replicas
  <1>0. "connection" \notin Faults
    BY DEF Reliable
  <1>1. ASSUME NEW k \in Jobs, SubmitStep(k) PROVE connected' = connected
    BY <1>0, <1>1 DEF SubmitStep, Reserve, Insert, Publish, DirectDispatch, MayFail
  <1>2. ASSUME NEW p \in Replicas, NEW k \in Jobs, RunnerStep(p, k) PROVE connected' = connected
    BY <1>2 DEF RunnerStep, Load, Drop, Claim, Progress, FinalizeError, ClaimError, Answer, Finalize,
                Settle
  <1>3. ASSUME NEW k \in Jobs, CancelStep(k) \/ StuckSweep(k) \/ HoldLapses(k)
        PROVE  connected' = connected
    BY <1>3 DEF CancelStep, Abort, CancelRelease, StuckSweep, HoldLapses
  <1>4. ASSUME NEW p \in Replicas, NEW k \in Jobs, Deliver(p, k) \/ WallclockExpires(p, k)
        PROVE  connected' = connected
    BY <1>4 DEF Deliver, WallclockExpires
  <1>5. ASSUME NEW p \in Replicas, NEW k \in Jobs, NEW confirmed \in BOOLEAN, Cancel(p, k, confirmed)
        PROVE  connected' = connected
    BY <1>5 DEF Cancel
  <1>6. ASSUME NEW p \in Replicas, ConnectionLost(p) \/ Crash(p) PROVE connected' = Replicas
    BY <1>0, <1>6 DEF ConnectionLost, Crash, Dialled, MayFail
  <1>7. CASE Tick \/ UNCHANGED vars
    BY <1>7 DEF Tick, vars
  <1> QED BY <1>1, <1>2, <1>3, <1>4, <1>5, <1>6, <1>7 DEF Next

\* And every step.
LEMMA BackedNext == Reliable /\ Backed /\ [Next]_vars => Backed'
  <1> SUFFICES ASSUME Reliable, Backed, [Next]_vars PROVE Backed'
    OBVIOUS
  <1>1. Records /\ Records' /\ TypeOK /\ TypeOK'
    BY RecordsNext DEF Backed, Records
  <1>2. connected' = Replicas
    BY <1>1, ConnectedNext DEF Backed
  <1>3. Cancelled'
    BY <1>1, CancelledNext DEF Backed
  <1>4. Reached'
    <2> SUFFICES ASSUME NEW p \in Replicas, NEW j \in Jobs
                 PROVE  /\ runner'[p][j].pc \in {"claimed", "answered", "settle"}
                              => row'[j].status \notin Early
                        /\ runner'[p][j].pc = "loaded" /\ row'[j].status \in Early
                              => runner'[p][j].live
      BY DEF Reached
    <2>1. Move(runner[p][j], runner'[p][j], j)
      BY <1>1, RunnerMoves DEF Moves
    <2>2. row[j].status \notin Early => row'[j].status \notin Early
      BY <1>1, NeverEarlyAgain
    <2>3. canceller[j].pc = "abort" => row[j].status \notin Early
      BY DEF Backed, Cancelled, Early
    <2>4. /\ runner[p][j].pc \in {"claimed", "answered", "settle"} => row[j].status \notin Early
          /\ runner[p][j].pc = "loaded" /\ row[j].status \in Early => runner[p][j].live
      BY DEF Backed, Reached
    <2>5. "database" \notin Faults /\ "running" \notin Early
      BY DEF Reliable, Early
    <2> QED BY <2>1, <2>2, <2>3, <2>4, <2>5 DEF Move
  <1>5. BackedByBroker'
    <2> SUFFICES ASSUME NEW j \in Jobs, submit'[j].pc = "accepted", row'[j].status = "pending"
                 PROVE  message'[j] \in {"queued"} \cup Replicas
      BY DEF BackedByBroker
    <2>1. JobStep(j) /\ MessageStep(j)
      BY <1>1, JobSteps, MessageSteps DEF Records
    <2>2. row[j].status = "pending"
      <3>1. ~Ends(j)
        BY EndsOnce DEF Terminal
      <3>2. ~Inserts(j)
        BY DEF Inserts
      <3> QED BY <2>1, <3>1, <3>2 DEF JobStep, Keeps, Claims
    <2> QED BY <2>1, <2>2 DEF MessageStep, Backed, BackedByBroker
  <1> QED BY <1>1, <1>2, <1>3, <1>4, <1>5 DEF Backed

\* A job answered with 202 and still pending is in the broker, queued or
\* delivered and not acked, whichever replicas crash: only a lost connection,
\* a failing database or a deleted model can strand it.
THEOREM QueueBacksAccepted ==
  ASSUME Reliable
  PROVE  Spec => []AcceptedIsBacked
  <1>1. Init => Backed
    BY BackedInit
  <1>2. Backed /\ [Next]_vars => Backed'
    BY BackedNext
  <1>3. Backed => AcceptedIsBacked
    BY DEF Backed, BackedByBroker, AcceptedIsBacked
  <1> QED BY <1>1, <1>2, <1>3, PTL DEF Spec

-----------------------------------------------------------------------------
(* A direct run is held while it lasts.  A job dispatched without the      *)
(* queue is claimed before the clock moves, its hold still new, and from   *)
(* then on both age together.                                              *)

\* The hold's time-to-live covers the longest job timeout, and replicas are
\* told apart from the other places a message may be in.
HoldCoversRun == JobTimeout <= Ttl /\ Replicas \cap {"none", "queued", "acked"} = {}

Unsent(j) == message[j] = "none"

\* A job that is being submitted, or that a worker has loaded.
Starting(j) == submit[j].pc \in {"reserved", "inserted"} \/ \E p \in Replicas : runner[p][j].pc = "loaded"

NotDelivered == \A j \in Jobs : Unsent(j) => \A p \in Replicas : runner[p][j].pc # "delivered"
StartedOnce ==
  \A j \in Jobs : Unsent(j) /\ submit[j].pc \in {"new", "reserved"} =>
    \A p \in Replicas : runner[p][j].pc = "none"
NewHold ==
  \A j \in Jobs : Unsent(j) /\ row[j].status \in Early /\ Starting(j) =>
    hold[j].status = "held" /\ hold[j].age = 0
AgeTogether ==
  \A j \in Jobs : Unsent(j) /\ row[j].status = "running" =>
    \/ hold[j].status = "held" /\ hold[j].age <= row[j].ran
    \/ row[j].ran = JobTimeout

DirectHeld == Money /\ NotDelivered /\ StartedOnce /\ NewHold /\ AgeTogether

\* A job whose message was never sent was not sent before.
LEMMA UnsentBefore ==
  ASSUME HoldCoversRun, TypeOK, [Next]_vars, NEW j \in Jobs, Unsent(j)'
  PROVE  Unsent(j)
  <1>0. message[j] \in {"none", "queued", "acked"} \cup Replicas /\ "none" \notin Replicas
    BY DEF TypeOK, HoldCoversRun
  <1>1. CASE UNCHANGED message
    BY <1>1 DEF Unsent
  <1>2. ASSUME NEW p \in Replicas, NEW k \in Jobs, Returns(p, k) PROVE Unsent(j)
    BY <1>0, <1>2 DEF Returns, Acked, TypeOK, Unsent
  <1>3. ASSUME NEW k \in Jobs, SubmitStep(k) PROVE Unsent(j)
    <2>1. ASSUME NEW a \in BOOLEAN, NEW b \in BOOLEAN, Reserve(k, a, b) \/ Insert(k, a, b) PROVE Unsent(j)
      BY <1>1, <2>1 DEF Reserve, Insert
    <2>2. CASE Publish(k)
      BY <2>2 DEF Publish, TypeOK, Unsent
    <2>3. ASSUME NEW sent \in BOOLEAN, DirectDispatch(k, sent) PROVE Unsent(j)
      BY <1>1, <2>3 DEF DirectDispatch, Requeued, TypeOK, Unsent
    <2> QED BY <1>3, <2>1, <2>2, <2>3 DEF SubmitStep
  <1>4. ASSUME NEW p \in Replicas, NEW k \in Jobs, RunnerStep(p, k) PROVE Unsent(j)
    <2>1. CASE Load(p, k) \/ Claim(p, k)
      BY <1>1, <1>2, <2>1 DEF Load, Claim
    <2>2. CASE Drop(p, k) \/ FinalizeError(p, k)
      BY <1>2, <2>2 DEF Drop, FinalizeError
    <2>3. CASE Progress(p, k)
      BY <1>1, <2>3 DEF Progress
    <2>4. ASSUME NEW a \in BOOLEAN, NEW b \in BOOLEAN, NEW outcome \in Outcomes,
                 ClaimError(p, k, a) \/ Answer(p, k, outcome) \/ Finalize(p, k, a, b) \/ Settle(p, k, a)
          PROVE  Unsent(j)
      BY <1>1, <1>2, <2>4 DEF ClaimError, Answer, Finalize, Settle
    <2>5. "failed" \in Outcomes
      BY DEF Outcomes
    <2> QED BY <1>4, <2>1, <2>2, <2>3, <2>4, <2>5 DEF RunnerStep
  <1>5. ASSUME NEW p \in Replicas, NEW k \in Jobs, Deliver(p, k) PROVE Unsent(j)
    BY <1>0, <1>5 DEF Deliver, TypeOK, Unsent
  <1>6. ASSUME NEW p \in Replicas, ConnectionLost(p) \/ Crash(p) PROVE Unsent(j)
    BY <1>6 DEF ConnectionLost, Crash, Requeued, Unsent
  <1>7. ASSUME NEW k \in Jobs, CancelStep(k) \/ StuckSweep(k) \/ HoldLapses(k) PROVE UNCHANGED message
    BY <1>7 DEF CancelStep, Abort, CancelRelease, StuckSweep, HoldLapses
  <1>8. ASSUME NEW p \in Replicas, NEW k \in Jobs, NEW confirmed \in BOOLEAN, Cancel(p, k, confirmed)
        PROVE  UNCHANGED message
    BY <1>8 DEF Cancel
  <1>9. ASSUME NEW p \in Replicas, NEW k \in Jobs, WallclockExpires(p, k) PROVE UNCHANGED message
    BY <1>9 DEF WallclockExpires
  <1>10. CASE Tick \/ UNCHANGED vars
    BY <1>1, <1>10 DEF Tick, vars
  <1> QED BY <1>1, <1>3, <1>4, <1>5, <1>6, <1>7, <1>8, <1>9, <1>10 DEF Next

\* What a step does to the hold of a job, and to the clock of its run.
RunKept(j) ==
  row'[j].status = "running" => row[j].status = "running" /\ row'[j].ran = row[j].ran
SubmitKept(j) ==
  submit'[j].pc \in {"reserved", "inserted"} => submit[j].pc \in {"reserved", "inserted"}
RunStep(j) ==
  \/ hold'[j] = hold[j] /\ RunKept(j)
  \/ /\ hold'[j] = hold[j]
     /\ row[j].status = "pending" /\ row'[j].ran = 0
     /\ \E p \in Replicas : runner[p][j].pc = "loaded"
  \/ Ended(j)
  \/ Lapsed(j) /\ RunKept(j)
  \/ /\ ~Busy
     /\ hold[j].status = "held" => hold'[j] = [hold[j] EXCEPT !.age = Aged(hold[j].age, Ttl)]
     /\ row'[j].status = "running" =>
          row[j].status = "running" /\ row'[j].ran = Aged(row[j].ran, JobTimeout)
ReserveStep(j) ==
  /\ submit[j].pc = "new" /\ submit'[j].pc # "inserted" /\ RunKept(j)
  /\ submit'[j].pc = "reserved" => hold'[j] = [status |-> "held", age |-> 0]
HoldStep(j) == ReserveStep(j) \/ (SubmitKept(j) /\ RunStep(j))

\* The clock of a run once some fields of its row are set.
LEMMA RanOf ==
  ASSUME NEW v \in Row, NEW s
  PROVE  /\ [v EXCEPT !.status = s].ran = v.ran
         /\ [v EXCEPT !.status = s, !.ran = 0, !.idle = 0].ran = 0
         /\ [v EXCEPT !.idle = 0].ran = v.ran
         /\ [v EXCEPT !.idle = 0].status = v.status
  BY DEF Row

\* Steps that leave the job's hold and its row alone.
LEMMA RunAlone ==
  ASSUME NEW j \in Jobs
  PROVE  /\ row'[j] = row[j] => RunKept(j)
         /\ submit'[j] = submit[j] => SubmitKept(j)
         /\ UNCHANGED <<row, hold, submit>> => HoldStep(j)
  BY DEF RunKept, SubmitKept, HoldStep, RunStep

\* A row that is set to anything but running.
LEMMA RunSet ==
  ASSUME TypeOK, NEW j \in Jobs, NEW k \in Jobs, NEW s, s # "running",
         row' = [row EXCEPT ![k] = [row[k] EXCEPT !.status = s]]
  PROVE  RunKept(j)
  <1>1. row[k] \in Row
    BY DEF TypeOK
  <1>2. [row[k] EXCEPT !.status = s].status = s
    BY <1>1, StatusOf
  <1>3. row'[j] = IF j = k THEN [row[k] EXCEPT !.status = s] ELSE row[j]
    BY DEF TypeOK
  <1> QED BY <1>2, <1>3 DEF RunKept

\* The submit handler moves forward to pc.
LEMMA SubmitSet ==
  ASSUME TypeOK, NEW j \in Jobs, NEW k \in Jobs, NEW pc, SubmitTo(k, pc)
  PROVE  /\ submit'[j].pc = IF j = k THEN pc ELSE submit[j].pc
         /\ pc \notin {"reserved", "inserted"} => SubmitKept(j)
         /\ submit[k].pc \in {"reserved", "inserted"} => SubmitKept(j)
  <1>1. submit[k] \in Submit
    BY DEF TypeOK
  <1>2. submit'[j].pc = IF j = k THEN pc ELSE submit[j].pc
    BY <1>1 DEF SubmitTo, TypeOK, Submit
  <1> QED BY <1>2 DEF SubmitKept

\* A submit places the hold.
LEMMA HoldSubmit ==
  ASSUME Money, NEW j \in Jobs, NEW k \in Jobs, SubmitStep(k)
  PROVE  HoldStep(j)
  <1>0. TypeOK /\ NotInserted
    BY DEF Money, Records
  <1>1. ASSUME NEW placed \in BOOLEAN, NEW confirmed \in BOOLEAN, Reserve(k, placed, confirmed)
        PROVE  HoldStep(j)
    <2> DEFINE pc == IF confirmed THEN "reserved" ELSE "refused"
    <2>1. /\ submit[k].pc = "new" /\ SubmitTo(k, pc) /\ row' = row
          /\ confirmed => hold' = [hold EXCEPT ![k] = [status |-> "held", age |-> 0]]
          /\ hold' = hold \/ hold' = [hold EXCEPT ![k] = [status |-> "held", age |-> 0]]
      BY <1>1 DEF Reserve, database
    <2>2. submit'[j].pc = IF j = k THEN pc ELSE submit[j].pc
      BY <1>0, <2>1, SubmitSet
    <2>3. CASE j = k
      <3>1. pc # "inserted" /\ (pc = "reserved" => confirmed)
        OBVIOUS
      <3>2. pc = "reserved" => hold'[j] = [status |-> "held", age |-> 0]
        BY <1>0, <2>1, <2>3, <3>1 DEF TypeOK
      <3> HIDE DEF pc
      <3> QED BY <2>1, <2>2, <2>3, <3>1, <3>2, RunAlone DEF HoldStep, ReserveStep
    <2>4. CASE j # k
      <3>1. hold'[j] = hold[j]
        BY <1>0, <2>1, <2>4 DEF TypeOK
      <3> QED BY <2>1, <2>2, <2>4, <3>1, RunAlone DEF HoldStep, SubmitKept, RunStep
    <2> QED BY <2>3, <2>4
  <1>2. ASSUME NEW written \in BOOLEAN, NEW confirmed \in BOOLEAN, Insert(k, written, confirmed)
        PROVE  HoldStep(j)
    <2>1. /\ submit[k].pc = "reserved" /\ hold' = hold
          /\ row' = row \/ row' = [row EXCEPT ![k] = [row[k] EXCEPT !.status = "pending"]]
          /\ SubmitTo(k, "inserted") \/ SubmitTo(k, "refused")
      BY <1>2 DEF Insert
    <2>2. SubmitKept(j)
      BY <1>0, <2>1, SubmitSet
    <2>3. RunKept(j)
      BY <1>0, <2>1, RunAlone, RunSet
    <2> QED BY <2>1, <2>2, <2>3 DEF HoldStep, RunStep
  <1>3. ASSUME NEW sent \in BOOLEAN, Publish(k) \/ DirectDispatch(k, sent) PROVE HoldStep(j)
    <2>1. UNCHANGED <<row, hold>> /\ SubmitTo(k, "accepted")
      BY <1>3 DEF Publish, DirectDispatch, database
    <2>2. SubmitKept(j)
      BY <1>0, <2>1, SubmitSet
    <2> QED BY <2>1, <2>2, RunAlone DEF HoldStep, RunStep
  <1> QED BY <1>1, <1>2, <1>3 DEF SubmitStep

\* A worker starts the clock of the run it claims, and settles what ended.
LEMMA HoldRunner ==
  ASSUME Money, NEW j \in Jobs, NEW p \in Replicas, NEW k \in Jobs, RunnerStep(p, k)
  PROVE  HoldStep(j)
  <1>0. TypeOK /\ row[k] \in Row
    BY DEF Money, Records, TypeOK
  <1>1. ASSUME Load(p, k) \/ Drop(p, k) \/ FinalizeError(p, k) PROVE HoldStep(j)
    BY <1>1, RunAlone DEF Load, Drop, FinalizeError, database
  <1>2. ASSUME runner[p][k].pc = "loaded", UNCHANGED <<hold, submit>>,
               row' = row \/ (Claimable(k) /\ row' = MarkedRunning(k))
        PROVE  HoldStep(j)
    <2>1. CASE row' = row
      BY <1>2, <2>1, RunAlone DEF HoldStep, RunStep
    <2>2. CASE Claimable(k) /\ row' = MarkedRunning(k)
      <3> DEFINE v == [row[k] EXCEPT !.status = "running", !.ran = 0, !.idle = 0]
      <3>1. v.ran = 0
        BY <1>0, RanOf
      <3>2. row' = [row EXCEPT ![k] = v]
        BY <2>2 DEF MarkedRunning
      <3> HIDE DEF v
      <3>3. row'[j] = IF j = k THEN v ELSE row[j]
        BY <1>0, <3>2 DEF TypeOK
      <3>4. CASE j = k
        BY <1>2, <2>2, <3>1, <3>3, <3>4, RunAlone DEF HoldStep, RunStep, Claimable
      <3>5. CASE j # k
        BY <1>2, <3>3, <3>5, RunAlone DEF HoldStep, RunStep
      <3> QED BY <3>4, <3>5
    <2> QED BY <1>2, <2>1, <2>2
  <1>3. CASE Claim(p, k)
    BY <1>2, <1>3 DEF Claim
  <1>4. ASSUME NEW written \in BOOLEAN, ClaimError(p, k, written) PROVE HoldStep(j)
    BY <1>2, <1>4 DEF ClaimError
  <1>5. CASE Progress(p, k)
    <2>1. row' = [row EXCEPT ![k] = [row[k] EXCEPT !.idle = 0]] /\ UNCHANGED <<hold, submit>>
      BY <1>5 DEF Progress
    <2>2. row'[j] = IF j = k THEN [row[k] EXCEPT !.idle = 0] ELSE row[j]
      BY <1>0, <2>1 DEF TypeOK
    <2>3. RunKept(j)
      BY <1>0, <2>2, RanOf DEF RunKept
    <2> QED BY <2>1, <2>3, RunAlone DEF HoldStep, RunStep
  <1>6. ASSUME NEW outcome \in Outcomes, Answer(p, k, outcome) PROVE HoldStep(j)
    BY <1>6, RunAlone DEF Answer, database
  <1>7. ASSUME NEW billed \in BOOLEAN, NEW confirmed \in BOOLEAN, Finalize(p, k, billed, confirmed)
        PROVE  HoldStep(j)
    <2> DEFINE s == runner[p][k].outcome
    <2>1. s # "running"
      BY <1>0 DEF TypeOK, Runner, Outcomes
    <2>2. row' = row \/ row' = [row EXCEPT ![k] = [row[k] EXCEPT !.status = s]]
      BY <1>7 DEF Finalize, database
    <2>3. UNCHANGED <<hold, submit>>
      BY <1>7 DEF Finalize
    <2> HIDE DEF s
    <2>4. RunKept(j)
      BY <1>0, <2>1, <2>2, RunAlone, RunSet
    <2> QED BY <2>3, <2>4, RunAlone DEF HoldStep, RunStep
  <1>8. ASSUME NEW arrives \in BOOLEAN, Settle(p, k, arrives) PROVE HoldStep(j)
    <2>1. UNCHANGED <<row, submit>> /\ runner[p][k].pc = "settle"
      BY <1>8 DEF Settle, database
    <2>2. Ended(k)
      BY <1>0, <2>1 DEF Money, Settling, Ended, TypeOK, Runner, Outcomes, Terminal
    <2>3. j # k => hold'[j] = hold[j]
      BY <1>0, <1>8 DEF Settle, TypeOK
    <2> QED BY <2>1, <2>2, <2>3, RunAlone DEF HoldStep, RunStep
  <1> QED BY <1>1, <1>3, <1>4, <1>5, <1>6, <1>7, <1>8 DEF RunnerStep

\* DELETE gives back the hold of what it cancelled, the sweeper takes an
\* expired one, and the clock moves only when nothing is starting.
LEMMA HoldMoves ==
  ASSUME Money, [Next]_vars, NEW j \in Jobs
  PROVE  HoldStep(j)
  <1>0. TypeOK
    BY DEF Money, Records
  <1>1. ASSUME NEW p \in Replicas, NEW k \in Jobs, NEW confirmed \in BOOLEAN, Cancel(p, k, confirmed)
        PROVE  HoldStep(j)
    <2>1. /\ row' = [row EXCEPT ![k] = [row[k] EXCEPT !.status = "cancelled"]]
          /\ UNCHANGED <<hold, submit>>
      BY <1>1 DEF Cancel
    <2>2. RunKept(j)
      BY <1>0, <2>1, RunSet
    <2> QED BY <2>1, <2>2, RunAlone DEF HoldStep, RunStep
  <1>2. ASSUME NEW k \in Jobs, StuckSweep(k) PROVE HoldStep(j)
    <2> DEFINE v == [row[k] EXCEPT !.status = "failed", !.stuck = TRUE]
    <2>1. v.status = "failed"
      BY <1>0, StatusOf DEF TypeOK
    <2>2. row' = [row EXCEPT ![k] = v] /\ UNCHANGED <<hold, submit>>
      BY <1>2 DEF StuckSweep
    <2> HIDE DEF v
    <2>3. row'[j] = IF j = k THEN v ELSE row[j]
      BY <1>0, <2>2 DEF TypeOK
    <2>4. RunKept(j)
      BY <2>1, <2>3 DEF RunKept
    <2> QED BY <2>2, <2>4, RunAlone DEF HoldStep, RunStep
  <1>3. ASSUME NEW k \in Jobs, Abort(k) PROVE HoldStep(j)
    BY <1>3, RunAlone DEF Abort, database
  <1>4. ASSUME NEW k \in Jobs, NEW arrives \in BOOLEAN, CancelRelease(k, arrives) PROVE HoldStep(j)
    <2>1. UNCHANGED <<row, submit>> /\ canceller[k].pc = "release"
      BY <1>4 DEF CancelRelease, database
    <2>2. Ended(k)
      BY <2>1 DEF Money, Cancelling, Ended, Terminal
    <2>3. j # k => hold'[j] = hold[j]
      BY <1>0, <1>4 DEF CancelRelease, TypeOK
    <2> QED BY <2>1, <2>2, <2>3, RunAlone DEF HoldStep, RunStep
  <1>5. ASSUME NEW k \in Jobs, HoldLapses(k) PROVE HoldStep(j)
    <2>1. UNCHANGED <<row, submit>> /\ Lapsed(k)
      BY <1>5 DEF HoldLapses, database
    <2>2. j # k => hold'[j] = hold[j]
      BY <1>0, <1>5 DEF HoldLapses, TypeOK
    <2> QED BY <2>1, <2>2, RunAlone DEF HoldStep, RunStep
  <1>6. CASE Tick
    <2>1. /\ ~Busy /\ UNCHANGED submit
          /\ hold[j].status = "held" => hold'[j] = [hold[j] EXCEPT !.age = Aged(hold[j].age, Ttl)]
      BY <1>6 DEF Tick
    <2>2. row[j] \in Row
      BY <1>0 DEF TypeOK
    <2>3. IF row[j].status = "running"
          THEN row'[j] = [row[j] EXCEPT !.ran = Aged(row[j].ran, JobTimeout),
                                        !.idle = Aged(row[j].idle, StuckAfter)]
          ELSE row'[j] = row[j]
      BY <1>6 DEF Tick
    <2>4. row'[j].status = "running" =>
            row[j].status = "running" /\ row'[j].ran = Aged(row[j].ran, JobTimeout)
      BY <2>2, <2>3 DEF Row
    <2> QED BY <2>1, <2>4, RunAlone DEF HoldStep, RunStep
  <1>7. ASSUME NEW p \in Replicas, NEW k \in Jobs, Deliver(p, k) \/ WallclockExpires(p, k)
        PROVE  HoldStep(j)
    BY <1>7, RunAlone DEF Deliver, WallclockExpires, database
  <1>8. ASSUME NEW p \in Replicas, ConnectionLost(p) PROVE HoldStep(j)
    BY <1>8, RunAlone DEF ConnectionLost, database
  <1>9. ASSUME NEW p \in Replicas, Crash(p) PROVE HoldStep(j)
    <2>1. UNCHANGED <<row, hold>>
      BY <1>9 DEF Crash, database
    <2>2. submit[j] \in Submit
      BY <1>0 DEF TypeOK
    <2>3. SubmitKept(j)
      BY <1>9, <2>2 DEF Crash, SubmitKept, Submit
    <2> QED BY <2>1, <2>3, RunAlone DEF HoldStep, RunStep
  <1>10. CASE UNCHANGED vars
    BY <1>10, RunAlone DEF vars, database
  <1> QED BY <1>1, <1>2, <1>3, <1>4, <1>5, <1>6, <1>7, <1>8, <1>9, <1>10, HoldSubmit, HoldRunner
          DEF Next, CancelStep

\* A starting job keeps the clock from moving.
LEMMA StartingIsBusy == ASSUME NEW j \in Jobs, Starting(j) PROVE Busy
  BY DEF Starting, Busy

\* Before anything was submitted.
LEMMA DirectHeldInit == Init => DirectHeld
  <1> SUFFICES ASSUME Init PROVE DirectHeld
    OBVIOUS
  <1>1. \A p \in Replicas, j \in Jobs : runner[p][j].pc = "none"
    BY DEF Init, NoRunner
  <1>2. \A j \in Jobs : submit[j].pc = "new" /\ row[j].status = "none"
    BY DEF Init, NoRow
  <1> QED BY <1>1, <1>2, MoneyInit
          DEF DirectHeld, NotDelivered, StartedOnce, NewHold, AgeTogether, Starting

\* And after every step.
LEMMA DirectHeldNext == HoldCoversRun /\ DirectHeld /\ [Next]_vars => DirectHeld'
  <1> SUFFICES ASSUME HoldCoversRun, DirectHeld, [Next]_vars PROVE DirectHeld'
    OBVIOUS
  <1>1. Money /\ Money' /\ Records /\ TypeOK /\ NotInserted
    BY MoneyNext DEF DirectHeld, Money, Records
  <1>2. ASSUME NEW j \in Jobs, Unsent(j)' PROVE Unsent(j)
    BY <1>1, <1>2, UnsentBefore
  <1>3. ASSUME NEW p \in Replicas, NEW j \in Jobs PROVE Move(runner[p][j], runner'[p][j], j)
    BY <1>1, RunnerMoves DEF Moves
  <1>4. NotDelivered'
    <2> SUFFICES ASSUME NEW j \in Jobs, Unsent(j)', NEW p \in Replicas
                 PROVE  runner'[p][j].pc # "delivered"
      BY DEF NotDelivered
    <2>1. Unsent(j) /\ runner[p][j].pc # "delivered"
      BY <1>2 DEF DirectHeld, NotDelivered
    <2> QED BY <1>3, <2>1 DEF Move, Unsent
  <1>5. StartedOnce'
    <2> SUFFICES ASSUME NEW j \in Jobs, Unsent(j)', submit'[j].pc \in {"new", "reserved"},
                        NEW p \in Replicas
                 PROVE  runner'[p][j].pc = "none"
      BY DEF StartedOnce
    <2>1. submit[j].pc \in {"new", "reserved"}
      BY <1>1, SubmitForward DEF Forward
    <2>2. Unsent(j) /\ runner[p][j].pc = "none"
      BY <1>2, <2>1 DEF DirectHeld, StartedOnce
    <2> QED BY <1>3, <2>1, <2>2 DEF Move, Unsent
  <1>6. NewHold'
    <2> SUFFICES ASSUME NEW j \in Jobs, Unsent(j)', row'[j].status \in Early, Starting(j)'
                 PROVE  hold'[j].status = "held" /\ hold'[j].age = 0
      BY DEF NewHold
    <2>1. Unsent(j) /\ row[j].status \in Early
      BY <1>1, <1>2, NeverEarlyAgain
    <2>2. HoldStep(j)
      BY <1>1, HoldMoves
    <2>3. Starting(j) \/ (submit[j].pc = "new" /\ submit'[j].pc = "reserved")
      <3>1. ASSUME NEW p \in Replicas, runner'[p][j].pc = "loaded" PROVE Starting(j)
        <4>1. runner[p][j].pc # "delivered"
          BY <2>1 DEF DirectHeld, NotDelivered
        <4> QED BY <1>3, <3>1, <4>1 DEF Move, Starting
      <3>2. ASSUME submit'[j].pc \in {"reserved", "inserted"}
            PROVE  Starting(j) \/ (submit[j].pc = "new" /\ submit'[j].pc = "reserved")
        BY <2>2, <3>2 DEF HoldStep, ReserveStep, SubmitKept, Starting
      <3> QED BY <3>1, <3>2 DEF Starting
    <2>4. CASE Starting(j)
      <3>1. hold[j].status = "held" /\ hold[j].age = 0
        BY <2>1, <2>4 DEF DirectHeld, NewHold
      <3>2. submit[j].pc # "new"
        BY <2>1, <2>4 DEF DirectHeld, StartedOnce, Starting
      <3>3. Busy /\ ~Lapsed(j)
        BY <2>4, <3>1, StartingIsBusy, TimesAreNatural DEF Lapsed
      <3>4. ~Ended(j)
        BY <2>1 DEF Ended, Early, Terminal
      <3>5. hold'[j] = hold[j]
        BY <2>2, <3>2, <3>3, <3>4 DEF HoldStep, ReserveStep, RunStep
      <3> QED BY <3>1, <3>5
    <2>5. CASE submit[j].pc = "new" /\ submit'[j].pc = "reserved"
      <3>1. hold'[j] = [status |-> "held", age |-> 0]
        BY <2>2, <2>5 DEF HoldStep, ReserveStep, SubmitKept
      <3> QED BY <3>1
    <2> QED BY <2>3, <2>4, <2>5
  <1>7. AgeTogether'
    <2> SUFFICES ASSUME NEW j \in Jobs, Unsent(j)', row'[j].status = "running"
                 PROVE  \/ hold'[j].status = "held" /\ hold'[j].age <= row'[j].ran
                        \/ row'[j].ran = JobTimeout
      BY DEF AgeTogether
    <2>1. Unsent(j)
      BY <1>2
    <2>2. HoldStep(j)
      BY <1>1, HoldMoves
    <2>3. /\ hold[j] \in Hold /\ row[j].ran \in 0 .. JobTimeout
          /\ hold[j].age \in 0 .. Ttl /\ JobTimeout \in Nat /\ Ttl \in Nat /\ JobTimeout <= Ttl
      BY <1>1, TimesAreNatural DEF TypeOK, Row, Hold, HoldCoversRun
    <2>4. row[j].status = "running" =>
            \/ hold[j].status = "held" /\ hold[j].age <= row[j].ran
            \/ row[j].ran = JobTimeout
      BY <2>1 DEF DirectHeld, AgeTogether
    <2>5. ~Ended(j)
      BY <1>1, EndedStays DEF Ended, Terminal
    <2>6. CASE hold'[j] = hold[j] /\ RunKept(j)
      BY <2>4, <2>6 DEF RunKept
    <2>7. CASE Lapsed(j) /\ RunKept(j)
      <3>1. row'[j].ran = row[j].ran /\ row[j].status = "running" /\ hold[j].age = Ttl
        BY <2>7 DEF RunKept, Lapsed
      <3>2. row[j].ran = JobTimeout
        BY <2>3, <2>4, <3>1
      <3> QED BY <3>1, <3>2
    <2>8. CASE ReserveStep(j)
      BY <1>1, <2>8 DEF ReserveStep, RunKept, NotInserted
    <2>9. CASE /\ hold'[j] = hold[j] /\ row[j].status = "pending" /\ row'[j].ran = 0
               /\ \E p \in Replicas : runner[p][j].pc = "loaded"
      <3>1. hold[j].status = "held" /\ hold[j].age = 0
        BY <2>1, <2>9 DEF DirectHeld, NewHold, Starting, Early
      <3> QED BY <2>9, <3>1
    <2>10. CASE /\ hold[j].status = "held" => hold'[j] = [hold[j] EXCEPT !.age = Aged(hold[j].age, Ttl)]
                /\ row[j].status = "running" /\ row'[j].ran = Aged(row[j].ran, JobTimeout)
      <3>1. CASE row[j].ran = JobTimeout
        BY <2>3, <2>10, <3>1 DEF Aged
      <3>2. CASE row[j].ran # JobTimeout
        <4>1. hold[j].status = "held" /\ hold[j].age <= row[j].ran
          BY <2>4, <2>10, <3>2
        <4>2. hold'[j].status = "held" /\ hold'[j].age = Aged(hold[j].age, Ttl)
          BY <2>3, <2>10, <4>1 DEF Hold
        <4>3. Aged(hold[j].age, Ttl) <= Aged(row[j].ran, JobTimeout)
          BY <2>3, <3>2, <4>1 DEF Aged
        <4> QED BY <2>10, <4>2, <4>3
      <3> QED BY <3>1, <3>2
    <2> QED BY <2>2, <2>5, <2>6, <2>7, <2>8, <2>9, <2>10 DEF HoldStep, RunStep
  <1> QED BY <1>1, <1>4, <1>5, <1>6, <1>7 DEF DirectHeld

\* A job dispatched without the queue keeps its hold while it runs within its
\* timeout, whatever fails, as long as RESERVATION_TTL is at least the longest
\* timeout: the sweeper never takes the budget from under it.
THEOREM DirectRunIsHeld ==
  ASSUME HoldCoversRun
  PROVE  Spec => []HoldOutlastsDirectRun
  <1>1. Init => DirectHeld
    BY DirectHeldInit
  <1>2. DirectHeld /\ [Next]_vars => DirectHeld'
    BY DirectHeldNext
  <1>3. DirectHeld => HoldOutlastsDirectRun
    <2> SUFFICES ASSUME DirectHeld, NEW j \in Jobs, RunsUnheld(j), Unsent(j) PROVE FALSE
      BY DEF HoldOutlastsDirectRun, Unsent
    <2>1. hold[j].status = "held" \/ row[j].ran = JobTimeout
      BY DEF DirectHeld, AgeTogether, RunsUnheld
    <2>2. row[j].ran \in 0 .. JobTimeout /\ JobTimeout \in Nat
      BY TimesAreNatural DEF DirectHeld, Money, Records, TypeOK, Row
    <2> QED BY <2>1, <2>2 DEF RunsUnheld
  <1> QED BY <1>1, <1>2, <1>3, PTL DEF Spec
=============================================================================
