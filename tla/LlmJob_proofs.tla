----------------------------- MODULE LlmJob_proofs -----------------------------
(***************************************************************************)
(* Proofs about LlmJob, for any jobs, replicas, faults and times: type     *)
(* correctness, one execution, one end with its event and audit row, and   *)
(* the settlement that matches the outcome.                                *)
(***************************************************************************)
EXTENDS LlmJob, TLAPS

-----------------------------------------------------------------------------
(* Type correctness.                                                       *)

\* The initial state is well typed.
LEMMA TypeInit == Init => TypeOK
  BY TimesAreNatural
  DEF Init, TypeOK, Submit, Canceller, NoRow, Row, NoHold, Hold, NoRunner, Runner, Outcomes, Terminal

\* What the actions write into a row is well typed.
LEMMA RowTypes ==
  ASSUME NEW v \in Row
  PROVE  /\ \A s \in {"pending", "running"} \cup Terminal : [v EXCEPT !.status = s] \in Row
         /\ [v EXCEPT !.status = "running", !.ran = 0, !.idle = 0] \in Row
         /\ [v EXCEPT !.status = "failed", !.stuck = TRUE] \in Row
         /\ [v EXCEPT !.idle = 0] \in Row
  <1>1. ASSUME NEW s \in {"pending", "running"} \cup Terminal
        PROVE  [v EXCEPT !.status = s] \in Row
    BY <1>1 DEF Row
  <1>2. [v EXCEPT !.status = "running", !.ran = 0, !.idle = 0] \in Row
    <2>1. ASSUME NEW u \in Row PROVE [u EXCEPT !.ran = 0] \in Row /\ [u EXCEPT !.idle = 0] \in Row
      BY TimesAreNatural DEF Row
    <2>2. [v EXCEPT !.status = "running"] \in Row
      BY <1>1
    <2>3. [[v EXCEPT !.status = "running"] EXCEPT !.ran = 0] \in Row
      BY <2>1, <2>2
    <2>4. [[[v EXCEPT !.status = "running"] EXCEPT !.ran = 0] EXCEPT !.idle = 0] \in Row
      BY <2>1, <2>3
    <2> QED BY <2>4
  <1>3. [v EXCEPT !.status = "failed", !.stuck = TRUE] \in Row
    BY DEF Row, Terminal
  <1>4. [v EXCEPT !.idle = 0] \in Row
    BY TimesAreNatural DEF Row
  <1> QED BY <1>1, <1>2, <1>3, <1>4

\* The same of a hold.
LEMMA HoldTypes ==
  ASSUME NEW h \in Hold
  PROVE  /\ [status |-> "held", age |-> 0] \in Hold
         /\ [h EXCEPT !.status = "swept"] \in Hold
         /\ Released(h) \in Hold
         /\ Reconciled(h) \in Hold
  BY TimesAreNatural DEF Hold, Released, Reconciled

\* The same of a runner.
LEMMA RunnerTypes ==
  ASSUME NEW w \in Runner
  PROVE  /\ NoRunner \in Runner
         /\ [NoRunner EXCEPT !.pc = "delivered"] \in Runner
         /\ [NoRunner EXCEPT !.pc = "loaded", !.live = TRUE, !.direct = TRUE] \in Runner
         /\ [w EXCEPT !.pc = "loaded", !.live = TRUE] \in Runner
         /\ \A pc \in {"claimed", "answered"} : [w EXCEPT !.pc = pc] \in Runner
         /\ [w EXCEPT !.live = FALSE] \in Runner
         /\ \A outcome \in Outcomes : [w EXCEPT !.pc = "answered", !.outcome = outcome] \in Runner
         /\ \A b \in BOOLEAN : [w EXCEPT !.pc = "settle", !.billed = b] \in Runner
  BY DEF NoRunner, Runner, Outcomes

\* Returning from the goroutine keeps the runners and the messages well typed.
LEMMA TypeReturns ==
  ASSUME TypeOK, NEW p \in Replicas, NEW j \in Jobs, Returns(p, j)
  PROVE  /\ runner' \in [Replicas -> [Jobs -> Runner]]
         /\ message' \in [Jobs -> {"none", "queued", "acked"} \cup Replicas]
  BY RunnerTypes DEF Returns, Acked, TypeOK

\* So does any other step of one goroutine.
LEMMA TypeOneRunner ==
  ASSUME TypeOK, NEW p \in Replicas, NEW j \in Jobs,
         NEW w \in Runner, runner' = [runner EXCEPT ![p][j] = w]
  PROVE  runner' \in [Replicas -> [Jobs -> Runner]]
  BY DEF TypeOK

\* Messages that go back to the queue stay well typed.
LEMMA TypeRequeued ==
  ASSUME TypeOK, NEW p \in Replicas
  PROVE  Requeued(p) \in [Jobs -> {"none", "queued", "acked"} \cup Replicas]
  BY DEF Requeued, TypeOK

\* Time passes within the bounds of each clock.
LEMMA AgedBound ==
  ASSUME NEW limit \in Nat, NEW age \in 0 .. limit
  PROVE  Aged(age, limit) \in 0 .. limit
  BY DEF Aged

\* The submit handler keeps the state well typed.
LEMMA TypeSubmit ==
  ASSUME TypeOK, NEW j \in Jobs, SubmitStep(j)
  PROVE  TypeOK'
  <1>0. ASSUME NEW pc \in {"reserved", "inserted", "accepted", "refused"}, SubmitTo(j, pc)
        PROVE  submit' \in [Jobs -> Submit]
    BY <1>0 DEF SubmitTo, TypeOK, Submit
  <1>1. ASSUME NEW placed \in BOOLEAN, NEW confirmed \in BOOLEAN, Reserve(j, placed, confirmed)
        PROVE  TypeOK'
    <2>1. hold' \in [Jobs -> Hold]
      BY <1>1, HoldTypes DEF Reserve, TypeOK
    <2>2. SubmitTo(j, "reserved") \/ SubmitTo(j, "refused")
      BY <1>1 DEF Reserve
    <2>3. UNCHANGED <<row, usage, events, message, connected, runner, canceller, claims, crashes>>
      BY <1>1 DEF Reserve, database
    <2> QED BY <1>0, <2>1, <2>2, <2>3 DEF TypeOK
  <1>2. ASSUME NEW written \in BOOLEAN, NEW confirmed \in BOOLEAN, Insert(j, written, confirmed)
        PROVE  TypeOK'
    <2>1. row' \in [Jobs -> Row]
      BY <1>2, RowTypes DEF Insert, TypeOK
    <2>2. SubmitTo(j, "inserted") \/ SubmitTo(j, "refused")
      BY <1>2 DEF Insert
    <2>3. UNCHANGED <<usage, events, hold, message, connected, runner, canceller, claims, crashes>>
      BY <1>2 DEF Insert
    <2> QED BY <1>0, <2>1, <2>2, <2>3 DEF TypeOK
  <1>3. ASSUME Publish(j) PROVE TypeOK'
    <2>1. message' \in [Jobs -> {"none", "queued", "acked"} \cup Replicas]
      BY <1>3 DEF Publish, TypeOK
    <2>2. UNCHANGED <<row, usage, events, hold, connected, runner, canceller, claims, crashes>>
      BY <1>3 DEF Publish, database
    <2>3. SubmitTo(j, "accepted")
      BY <1>3 DEF Publish
    <2> QED BY <1>0, <2>1, <2>2, <2>3 DEF TypeOK
  <1>4. ASSUME NEW sent \in BOOLEAN, DirectDispatch(j, sent) PROVE TypeOK'
    <2> DEFINE p == submit[j].at
               w == [NoRunner EXCEPT !.pc = "loaded", !.live = TRUE, !.direct = TRUE]
    <2>0. p \in Replicas
      BY DEF TypeOK, Submit
    <2>1. w \in Runner
      BY DEF NoRunner, Runner, Outcomes
    <2>2. runner' = [runner EXCEPT ![p][j] = w]
      BY <1>4 DEF DirectDispatch
    <2>3. runner' \in [Replicas -> [Jobs -> Runner]]
      BY <2>0, <2>1, <2>2, TypeOneRunner
    <2>4. /\ message' \in [Jobs -> {"none", "queued", "acked"} \cup Replicas]
          /\ connected' \subseteq Replicas
      BY <1>4, <2>0, TypeRequeued DEF DirectDispatch, TypeOK
    <2>5. UNCHANGED <<row, usage, events, hold, canceller, claims, crashes>>
      BY <1>4 DEF DirectDispatch, database
    <2>6. SubmitTo(j, "accepted")
      BY <1>4 DEF DirectDispatch
    <2> QED BY <1>0, <2>3, <2>4, <2>5, <2>6 DEF TypeOK
  <1> QED BY <1>1, <1>2, <1>3, <1>4 DEF SubmitStep

\* So do the worker's steps.
LEMMA TypeRunner ==
  ASSUME TypeOK, NEW p \in Replicas, NEW j \in Jobs, RunnerStep(p, j)
  PROVE  TypeOK'
  <1> DEFINE w == runner[p][j]
             Wrote == /\ runner' \in [Replicas -> [Jobs -> Runner]]
                      /\ message' \in [Jobs -> {"none", "queued", "acked"} \cup Replicas]
  <1>0. w \in Runner /\ row[j] \in Row /\ hold[j] \in Hold
    BY DEF TypeOK
  <1>1. ASSUME Load(p, j) PROVE TypeOK'
    <2>1. ASSUME row[j].status = "pending" PROVE Wrote
      <3>1. /\ runner' = [runner EXCEPT ![p][j] = [w EXCEPT !.pc = "loaded", !.live = TRUE]]
            /\ message' = message
        BY <1>1, <2>1 DEF Load
      <3> QED BY <1>0, <3>1, TypeOneRunner, RunnerTypes DEF TypeOK
    <2>2. ASSUME row[j].status # "pending" PROVE Wrote
      <3>1. Returns(p, j)
        BY <1>1, <2>2 DEF Load
      <3> QED BY <3>1, TypeReturns
    <2>3. UNCHANGED <<row, usage, events, hold, connected, submit, canceller, claims, crashes>>
      BY <1>1 DEF Load, database
    <2>5. Wrote
      BY <2>1, <2>2
    <2> QED BY <2>5, <2>3 DEF TypeOK
  <1>2. ASSUME Drop(p, j) \/ FinalizeError(p, j) PROVE TypeOK'
    <2>1. Wrote
      BY <1>2, TypeReturns DEF Drop, FinalizeError
    <2>2. UNCHANGED <<row, usage, events, hold, connected, submit, canceller, claims, crashes>>
      BY <1>2 DEF Drop, FinalizeError, database
    <2> QED BY <2>1, <2>2 DEF TypeOK
  <1>3. MarkedRunning(j) \in [Jobs -> Row]
    BY <1>0, RowTypes DEF MarkedRunning, TypeOK
  <1>4. ASSUME Claim(p, j) PROVE TypeOK'
    <2>1. ASSUME w.live, Claimable(j) PROVE Wrote
      <3>1. runner' = [runner EXCEPT ![p][j] = [w EXCEPT !.pc = "claimed"]] /\ message' = message
        BY <1>4, <2>1 DEF Claim
      <3> QED BY <1>0, <3>1, TypeOneRunner, RunnerTypes DEF TypeOK
    <2>2. ASSUME ~(w.live /\ Claimable(j)) PROVE Wrote
      <3>1. Returns(p, j)
        BY <1>4, <2>2 DEF Claim
      <3> QED BY <3>1, TypeReturns
    <2>5. Wrote
      BY <2>1, <2>2
    <2>3. row' \in [Jobs -> Row] /\ claims' \in [Jobs -> Nat]
      <3>1. row' = MarkedRunning(j) \/ row' = row
        BY <1>4 DEF Claim
      <3>2. claims' = [claims EXCEPT ![j] = claims[j] + 1] \/ claims' = claims
        BY <1>4 DEF Claim
      <3> QED BY <1>3, <3>1, <3>2 DEF TypeOK
    <2>4. UNCHANGED <<usage, events, hold, connected, submit, canceller, crashes>>
      BY <1>4 DEF Claim
    <2> QED BY <2>5, <2>3, <2>4 DEF TypeOK
  <1>5. ASSUME NEW written \in BOOLEAN, ClaimError(p, j, written) PROVE TypeOK'
    <2>1. runner' \in [Replicas -> [Jobs -> Runner]]
      BY <1>0, <1>5, RunnerTypes DEF ClaimError, TypeOK
    <2>2. row' \in [Jobs -> Row] /\ claims' \in [Jobs -> Nat]
      BY <1>3, <1>5 DEF ClaimError, TypeOK
    <2>3. UNCHANGED <<usage, events, hold, message, connected, submit, canceller, crashes>>
      BY <1>5 DEF ClaimError
    <2> QED BY <2>1, <2>2, <2>3 DEF TypeOK
  <1>6. ASSUME Progress(p, j) PROVE TypeOK'
    <2>1. row' \in [Jobs -> Row]
      BY <1>0, <1>6, RowTypes DEF Progress, TypeOK
    <2>2. UNCHANGED <<usage, events, hold, message, connected, submit, runner, canceller, claims,
                      crashes>>
      BY <1>6 DEF Progress
    <2> QED BY <2>1, <2>2 DEF TypeOK
  <1>7. ASSUME NEW outcome \in Outcomes, Answer(p, j, outcome) PROVE TypeOK'
    <2>1. runner' \in [Replicas -> [Jobs -> Runner]]
      BY <1>0, <1>7, RunnerTypes DEF Answer, TypeOK
    <2>2. UNCHANGED <<row, usage, events, hold, message, connected, submit, canceller, claims,
                      crashes>>
      BY <1>7 DEF Answer, database
    <2> QED BY <2>1, <2>2 DEF TypeOK
  <1>8. ASSUME NEW billed \in BOOLEAN, NEW confirmed \in BOOLEAN, Finalize(p, j, billed, confirmed)
        PROVE  TypeOK'
    <2>1. w.outcome \in Terminal
      BY <1>0 DEF Runner, Outcomes, Terminal
    <2>2. row' \in [Jobs -> Row]
      <3>1. [row[j] EXCEPT !.status = w.outcome] \in Row
        BY <1>0, <2>1, RowTypes
      <3>2. row' = [row EXCEPT ![j] = [row[j] EXCEPT !.status = w.outcome]] \/ row' = row
        BY <1>8 DEF Finalize, database
      <3> QED BY <3>1, <3>2 DEF TypeOK
    <2>3. usage' \in [Jobs -> Seq(Terminal)] /\ events' \in [Jobs -> Seq(Terminal)]
      <3>1. /\ Append(usage[j], w.outcome) \in Seq(Terminal)
            /\ Append(events[j], w.outcome) \in Seq(Terminal)
        BY <2>1 DEF TypeOK
      <3>2. usage' = [usage EXCEPT ![j] = Append(usage[j], w.outcome)] \/ usage' = usage
        BY <1>8 DEF Finalize, database
      <3>3. events' = [events EXCEPT ![j] = Append(events[j], w.outcome)] \/ events' = events
        BY <1>8 DEF Finalize, database
      <3>4. usage' \in [Jobs -> Seq(Terminal)]
        BY <3>1, <3>2 DEF TypeOK
      <3>5. events' \in [Jobs -> Seq(Terminal)]
        BY <3>1, <3>3 DEF TypeOK
      <3> QED BY <3>4, <3>5
    <2>4. Wrote
      <3>1. CASE Finalizable(j) /\ confirmed
        <4>1. /\ runner' = [runner EXCEPT ![p][j].pc = "settle", ![p][j].billed = billed]
              /\ message' = message
          BY <1>8, <3>1 DEF Finalize
        <4>2. runner' = [runner EXCEPT ![p][j] = [w EXCEPT !.pc = "settle", !.billed = billed]]
          BY <4>1
        <4>3. [w EXCEPT !.pc = "settle", !.billed = billed] \in Runner
          BY <1>0, RunnerTypes
        <4>4. runner' \in [Replicas -> [Jobs -> Runner]]
          BY <4>2, <4>3, TypeOneRunner
        <4> QED BY <4>1, <4>4 DEF TypeOK
      <3>2. CASE ~(Finalizable(j) /\ confirmed)
        <4>1. Returns(p, j)
          BY <1>8, <3>2 DEF Finalize
        <4> QED BY <4>1, TypeReturns
      <3> QED BY <3>1, <3>2
    <2>5. UNCHANGED <<hold, connected, submit, canceller, claims, crashes>>
      BY <1>8 DEF Finalize
    <2> QED BY <2>2, <2>3, <2>4, <2>5 DEF TypeOK
  <1>9. ASSUME NEW arrives \in BOOLEAN, Settle(p, j, arrives) PROVE TypeOK'
    <2>1. Wrote
      BY <1>9, TypeReturns DEF Settle
    <2>2. hold' \in [Jobs -> Hold]
      BY <1>0, <1>9, HoldTypes DEF Settle, Settlement, TypeOK
    <2>3. UNCHANGED <<row, usage, events, connected, submit, canceller, claims, crashes>>
      BY <1>9 DEF Settle, database
    <2> QED BY <2>1, <2>2, <2>3 DEF TypeOK
  <1> QED BY <1>1, <1>2, <1>4, <1>5, <1>6, <1>7, <1>8, <1>9 DEF RunnerStep

\* And DELETE.
LEMMA TypeCancel ==
  ASSUME TypeOK, NEW j \in Jobs,
         \/ CancelStep(j)
         \/ \E p \in Replicas, confirmed \in BOOLEAN : Cancel(p, j, confirmed)
  PROVE  TypeOK'
  <1>0. row[j] \in Row /\ hold[j] \in Hold /\ canceller[j].at \in Replicas
    BY DEF TypeOK, Canceller
  <1>1. ASSUME NEW p \in Replicas, NEW confirmed \in BOOLEAN, Cancel(p, j, confirmed)
        PROVE  TypeOK'
    <2>1. row' \in [Jobs -> Row]
      BY <1>0, <1>1, RowTypes DEF Cancel, TypeOK, Terminal
    <2>2. usage' \in [Jobs -> Seq(Terminal)] /\ events' \in [Jobs -> Seq(Terminal)]
      BY <1>1 DEF Cancel, CancelUsage, TypeOK, Terminal
    <2>3. canceller' \in [Jobs -> Canceller]
      BY <1>1 DEF Cancel, TypeOK, Canceller
    <2>4. UNCHANGED <<hold, message, connected, submit, runner, claims, crashes>>
      BY <1>1 DEF Cancel
    <2> QED BY <2>1, <2>2, <2>3, <2>4 DEF TypeOK
  <1>2. ASSUME Abort(j) PROVE TypeOK'
    <2>1. runner' \in [Replicas -> [Jobs -> Runner]]
      BY <1>0, <1>2, RunnerTypes DEF Abort, AbortedRunner, TypeOK
    <2>2. canceller' \in [Jobs -> Canceller]
      BY <1>2 DEF Abort, TypeOK, Canceller
    <2>3. UNCHANGED <<row, usage, events, hold, message, connected, submit, claims, crashes>>
      BY <1>2 DEF Abort, database
    <2> QED BY <2>1, <2>2, <2>3 DEF TypeOK
  <1>3. ASSUME NEW arrives \in BOOLEAN, CancelRelease(j, arrives) PROVE TypeOK'
    <2>1. hold' \in [Jobs -> Hold]
      BY <1>0, <1>3, HoldTypes DEF CancelRelease, TypeOK
    <2>2. canceller' \in [Jobs -> Canceller]
      BY <1>3 DEF CancelRelease, TypeOK, Canceller
    <2>3. UNCHANGED <<row, usage, events, message, connected, submit, runner, claims, crashes>>
      BY <1>3 DEF CancelRelease, database
    <2> QED BY <2>1, <2>2, <2>3 DEF TypeOK
  <1> QED BY <1>1, <1>2, <1>3 DEF CancelStep

\* And the clock, the sweepers and the faults.
LEMMA TypeOther ==
  ASSUME TypeOK,
         \/ \E j \in Jobs : StuckSweep(j) \/ HoldLapses(j)
         \/ \E p \in Replicas, j \in Jobs : Deliver(p, j) \/ WallclockExpires(p, j)
         \/ Tick
         \/ \E p \in Replicas : ConnectionLost(p) \/ Crash(p)
  PROVE  TypeOK'
  <1>1. ASSUME NEW j \in Jobs, StuckSweep(j) PROVE TypeOK'
    <2>1. row' \in [Jobs -> Row]
      BY <1>1, RowTypes DEF StuckSweep, TypeOK
    <2>2. events' \in [Jobs -> Seq(Terminal)]
      BY <1>1 DEF StuckSweep, SweepEvents, TypeOK, Terminal
    <2>3. UNCHANGED <<usage, hold, message, connected, submit, runner, canceller, claims, crashes>>
      BY <1>1 DEF StuckSweep
    <2> QED BY <2>1, <2>2, <2>3 DEF TypeOK
  <1>2. ASSUME NEW j \in Jobs, HoldLapses(j) PROVE TypeOK'
    <2>1. hold' \in [Jobs -> Hold]
      BY <1>2, HoldTypes DEF HoldLapses, TypeOK
    <2>2. UNCHANGED <<row, usage, events, message, connected, submit, runner, canceller, claims,
                      crashes>>
      BY <1>2 DEF HoldLapses, database
    <2> QED BY <2>1, <2>2 DEF TypeOK
  <1>3. ASSUME NEW p \in Replicas, NEW j \in Jobs, Deliver(p, j) PROVE TypeOK'
    <2>1. runner' \in [Replicas -> [Jobs -> Runner]]
      BY <1>3, RunnerTypes DEF Deliver, TypeOK
    <2>2. message' \in [Jobs -> {"none", "queued", "acked"} \cup Replicas]
      BY <1>3 DEF Deliver, TypeOK
    <2>3. UNCHANGED <<row, usage, events, hold, connected, submit, canceller, claims, crashes>>
      BY <1>3 DEF Deliver, database
    <2> QED BY <2>1, <2>2, <2>3 DEF TypeOK
  <1>4. ASSUME NEW p \in Replicas, NEW j \in Jobs, WallclockExpires(p, j) PROVE TypeOK'
    <2>1. runner' \in [Replicas -> [Jobs -> Runner]]
      BY <1>4, RunnerTypes DEF WallclockExpires, TypeOK
    <2>2. UNCHANGED <<row, usage, events, hold, message, connected, submit, canceller, claims,
                      crashes>>
      BY <1>4 DEF WallclockExpires, database
    <2> QED BY <2>1, <2>2 DEF TypeOK
  <1>5. ASSUME Tick PROVE TypeOK'
    <2>1. ASSUME NEW j \in Jobs PROVE hold'[j] \in Hold
      <3>1. Aged(hold[j].age, Ttl) \in 0 .. Ttl
        BY AgedBound, TimesAreNatural DEF TypeOK, Hold
      <3>2. hold[j] \in Hold
        BY DEF TypeOK
      <3>3. [hold[j] EXCEPT !.age = Aged(@, Ttl)] \in Hold
        BY <3>1, <3>2 DEF Hold
      <3> QED BY <1>5, <3>2, <3>3 DEF Tick
    <2>2. ASSUME NEW j \in Jobs PROVE row'[j] \in Row
      <3>1. /\ Aged(row[j].ran, JobTimeout) \in 0 .. JobTimeout
            /\ Aged(row[j].idle, StuckAfter) \in 0 .. StuckAfter
        BY AgedBound, TimesAreNatural DEF TypeOK, Row
      <3>2. row[j] \in Row
        BY DEF TypeOK
      <3>3. [row[j] EXCEPT !.ran = Aged(@, JobTimeout), !.idle = Aged(@, StuckAfter)] \in Row
        BY <3>1, <3>2 DEF Row
      <3> QED BY <1>5, <3>2, <3>3 DEF Tick
    <2>3. hold' \in [Jobs -> Hold] /\ row' \in [Jobs -> Row]
      BY <1>5, <2>1, <2>2 DEF Tick
    <2>4. UNCHANGED <<usage, events, message, connected, submit, runner, canceller, claims, crashes>>
      BY <1>5 DEF Tick
    <2> QED BY <2>3, <2>4 DEF TypeOK
  <1>6. ASSUME NEW p \in Replicas, ConnectionLost(p) PROVE TypeOK'
    <2>1. message' \in [Jobs -> {"none", "queued", "acked"} \cup Replicas]
      BY <1>6, TypeRequeued DEF ConnectionLost
    <2>2. connected' \subseteq Replicas
      BY <1>6 DEF ConnectionLost, TypeOK
    <2>3. UNCHANGED <<row, usage, events, hold, submit, runner, canceller, claims, crashes>>
      BY <1>6 DEF ConnectionLost, database
    <2> QED BY <2>1, <2>2, <2>3 DEF TypeOK
  <1>7. ASSUME NEW p \in Replicas, Crash(p) PROVE TypeOK'
    <2>1. NoRunner \in Runner
      BY DEF NoRunner, Runner, Outcomes
    <2>2. submit' \in [Jobs -> Submit]
      <3>1. \A j \in Jobs : submit[j] \in Submit /\ [submit[j] EXCEPT !.pc = "refused"] \in Submit
        BY DEF TypeOK, Submit
      <3> QED BY <1>7, <3>1 DEF Crash
    <2>3. canceller' \in [Jobs -> Canceller]
      <3>1. \A j \in Jobs : /\ canceller[j] \in Canceller
                            /\ [canceller[j] EXCEPT !.pc = "done"] \in Canceller
        BY DEF TypeOK, Canceller
      <3> QED BY <1>7, <3>1 DEF Crash
    <2>4. crashes' \in 0 .. MaxCrashes
      BY <1>7, TimesAreNatural DEF Crash, TypeOK
    <2>5. /\ runner' \in [Replicas -> [Jobs -> Runner]]
          /\ connected' \subseteq Replicas
      BY <1>7, <2>1 DEF Crash, TypeOK
    <2>6. message' \in [Jobs -> {"none", "queued", "acked"} \cup Replicas]
      BY <1>7, TypeRequeued DEF Crash
    <2>7. UNCHANGED <<row, usage, events, hold, claims>>
      BY <1>7 DEF Crash, database
    <2> QED BY <2>2, <2>3, <2>4, <2>5, <2>6, <2>7 DEF TypeOK
  <1> QED BY <1>1, <1>2, <1>3, <1>4, <1>5, <1>6, <1>7

\* Every step, stuttering included, preserves type correctness.
LEMMA TypeNext == TypeOK /\ [Next]_vars => TypeOK'
  <1> SUFFICES ASSUME TypeOK, [Next]_vars PROVE TypeOK'
    OBVIOUS
  <1>1. CASE UNCHANGED vars
    BY <1>1 DEF vars, database, TypeOK
  <1> QED BY <1>1, TypeSubmit, TypeRunner, TypeCancel, TypeOther DEF Next

\* Whatever fails, every row, message, hold and goroutine stays well typed.
THEOREM TypeCorrect == Spec => []TypeOK
  BY TypeInit, TypeNext, PTL DEF Spec

-----------------------------------------------------------------------------
(* One life.  A job's row is inserted once, claimed at most once and ends  *)
(* at most once; its event and audit rows are written by the step that     *)
(* ends it.                                                                *)

\* Until the submit handler has tried to insert the row, there is none.
NotInserted ==
  \A j \in Jobs : submit[j].pc \in {"new", "reserved"} => row[j].status = "none"

\* A row no worker has marked running is unclaimed.
Unclaimed == \A j \in Jobs : row[j].status \in {"none", "pending"} => claims[j] = 0

\* Every step is one of these for each job.
Keeps(j) ==
  /\ row'[j].status = row[j].status
  /\ usage'[j] = usage[j] /\ events'[j] = events[j] /\ claims'[j] = claims[j]
Inserts(j) ==
  /\ row[j].status = "none" /\ row'[j].status = "pending"
  /\ usage'[j] = usage[j] /\ events'[j] = events[j] /\ claims'[j] = claims[j]
  /\ submit[j].pc = "reserved" /\ submit'[j].pc \in {"inserted", "refused"}
Claims(j) ==
  /\ row[j].status = "pending" /\ row'[j].status = "running"
  /\ usage'[j] = usage[j] /\ events'[j] = events[j] /\ claims'[j] = claims[j] + 1
RunsOut(from, to) == from = "running" /\ to \in Outcomes
CutShort(from, to) == from \in {"pending", "running"} /\ to = "cancelled"
Ends(j) ==
  /\ \/ RunsOut(row[j].status, row'[j].status) /\ usage'[j] = usage[j]
     \/ /\ RunsOut(row[j].status, row'[j].status) \/ CutShort(row[j].status, row'[j].status)
        /\ usage'[j] = Append(usage[j], row'[j].status)
  /\ events'[j] = Append(events[j], row'[j].status)
  /\ claims'[j] = claims[j]
JobStep(j) == Keeps(j) \/ Inserts(j) \/ Claims(j) \/ Ends(j)

\* The status a row has once some of its fields are set.
LEMMA StatusOf ==
  ASSUME NEW v \in Row, NEW s
  PROVE  /\ [v EXCEPT !.status = s].status = s
         /\ [v EXCEPT !.status = s, !.ran = 0, !.idle = 0].status = s
         /\ [v EXCEPT !.status = s, !.stuck = TRUE].status = s
         /\ \A n : [v EXCEPT !.idle = n].status = v.status
         /\ \A m, n : [v EXCEPT !.ran = m, !.idle = n].status = v.status
  BY DEF Row

\* A job whose records are left alone keeps them.
LEMMA Kept ==
  ASSUME NEW j \in Jobs, UNCHANGED <<row, usage, events, claims>>
  PROVE  JobStep(j)
  BY DEF JobStep, Keeps

\* Marking job k running claims it, and nothing else.
LEMMA ClaimedOne ==
  ASSUME TypeOK, NEW j \in Jobs, NEW k \in Jobs, Claimable(k),
         row' = MarkedRunning(k), claims' = [claims EXCEPT ![k] = @ + 1],
         UNCHANGED <<usage, events>>
  PROVE  JobStep(j)
  <1>1. row[k] \in Row
    BY DEF TypeOK
  <1>2. row' = [row EXCEPT ![k] = [row[k] EXCEPT !.status = "running", !.ran = 0, !.idle = 0]]
    BY DEF MarkedRunning
  <1>3. CASE j = k
    <2>1. row'[j].status = "running"
      BY <1>1, <1>2, <1>3, StatusOf DEF TypeOK
    <2>2. claims'[j] = claims[j] + 1
      BY <1>3 DEF TypeOK
    <2> QED BY <1>3, <2>1, <2>2 DEF JobStep, Claims, Claimable
  <1>4. CASE j # k
    <2>1. row'[j] = row[j] /\ claims'[j] = claims[j]
      BY <1>2, <1>4 DEF TypeOK
    <2> QED BY <2>1 DEF JobStep, Keeps
  <1> QED BY <1>3, <1>4

\* Ending job k, with its event and perhaps its audit row, ends it alone.
LEMMA EndedOne ==
  ASSUME TypeOK, NEW j \in Jobs, NEW k \in Jobs, NEW v \in Row,
         row' = [row EXCEPT ![k] = v],
         \/ RunsOut(row[k].status, v.status) /\ usage' = usage
         \/ /\ RunsOut(row[k].status, v.status) \/ CutShort(row[k].status, v.status)
            /\ usage' = [usage EXCEPT ![k] = Append(@, v.status)],
         events' = [events EXCEPT ![k] = Append(@, v.status)],
         UNCHANGED claims
  PROVE  JobStep(j)
  <1>1. CASE j = k
    <2>1. row'[j] = v /\ events'[j] = Append(events[j], v.status)
      BY <1>1 DEF TypeOK
    <2>2. \/ RunsOut(row[j].status, v.status) /\ usage'[j] = usage[j]
          \/ /\ RunsOut(row[j].status, v.status) \/ CutShort(row[j].status, v.status)
             /\ usage'[j] = Append(usage[j], v.status)
      BY <1>1 DEF TypeOK
    <2> QED BY <1>1, <2>1, <2>2 DEF JobStep, Ends
  <1>2. CASE j # k
    <2>1. row'[j] = row[j] /\ events'[j] = events[j] /\ usage'[j] = usage[j]
      BY <1>2 DEF TypeOK
    <2> QED BY <2>1 DEF JobStep, Keeps
  <1> QED BY <1>1, <1>2

\* The submit handler inserts the row, or leaves every job's records alone.
LEMMA SubmitJobStep ==
  ASSUME TypeOK, NotInserted, NEW j \in Jobs, NEW k \in Jobs, SubmitStep(k)
  PROVE  JobStep(j)
  <1>1. ASSUME NEW placed \in BOOLEAN, NEW confirmed \in BOOLEAN, Reserve(k, placed, confirmed)
        PROVE  JobStep(j)
    BY <1>1, Kept DEF Reserve, database
  <1>2. ASSUME NEW written \in BOOLEAN, NEW confirmed \in BOOLEAN, Insert(k, written, confirmed)
        PROVE  JobStep(j)
    <2>1. CASE ~written
      BY <1>2, <2>1, Kept DEF Insert
    <2>2. CASE written /\ j # k
      <3>1. row'[j] = row[j]
        BY <1>2, <2>2 DEF Insert, TypeOK
      <3> QED BY <1>2, <3>1 DEF Insert, JobStep, Keeps
    <2>3. CASE written /\ j = k
      <3>1. row[j].status = "none" /\ row[j] \in Row /\ submit[j] \in Submit
        BY <1>2, <2>3 DEF Insert, NotInserted, TypeOK
      <3>2. row' = [row EXCEPT ![j] = [row[j] EXCEPT !.status = "pending"]]
        BY <1>2, <2>3 DEF Insert
      <3>3. row'[j].status = "pending"
        BY <3>1, <3>2, StatusOf DEF TypeOK
      <3>4. submit'[j].pc \in {"inserted", "refused"}
        BY <1>2, <2>3, <3>1 DEF Insert, SubmitTo, TypeOK, Submit
      <3> QED BY <1>2, <2>3, <3>1, <3>3, <3>4 DEF Insert, JobStep, Inserts
    <2> QED BY <2>1, <2>2, <2>3
  <1>3. ASSUME NEW sent \in BOOLEAN, Publish(k) \/ DirectDispatch(k, sent) PROVE JobStep(j)
    BY <1>3, Kept DEF Publish, DirectDispatch, database
  <1> QED BY <1>1, <1>2, <1>3 DEF SubmitStep

\* The worker claims the job, or ends it, or leaves the records alone.
LEMMA RunnerJobStep ==
  ASSUME TypeOK, NEW j \in Jobs, NEW p \in Replicas, NEW k \in Jobs, RunnerStep(p, k)
  PROVE  JobStep(j)
  <1>1. ASSUME Load(p, k) \/ Drop(p, k) \/ FinalizeError(p, k) PROVE JobStep(j)
    BY <1>1, Kept DEF Load, Drop, FinalizeError, database
  <1>2. ASSUME Claim(p, k) PROVE JobStep(j)
    <2>1. CASE runner[p][k].live /\ Claimable(k)
      BY <1>2, <2>1, ClaimedOne DEF Claim
    <2>2. CASE ~(runner[p][k].live /\ Claimable(k))
      BY <1>2, <2>2, Kept DEF Claim
    <2> QED BY <2>1, <2>2
  <1>3. ASSUME NEW written \in BOOLEAN, ClaimError(p, k, written) PROVE JobStep(j)
    <2>1. CASE written
      BY <1>3, <2>1, ClaimedOne DEF ClaimError
    <2>2. CASE ~written
      BY <1>3, <2>2, Kept DEF ClaimError
    <2> QED BY <2>1, <2>2
  <1>4. ASSUME Progress(p, k) PROVE JobStep(j)
    <2>1. row' = [row EXCEPT ![k] = [row[k] EXCEPT !.idle = 0]] /\ row[k] \in Row
      BY <1>4 DEF Progress, TypeOK
    <2>2. row'[j].status = row[j].status
      BY <2>1, StatusOf DEF TypeOK
    <2> QED BY <1>4, <2>2 DEF Progress, JobStep, Keeps
  <1>5. ASSUME NEW outcome \in Outcomes, Answer(p, k, outcome) PROVE JobStep(j)
    BY <1>5, Kept DEF Answer, database
  <1>6. ASSUME NEW billed \in BOOLEAN, NEW confirmed \in BOOLEAN, Finalize(p, k, billed, confirmed)
        PROVE  JobStep(j)
    <2> DEFINE outcome == runner[p][k].outcome
               v == [row[k] EXCEPT !.status = outcome]
    <2>1. CASE ~Finalizable(k)
      <3>1. UNCHANGED <<row, usage, events, claims>>
        BY <1>6, <2>1 DEF Finalize, database
      <3> QED BY <3>1, Kept
    <2>2. CASE Finalizable(k)
      <3>1. runner[p][k] \in Runner /\ row[k] \in Row
        BY DEF TypeOK
      <3>2. outcome \in Outcomes /\ outcome \in Terminal
        BY <3>1 DEF Runner, Outcomes, Terminal
      <3>3. v \in Row /\ v.status = outcome
        BY <3>1, <3>2, RowTypes, StatusOf
      <3>4. row' = [row EXCEPT ![k] = v] /\ UNCHANGED claims
        BY <1>6, <2>2 DEF Finalize
      <3>5. usage' = usage \/ usage' = [usage EXCEPT ![k] = Append(@, outcome)]
        BY <1>6, <2>2 DEF Finalize
      <3>6. events' = [events EXCEPT ![k] = Append(@, outcome)]
        BY <1>6, <2>2 DEF Finalize
      <3>7. RunsOut(row[k].status, outcome)
        BY <2>2, <3>2 DEF Finalizable, RunsOut
      <3> HIDE DEF v, outcome
      <3> QED BY <3>2, <3>3, <3>4, <3>5, <3>6, <3>7, EndedOne
    <2> QED BY <2>1, <2>2
  <1>7. ASSUME NEW arrives \in BOOLEAN, Settle(p, k, arrives) PROVE JobStep(j)
    BY <1>7, Kept DEF Settle, database
  <1> QED BY <1>1, <1>2, <1>3, <1>4, <1>5, <1>6, <1>7 DEF RunnerStep

\* DELETE ends a job that has not ended.
LEMMA CancelJobStep ==
  ASSUME TypeOK, NEW j \in Jobs, NEW p \in Replicas, NEW k \in Jobs, NEW confirmed \in BOOLEAN,
         Cancel(p, k, confirmed)
  PROVE  JobStep(j)
  <1> DEFINE v == [row[k] EXCEPT !.status = "cancelled"]
  <1>0. row[k] \in Row /\ "cancelled" \in Terminal
    BY DEF TypeOK, Terminal
  <1>1. v \in Row /\ v.status = "cancelled"
    BY <1>0, RowTypes, StatusOf
  <1>2. row' = [row EXCEPT ![k] = v] /\ CutShort(row[k].status, "cancelled") /\ UNCHANGED claims
    BY DEF Cancel, CutShort
  <1>3. /\ usage' = [usage EXCEPT ![k] = Append(@, "cancelled")]
        /\ events' = [events EXCEPT ![k] = Append(@, "cancelled")]
    BY DEF Cancel, CancelUsage
  <1> HIDE DEF v
  <1> QED BY <1>0, <1>1, <1>2, <1>3, EndedOne

\* So does the stuck sweep, without an audit row.
LEMMA SweepJobStep ==
  ASSUME TypeOK, NEW j \in Jobs, NEW k \in Jobs, StuckSweep(k)
  PROVE  JobStep(j)
  <1> DEFINE v == [row[k] EXCEPT !.status = "failed", !.stuck = TRUE]
  <1>0. row[k] \in Row /\ "failed" \in Terminal /\ "failed" \in Outcomes
    BY DEF TypeOK, Terminal, Outcomes
  <1>1. v \in Row /\ v.status = "failed"
    BY <1>0, RowTypes, StatusOf
  <1>2. row' = [row EXCEPT ![k] = v] /\ RunsOut(row[k].status, "failed")
    BY <1>0 DEF StuckSweep, Stalled, RunsOut
  <1>3. /\ UNCHANGED <<usage, claims>>
        /\ events' = [events EXCEPT ![k] = Append(@, "failed")]
    BY DEF StuckSweep, SweepEvents
  <1> HIDE DEF v
  <1> QED BY <1>0, <1>1, <1>2, <1>3, EndedOne

\* The clock leaves every status alone.
LEMMA TickJobStep ==
  ASSUME TypeOK, NEW j \in Jobs, Tick
  PROVE  JobStep(j)
  <1>1. row[j] \in Row
    BY DEF TypeOK
  <1>2. \/ row'[j] = row[j]
        \/ row'[j] = [row[j] EXCEPT !.ran = Aged(row[j].ran, JobTimeout),
                                    !.idle = Aged(row[j].idle, StuckAfter)]
    BY DEF Tick
  <1>3. row'[j].status = row[j].status
    BY <1>1, <1>2 DEF Row
  <1> QED BY <1>3 DEF Tick, JobStep, Keeps

\* A job that ends had not ended, and gains at most one audit row, of that end.
LEMMA EndsOnce ==
  ASSUME NEW j \in Jobs, Ends(j)
  PROVE  /\ row[j].status \in {"pending", "running"} /\ row'[j].status \in Terminal
         /\ usage'[j] \in {usage[j], Append(usage[j], row'[j].status)}
  BY DEF Ends, RunsOut, CutShort, Outcomes, Terminal

\* Every step, stuttering included, is a step of the job's life.
LEMMA JobSteps ==
  ASSUME TypeOK, NotInserted, [Next]_vars, NEW j \in Jobs
  PROVE  JobStep(j)
  <1>1. CASE UNCHANGED vars
    BY <1>1, Kept DEF vars, database
  <1>2. ASSUME NEW k \in Jobs, CancelStep(k) \/ HoldLapses(k) PROVE JobStep(j)
    BY <1>2, Kept DEF CancelStep, Abort, CancelRelease, HoldLapses, database
  <1>3. ASSUME NEW p \in Replicas, NEW k \in Jobs, Deliver(p, k) \/ WallclockExpires(p, k)
        PROVE  JobStep(j)
    BY <1>3, Kept DEF Deliver, WallclockExpires, database
  <1>4. ASSUME NEW p \in Replicas, ConnectionLost(p) \/ Crash(p) PROVE JobStep(j)
    BY <1>4, Kept DEF ConnectionLost, Crash, database
  <1> QED BY <1>1, <1>2, <1>3, <1>4, SubmitJobStep, RunnerJobStep, CancelJobStep, SweepJobStep,
             TickJobStep DEF Next

\* The submit handler never goes back, and it is past its reserve only with a
\* hold placed.
Forward(j) ==
  /\ submit'[j].pc = "new" => submit[j].pc = "new"
  /\ submit'[j].pc = "reserved" =>
       submit[j].pc = "reserved" \/ (submit[j].pc = "new" /\ hold'[j].status = "held")
LEMMA SubmitForward ==
  ASSUME TypeOK, [Next]_vars, NEW j \in Jobs
  PROVE  Forward(j)
  <1>0. submit[j] \in Submit
    BY DEF TypeOK
  <1>1. ASSUME UNCHANGED submit PROVE Forward(j)
    BY <1>1 DEF Forward
  <1>2. ASSUME NEW k \in Jobs, NEW pc \in {"inserted", "accepted", "refused"}, SubmitTo(k, pc)
        PROVE  Forward(j)
    BY <1>0, <1>2 DEF SubmitTo, TypeOK, Submit, Forward
  <1>3. ASSUME NEW k \in Jobs, SubmitStep(k) PROVE Forward(j)
    <2>1. ASSUME NEW placed \in BOOLEAN, NEW confirmed \in BOOLEAN, Reserve(k, placed, confirmed)
          PROVE  Forward(j)
      <3>1. CASE ~confirmed
        BY <1>2, <2>1, <3>1 DEF Reserve
      <3>2. CASE confirmed
        <4>1. /\ submit' = [submit EXCEPT ![k].pc = "reserved"] /\ submit[k].pc = "new"
              /\ hold' = [hold EXCEPT ![k] = [status |-> "held", age |-> 0]]
          BY <2>1, <3>2 DEF Reserve, SubmitTo
        <4>2. CASE j = k
          BY <1>0, <4>1, <4>2 DEF TypeOK, Submit, Forward
        <4>3. CASE j # k
          BY <4>1, <4>3 DEF TypeOK, Forward
        <4> QED BY <4>2, <4>3
      <3> QED BY <3>1, <3>2
    <2>2. ASSUME NEW written \in BOOLEAN, NEW confirmed \in BOOLEAN, Insert(k, written, confirmed)
          PROVE  Forward(j)
      <3>1. SubmitTo(k, "inserted") \/ SubmitTo(k, "refused")
        BY <2>2 DEF Insert
      <3> QED BY <1>2, <3>1
    <2>3. ASSUME NEW sent \in BOOLEAN, Publish(k) \/ DirectDispatch(k, sent)
          PROVE  Forward(j)
      <3>1. SubmitTo(k, "accepted")
        BY <2>3 DEF Publish, DirectDispatch
      <3> QED BY <1>2, <3>1
    <2> QED BY <1>3, <2>1, <2>2, <2>3 DEF SubmitStep
  <1>4. ASSUME NEW p \in Replicas, Crash(p) PROVE Forward(j)
    BY <1>0, <1>4 DEF Crash, Submit, Forward
  <1>5. ASSUME NEW k \in Jobs, CancelStep(k) \/ StuckSweep(k) \/ HoldLapses(k)
        PROVE  UNCHANGED submit
    BY <1>5 DEF CancelStep, Abort, CancelRelease, StuckSweep, HoldLapses
  <1>6. ASSUME NEW p \in Replicas, NEW k \in Jobs, RunnerStep(p, k) PROVE UNCHANGED submit
    BY <1>6 DEF RunnerStep, Load, Drop, Claim, Progress, FinalizeError, ClaimError, Answer, Finalize,
                Settle
  <1>7. ASSUME NEW p \in Replicas, NEW k \in Jobs, NEW confirmed \in BOOLEAN,
               Deliver(p, k) \/ WallclockExpires(p, k) \/ Cancel(p, k, confirmed)
        PROVE  UNCHANGED submit
    BY <1>7 DEF Deliver, WallclockExpires, Cancel
  <1>8. ASSUME NEW p \in Replicas, Tick \/ ConnectionLost(p) PROVE UNCHANGED submit
    BY <1>8 DEF Tick, ConnectionLost
  <1>9. CASE UNCHANGED vars
    BY <1>1, <1>9 DEF vars
  <1>10. CASE Tick
    BY <1>1, <1>10 DEF Tick
  <1> QED BY <1>1, <1>3, <1>4, <1>5, <1>6, <1>7, <1>8, <1>9, <1>10 DEF Next

\* The inductive invariant of a job's records.
Records ==
  /\ TypeOK
  /\ NotInserted
  /\ Unclaimed
  /\ OneExecution
  /\ EventsMatchStatus
  /\ AuditRowsAgree

\* It holds before anything was submitted.
LEMMA RecordsInit == Init => Records
  <1> SUFFICES ASSUME Init PROVE Records
    OBVIOUS
  <1>1. \A j \in Jobs : /\ row[j] = NoRow /\ claims[j] = 0
                        /\ events[j] = <<>> /\ usage[j] = <<>>
    BY DEF Init
  <1>2. NoRow.status = "none" /\ "none" \notin Terminal
    BY DEF NoRow, Terminal
  <1> QED BY <1>1, <1>2, TypeInit
          DEF Records, NotInserted, Unclaimed, OneExecution, EventsMatchStatus, AuditRowsAgree, Ended

\* And every step, being a step of each job's life, preserves it.
LEMMA RecordsNext == Records /\ [Next]_vars => Records'
  <1> SUFFICES ASSUME Records, [Next]_vars PROVE Records'
    OBVIOUS
  <1>1. TypeOK'
    BY TypeNext DEF Records
  <1>2. ASSUME NEW j \in Jobs PROVE JobStep(j)
    BY JobSteps DEF Records
  <1>3. \A j \in Jobs : claims[j] \in Nat /\ usage[j] \in Seq(Terminal)
    BY DEF Records, TypeOK
  <1>4. "none" \notin Terminal /\ "pending" \notin Terminal /\ "running" \notin Terminal
    BY DEF Terminal
  <1>5. NotInserted'
    <2> SUFFICES ASSUME NEW j \in Jobs, submit'[j].pc \in {"new", "reserved"}
                 PROVE  row'[j].status = "none"
      BY DEF NotInserted
    <2>1. row[j].status = "none"
      BY SubmitForward DEF Records, NotInserted, Forward
    <2> QED BY <1>2, <2>1, EndsOnce DEF JobStep, Keeps, Inserts, Claims
  <1>6. Unclaimed' /\ OneExecution'
    <2> SUFFICES ASSUME NEW j \in Jobs
                 PROVE  /\ row'[j].status \in {"none", "pending"} => claims'[j] = 0
                        /\ claims'[j] <= 1
      BY DEF Unclaimed, OneExecution
    <2>1. /\ row[j].status \in {"none", "pending"} => claims[j] = 0
          /\ claims[j] <= 1 /\ claims[j] \in Nat
      BY <1>3 DEF Records, Unclaimed, OneExecution
    <2>2. Ends(j) => row'[j].status \in Terminal /\ claims'[j] = claims[j]
      BY EndsOnce DEF Ends
    <2> QED BY <1>2, <1>4, <2>1, <2>2 DEF JobStep, Keeps, Inserts, Claims
  <1>7. EventsMatchStatus'
    <2> SUFFICES ASSUME NEW j \in Jobs
                 PROVE  events'[j] = IF row'[j].status \in Terminal THEN <<row'[j].status>> ELSE <<>>
      BY DEF EventsMatchStatus, Ended
    <2>1. events[j] = IF row[j].status \in Terminal THEN <<row[j].status>> ELSE <<>>
      BY DEF Records, EventsMatchStatus, Ended
    <2>2. CASE Ends(j)
      <3>1. events[j] = <<>> /\ events'[j] = Append(events[j], row'[j].status)
        BY <1>4, <2>1, <2>2, EndsOnce DEF Ends
      <3> QED BY <2>2, <3>1, EndsOnce
    <2>3. CASE Keeps(j) \/ Inserts(j) \/ Claims(j)
      BY <1>4, <2>1, <2>3 DEF Keeps, Inserts, Claims
    <2> QED BY <1>2, <2>2, <2>3 DEF JobStep
  <1>8. AuditRowsAgree'
    <2> SUFFICES ASSUME NEW j \in Jobs, usage'[j] # <<>>
                 PROVE  row'[j].status \in Terminal /\ usage'[j] = <<row'[j].status>>
      BY DEF AuditRowsAgree, Ended
    <2>1. usage[j] # <<>> => row[j].status \in Terminal /\ usage[j] = <<row[j].status>>
      BY DEF Records, AuditRowsAgree, Ended
    <2>2. CASE Ends(j)
      <3>1. usage[j] = <<>>
        BY <1>4, <2>1, <2>2, EndsOnce
      <3> QED BY <2>2, <3>1, EndsOnce
    <2>3. CASE Keeps(j) \/ Inserts(j) \/ Claims(j)
      BY <1>4, <2>1, <2>3 DEF Keeps, Inserts, Claims
    <2> QED BY <1>2, <2>2, <2>3 DEF JobStep
  <1> QED BY <1>1, <1>5, <1>6, <1>7, <1>8 DEF Records

\* Hence it always holds.
LEMMA RecordsAlways == Spec => []Records
  BY RecordsInit, RecordsNext, PTL DEF Spec

\* However often a job is delivered, and by whichever replicas, one worker at
\* most marks it running, so the provider is called for it once.
THEOREM ClaimedOnce == Spec => []OneExecution
  BY RecordsAlways, PTL DEF Records

\* Whoever wins the race to end a job, it has one terminal event, of the
\* status it ended with, and none before.
THEOREM OneTerminalEvent == Spec => []EventsMatchStatus
  BY RecordsAlways, PTL DEF Records

\* A job has one audit row at most, and it carries the status the job ended with.
THEOREM AuditAgrees == Spec => []AuditRowsAgree
  BY RecordsAlways, PTL DEF Records

\* No step overwrites the status of a job that has ended.
LEMMA EndedStays ==
  ASSUME TypeOK, NotInserted, [Next]_vars, NEW j \in Jobs, Ended(j)
  PROVE  row'[j].status = row[j].status
  <1>1. JobStep(j)
    BY JobSteps
  <1>2. ~Inserts(j) /\ ~Claims(j) /\ ~Ends(j)
    BY EndsOnce DEF Inserts, Claims, Ended, Terminal
  <1> QED BY <1>1, <1>2 DEF JobStep, Keeps

-----------------------------------------------------------------------------
(* Money follows the outcome.  A worker about to settle holds the status   *)
(* the job ended with, and a DELETE about to release has cancelled it; a   *)
(* status that is final keeps both true until the call is made.            *)

Settling ==
  \A p \in Replicas, j \in Jobs :
    runner[p][j].pc = "settle" => row[j].status = runner[p][j].outcome
Cancelling ==
  \A j \in Jobs : canceller[j].pc \in {"abort", "release"} => row[j].status = "cancelled"

\* A runner arrives at its settlement with the status it has just written.
SettleStep(p, j) ==
  runner'[p][j].pc = "settle" =>
    \/ runner[p][j].pc = "settle" /\ runner'[p][j].outcome = runner[p][j].outcome
    \/ row'[j].status = runner'[p][j].outcome

\* A step of one goroutine that does not begin a settlement.
LEMMA RunnerKept ==
  ASSUME TypeOK, NEW p \in Replicas, NEW j \in Jobs, NEW q \in Replicas, NEW k \in Jobs,
         NEW w \in Runner, runner' = [runner EXCEPT ![q][k] = w],
         w.pc = "settle" => runner[q][k].pc = "settle" /\ w.outcome = runner[q][k].outcome
  PROVE  SettleStep(p, j)
  <1>1. runner'[p][j] = IF p = q /\ j = k THEN w ELSE runner[p][j]
    BY DEF TypeOK
  <1> QED BY <1>1 DEF SettleStep

\* Returning from the goroutine begins none.
LEMMA ReturnsSettle ==
  ASSUME TypeOK, NEW p \in Replicas, NEW j \in Jobs, NEW q \in Replicas, NEW k \in Jobs,
         Returns(q, k)
  PROVE  SettleStep(p, j)
  <1>1. NoRunner \in Runner /\ NoRunner.pc # "settle"
    BY DEF NoRunner, Runner, Outcomes
  <1> QED BY <1>1, RunnerKept DEF Returns

\* Of the worker's steps only the finalize begins one, with the status it wrote.
LEMMA RunnerSettleStep ==
  ASSUME TypeOK, NEW p \in Replicas, NEW j \in Jobs, NEW q \in Replicas, NEW k \in Jobs,
         RunnerStep(q, k)
  PROVE  SettleStep(p, j)
  <1> DEFINE w == runner[q][k]
  <1>0. w \in Runner
    BY DEF TypeOK
  <1>1. ASSUME Drop(q, k) \/ FinalizeError(q, k) PROVE SettleStep(p, j)
    BY <1>1, ReturnsSettle DEF Drop, FinalizeError
  <1>2. ASSUME Load(q, k) PROVE SettleStep(p, j)
    <2> DEFINE v == [w EXCEPT !.pc = "loaded", !.live = TRUE]
    <2>1. v \in Runner /\ v.pc = "loaded"
      BY <1>0 DEF Runner
    <2>2. runner' = [runner EXCEPT ![q][k] = v] \/ Returns(q, k)
      BY <1>2 DEF Load
    <2> HIDE DEF v
    <2> QED BY <2>1, <2>2, RunnerKept, ReturnsSettle
  <1>3. ASSUME Claim(q, k) PROVE SettleStep(p, j)
    <2> DEFINE v == [w EXCEPT !.pc = "claimed"]
    <2>1. v \in Runner /\ v.pc = "claimed"
      BY <1>0 DEF Runner
    <2>2. runner' = [runner EXCEPT ![q][k] = v] \/ Returns(q, k)
      BY <1>3 DEF Claim
    <2> HIDE DEF v
    <2> QED BY <2>1, <2>2, RunnerKept, ReturnsSettle
  <1>4. ASSUME NEW written \in BOOLEAN, ClaimError(q, k, written) PROVE SettleStep(p, j)
    <2> DEFINE v == [w EXCEPT !.pc = "answered"]
    <2>1. v \in Runner /\ v.pc = "answered"
      BY <1>0 DEF Runner
    <2>2. runner' = [runner EXCEPT ![q][k] = v]
      BY <1>4 DEF ClaimError
    <2> HIDE DEF v
    <2> QED BY <2>1, <2>2, RunnerKept
  <1>5. ASSUME Progress(q, k) PROVE SettleStep(p, j)
    BY <1>5 DEF Progress, SettleStep
  <1>6. ASSUME NEW outcome \in Outcomes, Answer(q, k, outcome) PROVE SettleStep(p, j)
    <2> DEFINE v == [w EXCEPT !.pc = "answered", !.outcome = outcome]
    <2>1. v \in Runner /\ v.pc = "answered"
      BY <1>0 DEF Runner
    <2>2. runner' = [runner EXCEPT ![q][k] = v]
      BY <1>6 DEF Answer
    <2> HIDE DEF v
    <2> QED BY <2>1, <2>2, RunnerKept
  <1>7. ASSUME NEW billed \in BOOLEAN, NEW confirmed \in BOOLEAN, Finalize(q, k, billed, confirmed)
        PROVE  SettleStep(p, j)
    <2>1. ASSUME ~(Finalizable(k) /\ confirmed) PROVE SettleStep(p, j)
      BY <1>7, <2>1, ReturnsSettle DEF Finalize
    <2>2. ASSUME Finalizable(k), confirmed PROVE SettleStep(p, j)
      <3> DEFINE v == [w EXCEPT !.pc = "settle", !.billed = billed]
      <3>0. runner' = [runner EXCEPT ![q][k].pc = "settle", ![q][k].billed = billed]
        BY <1>7, <2>2 DEF Finalize
      <3>1. runner' = [runner EXCEPT ![q][k] = v]
        BY <3>0
      <3>2. v.outcome = w.outcome
        BY <1>0 DEF Runner
      <3>3. runner'[p][j] = IF p = q /\ j = k THEN v ELSE runner[p][j]
        BY <3>1 DEF TypeOK
      <3>4. row' = [row EXCEPT ![k] = [row[k] EXCEPT !.status = w.outcome]] /\ row[k] \in Row
        BY <1>7, <2>2 DEF Finalize, TypeOK
      <3>5. row'[k].status = w.outcome
        BY <3>4, StatusOf DEF TypeOK
      <3> HIDE DEF v
      <3> QED BY <3>2, <3>3, <3>5 DEF SettleStep
    <2> QED BY <2>1, <2>2
  <1>8. ASSUME NEW arrives \in BOOLEAN, Settle(q, k, arrives) PROVE SettleStep(p, j)
    BY <1>8, ReturnsSettle DEF Settle
  <1> QED BY <1>1, <1>2, <1>3, <1>4, <1>5, <1>6, <1>7, <1>8 DEF RunnerStep

\* Aborting a runner, and its deadline, leave its outcome alone.
LEMMA DeadRunner ==
  ASSUME NEW w \in Runner
  PROVE  /\ [w EXCEPT !.live = FALSE] \in Runner
         /\ [w EXCEPT !.live = FALSE].pc = w.pc
         /\ [w EXCEPT !.live = FALSE].outcome = w.outcome
  BY DEF Runner

\* No other step does, stuttering included.
LEMMA SettleSteps ==
  ASSUME TypeOK, [Next]_vars, NEW p \in Replicas, NEW j \in Jobs
  PROVE  SettleStep(p, j)
  <1>0. ASSUME UNCHANGED runner PROVE SettleStep(p, j)
    BY <1>0 DEF SettleStep
  <1>1. ASSUME NEW k \in Jobs, SubmitStep(k) PROVE SettleStep(p, j)
    <2>1. ASSUME NEW placed \in BOOLEAN, NEW confirmed \in BOOLEAN,
                 Reserve(k, placed, confirmed) \/ Insert(k, placed, confirmed) \/ Publish(k)
          PROVE  SettleStep(p, j)
      BY <1>0, <2>1 DEF Reserve, Insert, Publish
    <2>2. ASSUME NEW sent \in BOOLEAN, DirectDispatch(k, sent) PROVE SettleStep(p, j)
      <3> DEFINE q == submit[k].at
                 w == [NoRunner EXCEPT !.pc = "loaded", !.live = TRUE, !.direct = TRUE]
      <3>1. q \in Replicas
        BY DEF TypeOK, Submit
      <3>2. w \in Runner /\ w.pc # "settle"
        BY DEF NoRunner, Runner, Outcomes
      <3>3. runner' = [runner EXCEPT ![q][k] = w]
        BY <2>2 DEF DirectDispatch
      <3> HIDE DEF q, w
      <3> QED BY <3>1, <3>2, <3>3, RunnerKept
    <2> QED BY <1>1, <2>1, <2>2 DEF SubmitStep
  <1>2. ASSUME NEW k \in Jobs, Abort(k) PROVE SettleStep(p, j)
    <2> DEFINE q == canceller[k].at
               w == [runner[q][k] EXCEPT !.live = FALSE]
    <2>1. q \in Replicas
      BY DEF TypeOK, Canceller
    <2>2. runner[q][k] \in Runner
      BY <2>1 DEF TypeOK
    <2>3. runner' = [runner EXCEPT ![q][k] = w]
      BY <1>2 DEF Abort, AbortedRunner
    <2>4. w \in Runner /\ w.pc = runner[q][k].pc /\ w.outcome = runner[q][k].outcome
      BY <2>2, DeadRunner
    <2> HIDE DEF q, w
    <2> QED BY <2>1, <2>3, <2>4, RunnerKept
  <1>3. ASSUME NEW q \in Replicas, NEW k \in Jobs, WallclockExpires(q, k) PROVE SettleStep(p, j)
    <2> DEFINE w == [runner[q][k] EXCEPT !.live = FALSE]
    <2>1. runner[q][k] \in Runner
      BY DEF TypeOK
    <2>2. runner' = [runner EXCEPT ![q][k] = w]
      BY <1>3 DEF WallclockExpires
    <2>3. w \in Runner /\ w.pc = runner[q][k].pc /\ w.outcome = runner[q][k].outcome
      BY <2>1, DeadRunner
    <2> HIDE DEF w
    <2> QED BY <2>2, <2>3, RunnerKept
  <1>4. ASSUME NEW q \in Replicas, NEW k \in Jobs, Deliver(q, k) PROVE SettleStep(p, j)
    <2> DEFINE w == [NoRunner EXCEPT !.pc = "delivered"]
    <2>1. w \in Runner /\ w.pc # "settle"
      BY DEF NoRunner, Runner, Outcomes
    <2>2. runner' = [runner EXCEPT ![q][k] = w]
      BY <1>4 DEF Deliver
    <2> HIDE DEF w
    <2> QED BY <2>1, <2>2, RunnerKept
  <1>5. ASSUME NEW q \in Replicas, Crash(q) PROVE SettleStep(p, j)
    <2>1. runner'[p][j] = IF p = q THEN NoRunner ELSE runner[p][j]
      BY <1>5 DEF Crash, TypeOK
    <2> QED BY <2>1 DEF SettleStep, NoRunner
  <1>6. ASSUME NEW k \in Jobs, NEW arrives \in BOOLEAN,
               CancelRelease(k, arrives) \/ StuckSweep(k) \/ HoldLapses(k)
        PROVE  UNCHANGED runner
    BY <1>6 DEF CancelRelease, StuckSweep, HoldLapses
  <1>7. ASSUME NEW q \in Replicas, NEW k \in Jobs, NEW confirmed \in BOOLEAN, Cancel(q, k, confirmed)
        PROVE  UNCHANGED runner
    BY <1>7 DEF Cancel
  <1>8. ASSUME NEW q \in Replicas, ConnectionLost(q) PROVE UNCHANGED runner
    BY <1>8 DEF ConnectionLost
  <1>9. CASE Tick \/ UNCHANGED vars
    BY <1>0, <1>9 DEF Tick, vars
  <1> QED BY <1>0, <1>1, <1>2, <1>3, <1>4, <1>5, <1>6, <1>7, <1>8, <1>9, RunnerSettleStep
          DEF Next, CancelStep

\* A DELETE proceeds only for a job it has cancelled.
LEMMA CancelSteps ==
  ASSUME TypeOK, [Next]_vars, NEW j \in Jobs, canceller'[j].pc \in {"abort", "release"}
  PROVE  canceller[j].pc \in {"abort", "release"} \/ row'[j].status = "cancelled"
  <1> DEFINE Goal == canceller[j].pc \in {"abort", "release"} \/ row'[j].status = "cancelled"
  <1>0. canceller[j] \in Canceller
    BY DEF TypeOK
  <1>1. ASSUME UNCHANGED canceller PROVE Goal
    BY <1>1
  <1>2. ASSUME NEW p \in Replicas, NEW k \in Jobs, NEW confirmed \in BOOLEAN, Cancel(p, k, confirmed)
        PROVE  Goal
    <2>1. CASE j # k
      <3>1. canceller' = [canceller EXCEPT ![k] = [pc |-> "abort", at |-> p]] \/ canceller' = canceller
        BY <1>2 DEF Cancel
      <3>2. canceller'[j] = canceller[j]
        BY <2>1, <3>1 DEF TypeOK
      <3> QED BY <3>2
    <2>2. CASE j = k
      <3>1. row' = [row EXCEPT ![j] = [row[j] EXCEPT !.status = "cancelled"]] /\ row[j] \in Row
        BY <1>2, <2>2 DEF Cancel, TypeOK
      <3>2. row'[j].status = "cancelled"
        BY <3>1, StatusOf DEF TypeOK
      <3> QED BY <3>2
    <2> QED BY <2>1, <2>2
  <1>3. ASSUME NEW k \in Jobs, CancelStep(k) PROVE Goal
    BY <1>0, <1>3 DEF CancelStep, Abort, CancelRelease, TypeOK, Canceller
  <1>4. ASSUME NEW p \in Replicas, Crash(p) PROVE Goal
    BY <1>0, <1>4 DEF Crash, Canceller
  <1>5. ASSUME NEW k \in Jobs, SubmitStep(k) \/ StuckSweep(k) \/ HoldLapses(k)
        PROVE  UNCHANGED canceller
    BY <1>5 DEF SubmitStep, Reserve, Insert, Publish, DirectDispatch, StuckSweep, HoldLapses
  <1>6. ASSUME NEW p \in Replicas, NEW k \in Jobs, RunnerStep(p, k) PROVE UNCHANGED canceller
    BY <1>6 DEF RunnerStep, Load, Drop, Claim, Progress, FinalizeError, ClaimError, Answer, Finalize,
                Settle
  <1>7. ASSUME NEW p \in Replicas, NEW k \in Jobs, Deliver(p, k) \/ WallclockExpires(p, k)
        PROVE  UNCHANGED canceller
    BY <1>7 DEF Deliver, WallclockExpires
  <1>8. ASSUME NEW p \in Replicas, ConnectionLost(p) PROVE UNCHANGED canceller
    BY <1>8 DEF ConnectionLost
  <1>9. ASSUME Tick \/ UNCHANGED vars PROVE Goal
    BY <1>9 DEF Tick, vars
  <1> HIDE DEF Goal
  <1> QED
    <2>1. Goal
      BY <1>1, <1>2, <1>3, <1>4, <1>5, <1>6, <1>7, <1>8, <1>9 DEF Next
    <2> QED BY <2>1 DEF Goal

\* A hold is placed by the submit handler, lapses, and is charged or given back
\* only by a call with the job's outcome.
MoneyStep(j) ==
  \/ hold'[j].status = hold[j].status
  \/ submit[j].pc = "new" /\ submit'[j].pc # "new" /\ hold'[j].status = "held"
  \/ hold[j].status = "held" /\ hold'[j].status = "swept"
  \/ /\ hold[j].status \in {"held", "swept"} /\ row[j].status = "completed"
     /\ hold'[j].status = "reconciled"
  \/ /\ hold[j].status = "held" /\ row[j].status \in {"failed", "cancelled"}
     /\ hold'[j].status = "released"

LEMMA MoneySteps ==
  ASSUME TypeOK, Settling, Cancelling, [Next]_vars, NEW j \in Jobs
  PROVE  MoneyStep(j)
  <1>0. hold[j] \in Hold
    BY DEF TypeOK
  <1>1. ASSUME hold'[j] = hold[j] PROVE MoneyStep(j)
    BY <1>1 DEF MoneyStep
  <1>2. ASSUME NEW k \in Jobs, NEW placed \in BOOLEAN, NEW confirmed \in BOOLEAN,
               Reserve(k, placed, confirmed)
        PROVE  MoneyStep(j)
    <2>1. CASE ~placed \/ j # k
      <3>1. hold'[j] = hold[j]
        BY <1>2, <2>1 DEF Reserve, TypeOK
      <3> QED BY <1>1, <3>1
    <2>2. CASE placed /\ j = k
      <3>1. hold'[j] = [status |-> "held", age |-> 0] /\ submit[j].pc = "new"
        BY <1>2, <2>2 DEF Reserve, TypeOK
      <3>2. SubmitTo(j, "reserved") \/ SubmitTo(j, "refused")
        BY <1>2, <2>2 DEF Reserve
      <3>3. submit'[j].pc # "new"
        BY <3>2 DEF SubmitTo, TypeOK, Submit
      <3> QED BY <3>1, <3>3 DEF MoneyStep
    <2> QED BY <2>1, <2>2
  <1>3. ASSUME NEW p \in Replicas, NEW k \in Jobs, NEW arrives \in BOOLEAN, Settle(p, k, arrives)
        PROVE  MoneyStep(j)
    <2>1. CASE j # k \/ ~arrives
      <3>1. hold' = [hold EXCEPT ![k] = Settlement(hold[k], runner[p][k].outcome)] \/ hold' = hold
        BY <1>3 DEF Settle
      <3>2. ~arrives => hold' = hold
        BY <1>3 DEF Settle
      <3>3. hold'[j] = hold[j]
        BY <2>1, <3>1, <3>2 DEF TypeOK
      <3> QED BY <1>1, <3>3
    <2>2. CASE j = k /\ arrives
      <3>1. runner[p][j].pc = "settle" /\ runner[p][j] \in Runner
        BY <1>3, <2>2 DEF Settle, TypeOK
      <3>2. row[j].status = runner[p][j].outcome /\ runner[p][j].outcome \in Outcomes
        BY <3>1 DEF Settling, Runner
      <3>3. hold'[j] = Settlement(hold[j], row[j].status)
        BY <1>3, <2>2, <3>2 DEF Settle, TypeOK
      <3>4. row[j].status = "completed" \/ row[j].status = "failed"
        BY <3>2 DEF Outcomes
      <3>5. CASE row[j].status = "completed"
        BY <1>0, <3>3, <3>5 DEF Settlement, Reconciled, Hold, MoneyStep
      <3>6. CASE row[j].status = "failed"
        BY <1>0, <3>3, <3>6 DEF Settlement, Released, Hold, MoneyStep
      <3> QED BY <3>4, <3>5, <3>6
    <2> QED BY <2>1, <2>2
  <1>4. ASSUME NEW k \in Jobs, NEW arrives \in BOOLEAN, CancelRelease(k, arrives) PROVE MoneyStep(j)
    <2>1. canceller[k].pc = "release" /\ row[k].status = "cancelled"
      BY <1>4 DEF CancelRelease, Cancelling
    <2>2. hold' = [hold EXCEPT ![k] = Released(hold[k])] \/ hold' = hold
      BY <1>4 DEF CancelRelease
    <2>3. hold'[j] = hold[j] \/ (j = k /\ hold'[j] = Released(hold[j]))
      BY <2>2 DEF TypeOK
    <2> QED BY <1>0, <2>1, <2>3 DEF Released, Hold, MoneyStep
  <1>5. ASSUME NEW k \in Jobs, HoldLapses(k) PROVE MoneyStep(j)
    BY <1>0, <1>5 DEF HoldLapses, Lapsed, TypeOK, Hold, MoneyStep
  <1>6. ASSUME Tick PROVE MoneyStep(j)
    BY <1>0, <1>6 DEF Tick, Hold, MoneyStep
  <1>7. ASSUME NEW k \in Jobs, NEW a \in BOOLEAN, NEW b \in BOOLEAN,
               Insert(k, a, b) \/ Publish(k) \/ DirectDispatch(k, a) \/ Abort(k) \/ StuckSweep(k)
        PROVE  UNCHANGED hold
    BY <1>7 DEF Insert, Publish, DirectDispatch, Abort, StuckSweep
  <1>8. ASSUME NEW p \in Replicas, NEW k \in Jobs, NEW a \in BOOLEAN, NEW b \in BOOLEAN,
               NEW outcome \in Outcomes,
               \/ Load(p, k) \/ Drop(p, k) \/ Claim(p, k) \/ Progress(p, k) \/ FinalizeError(p, k)
               \/ ClaimError(p, k, a) \/ Answer(p, k, outcome) \/ Finalize(p, k, a, b)
               \/ Deliver(p, k) \/ WallclockExpires(p, k) \/ Cancel(p, k, a)
        PROVE  UNCHANGED hold
    BY <1>8 DEF Load, Drop, Claim, Progress, FinalizeError, ClaimError, Answer, Finalize, Deliver,
                WallclockExpires, Cancel
  <1>9. ASSUME NEW p \in Replicas, ConnectionLost(p) \/ Crash(p) PROVE UNCHANGED hold
    BY <1>9 DEF ConnectionLost, Crash
  <1>10. ASSUME UNCHANGED vars PROVE MoneyStep(j)
    BY <1>1, <1>10 DEF vars
  <1>11. "failed" \in Outcomes
    BY DEF Outcomes
  <1>12. ASSUME NEW k \in Jobs, SubmitStep(k) \/ CancelStep(k) \/ StuckSweep(k) \/ HoldLapses(k)
         PROVE  MoneyStep(j)
    BY <1>1, <1>2, <1>4, <1>5, <1>7, <1>12 DEF SubmitStep, CancelStep
  <1>13. ASSUME NEW p \in Replicas, NEW k \in Jobs, RunnerStep(p, k) PROVE MoneyStep(j)
    BY <1>1, <1>3, <1>8, <1>11, <1>13 DEF RunnerStep
  <1>14. ASSUME NEW p \in Replicas, NEW k \in Jobs, NEW confirmed \in BOOLEAN,
                Deliver(p, k) \/ WallclockExpires(p, k) \/ Cancel(p, k, confirmed)
         PROVE  MoneyStep(j)
    BY <1>1, <1>8, <1>11, <1>14
  <1> QED BY <1>1, <1>6, <1>9, <1>10, <1>12, <1>13, <1>14 DEF Next

\* The handler holds the money before it inserts the row, and holds it once.
HoldFirst ==
  \A j \in Jobs :
    /\ submit[j].pc = "new" => hold[j].status = "none"
    /\ submit[j].pc = "reserved" => hold[j].status # "none"

\* The inductive invariant of the settlement.
Money == Records /\ HoldFirst /\ Settling /\ Cancelling /\ SettlementMatchesOutcome

\* It holds before anything was submitted.
LEMMA MoneyInit == Init => Money
  <1> SUFFICES ASSUME Init PROVE Money
    OBVIOUS
  <1>1. \A p \in Replicas, j \in Jobs : runner[p][j].pc # "settle"
    BY DEF Init, NoRunner
  <1>2. \A j \in Jobs : canceller[j].pc = "none"
    <2>1. PICK p \in Replicas : canceller = [j \in Jobs |-> [pc |-> "none", at |-> p]]
      BY DEF Init
    <2> QED BY <2>1
  <1>3. \A j \in Jobs : hold[j].status = "none"
    BY DEF Init, NoHold
  <1>4. HoldFirst
    BY <1>3 DEF Init, HoldFirst
  <1> QED BY <1>1, <1>2, <1>3, <1>4, RecordsInit
          DEF Money, Settling, Cancelling, SettlementMatchesOutcome

\* Each end of a job is final, so that what a settlement relies on stays true.
LEMMA MoneyNext == Money /\ [Next]_vars => Money'
  <1> SUFFICES ASSUME Money, [Next]_vars PROVE Money'
    OBVIOUS
  <1>1. Records'
    BY RecordsNext DEF Money
  <1>2. TypeOK /\ NotInserted
    BY DEF Money, Records
  <1>3. ASSUME NEW j \in Jobs, row[j].status \in Terminal PROVE row'[j].status = row[j].status
    BY <1>2, <1>3, EndedStays DEF Ended
  <1>4. Settling'
    <2> SUFFICES ASSUME NEW p \in Replicas, NEW j \in Jobs, runner'[p][j].pc = "settle"
                 PROVE  row'[j].status = runner'[p][j].outcome
      BY DEF Settling
    <2>1. SettleStep(p, j)
      BY <1>2, SettleSteps
    <2>2. ASSUME runner[p][j].pc = "settle" PROVE row'[j].status = runner[p][j].outcome
      <3>1. row[j].status = runner[p][j].outcome
        BY <2>2 DEF Money, Settling
      <3>2. runner[p][j].outcome \in Terminal
        BY <1>2 DEF TypeOK, Runner, Outcomes, Terminal
      <3> QED BY <1>3, <3>1, <3>2
    <2> QED BY <2>1, <2>2 DEF SettleStep
  <1>5. Cancelling'
    <2> SUFFICES ASSUME NEW j \in Jobs, canceller'[j].pc \in {"abort", "release"}
                 PROVE  row'[j].status = "cancelled"
      BY DEF Cancelling
    <2>1. canceller[j].pc \in {"abort", "release"} \/ row'[j].status = "cancelled"
      BY <1>2, CancelSteps
    <2>2. ASSUME canceller[j].pc \in {"abort", "release"} PROVE row'[j].status = "cancelled"
      <3>1. row[j].status = "cancelled"
        BY <2>2 DEF Money, Cancelling
      <3> QED BY <1>3, <3>1 DEF Terminal
    <2> QED BY <2>1, <2>2
  <1>6. SettlementMatchesOutcome'
    <2> SUFFICES ASSUME NEW j \in Jobs
                 PROVE  /\ hold'[j].status = "reconciled" => row'[j].status = "completed"
                        /\ hold'[j].status = "released" => row'[j].status \in {"failed", "cancelled"}
      BY DEF SettlementMatchesOutcome
    <2>1. /\ hold[j].status = "reconciled" => row[j].status = "completed"
          /\ hold[j].status = "released" => row[j].status \in {"failed", "cancelled"}
      BY DEF Money, SettlementMatchesOutcome
    <2>2. MoneyStep(j)
      BY <1>2, MoneySteps DEF Money
    <2> QED BY <1>3, <2>1, <2>2 DEF MoneyStep, Terminal
  <1>7. HoldFirst'
    <2> SUFFICES ASSUME NEW j \in Jobs
                 PROVE  /\ submit'[j].pc = "new" => hold'[j].status = "none"
                        /\ submit'[j].pc = "reserved" => hold'[j].status # "none"
      BY DEF HoldFirst
    <2>1. Forward(j) /\ MoneyStep(j)
      BY <1>2, SubmitForward, MoneySteps DEF Money
    <2>2. /\ submit[j].pc = "new" => hold[j].status = "none"
          /\ submit[j].pc = "reserved" => hold[j].status # "none"
      BY DEF Money, HoldFirst
    <2> QED BY <2>1, <2>2 DEF Forward, MoneyStep
  <1> QED BY <1>1, <1>4, <1>5, <1>6, <1>7 DEF Money

\* A hold is charged only for a job that completed and given back only for one
\* that failed or was cancelled, whoever ended the job, and a settlement that
\* arrives late still finds the outcome it was sent for.
THEOREM MoneyFollowsOutcome == Spec => []SettlementMatchesOutcome
  BY MoneyInit, MoneyNext, PTL DEF Spec, Money

-----------------------------------------------------------------------------
(* One life.  A step of the service touches the record of a job or its     *)
(* hold, never both, so that it is one step of the life of each job, or    *)
(* none.                                                                   *)

\* No step writes the row and the reservation of a job, which are two databases'.
OneSide(j) == hold'[j].status = hold[j].status \/ Keeps(j)
LEMMA Apart ==
  ASSUME TypeOK, [Next]_vars, NEW j \in Jobs
  PROVE  OneSide(j)
  <1>1. ASSUME hold'[j] = hold[j] PROVE OneSide(j)
    BY <1>1 DEF OneSide
  <1>2. ASSUME UNCHANGED <<row, usage, events, claims>> PROVE OneSide(j)
    BY <1>2 DEF Keeps, OneSide
  <1>3. CASE UNCHANGED vars
    BY <1>1, <1>3 DEF vars
  <1>4. CASE Tick
    <2>1. hold[j] \in Hold
      BY DEF TypeOK
    <2>2. hold'[j] = hold[j] \/ hold'[j] = [hold[j] EXCEPT !.age = Aged(hold[j].age, Ttl)]
      BY <1>4 DEF Tick
    <2> QED BY <2>1, <2>2 DEF Hold, OneSide
  <1>5. ASSUME NEW p \in Replicas, ConnectionLost(p) \/ Crash(p) PROVE OneSide(j)
    BY <1>2, <1>5 DEF ConnectionLost, Crash, database
  <1>6. ASSUME NEW k \in Jobs, SubmitStep(k) PROVE OneSide(j)
    <2>1. ASSUME NEW a \in BOOLEAN, NEW b \in BOOLEAN, Reserve(k, a, b) PROVE OneSide(j)
      BY <1>2, <2>1 DEF Reserve, database
    <2>2. ASSUME NEW a \in BOOLEAN, NEW b \in BOOLEAN,
                 Insert(k, a, b) \/ Publish(k) \/ DirectDispatch(k, a)
          PROVE  OneSide(j)
      BY <1>1, <2>2 DEF Insert, Publish, DirectDispatch
    <2> QED BY <1>6, <2>1, <2>2 DEF SubmitStep
  <1>7. ASSUME NEW k \in Jobs, CancelStep(k) \/ HoldLapses(k) PROVE OneSide(j)
    BY <1>2, <1>7 DEF CancelStep, Abort, CancelRelease, HoldLapses, database
  <1>8. ASSUME NEW k \in Jobs, StuckSweep(k) PROVE OneSide(j)
    BY <1>1, <1>8 DEF StuckSweep
  <1>9. ASSUME NEW p \in Replicas, NEW k \in Jobs, RunnerStep(p, k) PROVE OneSide(j)
    <2>1. ASSUME NEW a \in BOOLEAN, Settle(p, k, a) PROVE OneSide(j)
      BY <1>2, <2>1 DEF Settle, database
    <2>2. ASSUME NEW a \in BOOLEAN, NEW b \in BOOLEAN, NEW outcome \in Outcomes,
                 \/ Load(p, k) \/ Drop(p, k) \/ Claim(p, k) \/ Progress(p, k)
                 \/ FinalizeError(p, k) \/ ClaimError(p, k, a) \/ Answer(p, k, outcome)
                 \/ Finalize(p, k, a, b)
          PROVE  OneSide(j)
      BY <1>1, <2>2 DEF Load, Drop, Claim, Progress, FinalizeError, ClaimError, Answer, Finalize
    <2>3. "failed" \in Outcomes
      BY DEF Outcomes
    <2> QED BY <1>9, <2>1, <2>2, <2>3 DEF RunnerStep
  <1>10. ASSUME NEW p \in Replicas, NEW k \in Jobs, NEW a \in BOOLEAN,
                Deliver(p, k) \/ WallclockExpires(p, k) \/ Cancel(p, k, a)
         PROVE  OneSide(j)
    BY <1>1, <1>10 DEF Deliver, WallclockExpires, Cancel
  <1> QED BY <1>3, <1>4, <1>5, <1>6, <1>7, <1>8, <1>9, <1>10 DEF Next

\* A step of the job's record that leaves its hold alone.
LEMMA RecordMaps ==
  ASSUME NEW j \in Jobs, JobStep(j), hold'[j].status = hold[j].status,
         submit[j].pc = "reserved" => hold[j].status # "none"
  PROVE  [Life(j)!Next]_(Life(j)!vars)
  <1>1. CASE Keeps(j)
    BY <1>1 DEF Keeps, Life!vars
  <1>2. CASE Inserts(j)
    <2>1. Life(j)!Create
      BY <1>2 DEF Inserts, Life!Create
    <2> QED BY <2>1 DEF Life!Next
  <1>3. CASE Claims(j)
    <2>1. Life(j)!Begin
      BY <1>3 DEF Claims, Life!Begin
    <2> QED BY <2>1 DEF Life!Next
  <1>4. CASE Ends(j)
    <2>1. CASE CutShort(row[j].status, row'[j].status) /\ usage'[j] = Append(usage[j], row'[j].status)
      <3>1. Life(j)!Cancel
        BY <1>4, <2>1 DEF Ends, CutShort, Life!Cancel
      <3> QED BY <3>1 DEF Life!Next
    <2>2. CASE /\ RunsOut(row[j].status, row'[j].status)
               /\ usage'[j] \in {usage[j], Append(usage[j], row'[j].status)}
      <3>1. PICK audited \in BOOLEAN :
              usage'[j] = IF audited THEN Append(usage[j], row'[j].status) ELSE usage[j]
        BY <2>2
      <3>2. row'[j].status \in {"completed", "failed"}
        BY <2>2 DEF RunsOut, Outcomes
      <3>3. Life(j)!Finish(row'[j].status, audited)
        BY <1>4, <2>2, <3>1 DEF Ends, RunsOut, Life!Finish
      <3> QED BY <3>2, <3>3 DEF Life!Next
    <2> QED BY <1>4, <2>1, <2>2 DEF Ends
  <1> QED BY <1>1, <1>2, <1>3, <1>4 DEF JobStep

\* A step of the hold that leaves the record alone.
LEMMA HoldMaps ==
  ASSUME NEW j \in Jobs, MoneyStep(j), Keeps(j),
         submit[j].pc = "new" => row[j].status = "none" /\ hold[j].status = "none"
  PROVE  [Life(j)!Next]_(Life(j)!vars)
  <1>1. CASE hold'[j].status = hold[j].status
    BY <1>1 DEF Keeps, Life!vars
  <1>2. CASE submit[j].pc = "new" /\ hold'[j].status = "held"
    <2>1. Life(j)!Place
      BY <1>2 DEF Keeps, Life!Place, Life!record
    <2> QED BY <2>1 DEF Life!Next
  <1>3. CASE hold[j].status = "held" /\ hold'[j].status = "swept"
    <2>1. Life(j)!Lapse
      BY <1>3 DEF Keeps, Life!Lapse, Life!record
    <2> QED BY <2>1 DEF Life!Next
  <1>4. CASE /\ hold[j].status \in {"held", "swept"} /\ row[j].status = "completed"
             /\ hold'[j].status = "reconciled"
    <2>1. Life(j)!Charge
      BY <1>4 DEF Keeps, Life!Charge, Life!record
    <2> QED BY <2>1 DEF Life!Next
  <1>5. CASE /\ hold[j].status = "held" /\ row[j].status \in {"failed", "cancelled"}
             /\ hold'[j].status = "released"
    <2>1. Life(j)!GiveBack
      BY <1>5 DEF Keeps, Life!GiveBack, Life!record
    <2> QED BY <2>1 DEF Life!Next
  <1> QED BY <1>1, <1>2, <1>3, <1>4, <1>5 DEF MoneyStep

\* Before anything was submitted, no job has begun to live.
LEMMA LifeInit ==
  ASSUME Init, NEW j \in Jobs
  PROVE  Life(j)!Init
  BY DEF Init, NoRow, NoHold, Life!Init

\* Every step of the service is a step of the job's life, or leaves it as it is.
LEMMA LifeNext ==
  ASSUME Money, [Next]_vars, NEW j \in Jobs
  PROVE  [Life(j)!Next]_(Life(j)!vars)
  <1>1. TypeOK /\ NotInserted /\ HoldFirst /\ Settling /\ Cancelling
    BY DEF Money, Records
  <1>2. JobStep(j) /\ MoneyStep(j)
    BY <1>1, JobSteps, MoneySteps
  <1>3. /\ submit[j].pc = "new" => row[j].status = "none" /\ hold[j].status = "none"
        /\ submit[j].pc = "reserved" => hold[j].status # "none"
    BY <1>1 DEF NotInserted, HoldFirst
  <1> QED BY <1>1, <1>2, <1>3, Apart, RecordMaps, HoldMaps DEF OneSide

\* The service implements the lifecycle: whatever is redelivered, retried,
\* cancelled or swept, by whichever replicas, and whatever crashes or fails,
\* every job is held, created, begun and ended once, in that order, by a step
\* that tells of it, and charged or given back by its outcome.
THEOREM ImplementsLifecycle == Spec => LivesOnce
  <1>1. Init => \A j \in Jobs : Life(j)!Init
    BY LifeInit
  <1>2. Money /\ [Next]_vars => [\A j \in Jobs : [Life(j)!Next]_(Life(j)!vars)]_vars
    BY LifeNext
  <1> QED BY <1>1, <1>2, MoneyInit, MoneyNext, PTL DEF Spec, LivesOnce

\* In the form of the abstract specification, for each job by itself.
THEOREM LivesItsLife ==
  ASSUME NEW j \in Jobs
  PROVE  Spec => Life(j)!Spec
  <1>1. Init => Life(j)!Init
    BY LifeInit
  <1>2. Money /\ [Next]_vars => [Life(j)!Next]_(Life(j)!vars)
    BY LifeNext
  <1> QED BY <1>1, <1>2, MoneyInit, MoneyNext, PTL DEF Spec, Life!Spec
=============================================================================
