----------------------------- MODULE JobLifecycle -----------------------------
(***************************************************************************)
(* What provider-registry promises about one asynchronous job, apart from  *)
(* the replicas, queues, retries and sweepers that carry it out: a hold is *)
(* placed, the job is created, begun once and ended once; the step that    *)
(* ends it writes its event and its audit row; and the hold is charged or  *)
(* given back only after the end, by its outcome.  LlmJob implements it,   *)
(* for each of its jobs.                                                   *)
(***************************************************************************)
EXTENDS Naturals, Sequences

VARIABLES
  status,           \* of the llm_jobs row, "none" before there is one
  begun,            \* how often the job was begun
  events,           \* the terminal events emitted
  audit,            \* the audit rows emitted
  money             \* the status of the job's reservation

vars == <<status, begun, events, audit, money>>
record == <<status, begun, events, audit>>

Init ==
  /\ status = "none" /\ begun = 0
  /\ events = <<>> /\ audit = <<>>
  /\ money = "none"

Place ==
  /\ status = "none" /\ money = "none"
  /\ money' = "held"
  /\ UNCHANGED record

\* No job without a reservation, even if the sweeper has taken it since.
Create ==
  /\ status = "none" /\ money # "none"
  /\ status' = "pending"
  /\ UNCHANGED <<begun, events, audit, money>>

Begin ==
  /\ status = "pending"
  /\ status' = "running" /\ begun' = begun + 1
  /\ UNCHANGED <<events, audit, money>>

\* The worker or the stuck sweep; only a cancellation is sure of its audit row.
Finish(outcome, audited) ==
  /\ status = "running"
  /\ status' = outcome
  /\ events' = Append(events, outcome)
  /\ audit' = IF audited THEN Append(audit, outcome) ELSE audit
  /\ UNCHANGED <<begun, money>>

Cancel ==
  /\ status \in {"pending", "running"}
  /\ status' = "cancelled"
  /\ events' = Append(events, "cancelled")
  /\ audit' = Append(audit, "cancelled")
  /\ UNCHANGED <<begun, money>>

Lapse ==
  /\ money = "held"
  /\ money' = "swept"
  /\ UNCHANGED record

\* A completed job is paid for, even after its hold lapsed.
Charge ==
  /\ status = "completed" /\ money \in {"held", "swept"}
  /\ money' = "reconciled"
  /\ UNCHANGED record

GiveBack ==
  /\ status \in {"failed", "cancelled"} /\ money = "held"
  /\ money' = "released"
  /\ UNCHANGED record

Next ==
  \/ Place \/ Create \/ Begin \/ Cancel
  \/ \E outcome \in {"completed", "failed"}, audited \in BOOLEAN : Finish(outcome, audited)
  \/ Lapse \/ Charge \/ GiveBack

Spec == Init /\ [][Next]_vars
=============================================================================
