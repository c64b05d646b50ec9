----------------------------- MODULE MirroredJob -----------------------------
(***************************************************************************)
(* What the job projection promises of one job, apart from the outbox, the *)
(* stream, its retries, the sweeps and their pages: the owner writes the   *)
(* row and says so, some of what was said may still arrive, and what is    *)
(* shown is something that was said, and only moves on.  A job is given up *)
(* for lost only once its row is gone.  JobMirror implements it, for each  *)
(* of its jobs.                                                            *)
(***************************************************************************)
EXTENDS Integers

VARIABLES
  now,              \* later than every stamp there is
  truth,            \* the owner's row: its status and stamp
  said,             \* what may still arrive of what was said of the job
  shown             \* the row of the projection

vars == <<now, truth, said, shown>>

Live == {"pending", "running"}
Terminal == {"completed", "failed", "cancelled"}
-----------------------------------------------------------------------------

Init ==
  /\ now \in Nat \ {0}
  /\ \/ truth = [status |-> "none", stamp |-> 0]
     \/ \E s \in 0..now-1 : truth = [status |-> "running", stamp |-> s]
  /\ said = {}
  /\ shown = [status |-> "none", stamp |-> 0, lost |-> FALSE]

Tick == now' = now + 1 /\ UNCHANGED <<truth, said, shown>>

\* A job is created once and never again after its row is gone, cancelled only
\* while it lives, and otherwise written whatever it was.
May(status) ==
  \/ status = "pending" /\ truth.status = "none"
  \/ status = "cancelled" /\ truth.status \in Live
  \/ status \in {"running", "completed", "failed"} /\ truth.status \in Live \cup Terminal

\* The row has the stamp of the begin of its transaction, what is said of it
\* that of its end.
Write(status, begun) ==
  /\ May(status)
  /\ truth' = [status |-> status, stamp |-> begun]
  /\ said' = said \cup {[status |-> status, stamp |-> now]}
  /\ now' = now + 1
  /\ UNCHANGED shown

Reap(begun) ==
  /\ truth.status \in Live
  /\ truth' = [status |-> "failed", stamp |-> begun]
  /\ UNCHANGED <<now, said, shown>>

Remove ==
  /\ truth.status \in Live \cup Terminal
  /\ truth' = [status |-> "gone", stamp |-> 0]
  /\ UNCHANGED <<now, said, shown>>

\* The row is looked at, and what it is may arrive as well.
Look ==
  /\ truth.status \in Live \cup Terminal
  /\ said' \subseteq said \cup {truth}
  /\ UNCHANGED <<now, truth, shown>>

Forget ==
  /\ said' \subseteq said
  /\ UNCHANGED <<now, truth, shown>>

\* An end is replaced by nothing but a later end, and nothing by what is older,
\* but for a live status by an end.
Onward(v) ==
  \/ shown.status = "none"
  \/ shown.status \in Live /\ v.status \in Terminal
  \/ shown.stamp <= v.stamp /\ (shown.status \in Terminal => v.status \in Terminal)

Show(v) ==
  /\ v \in said /\ Onward(v)
  /\ shown' = [status |-> v.status, stamp |-> v.stamp, lost |-> FALSE]
  /\ said' \subseteq said
  /\ UNCHANGED <<now, truth>>

Lose ==
  /\ truth.status = "gone" /\ shown.status \in Live
  /\ shown' = [status |-> "failed", stamp |-> now, lost |-> TRUE]
  /\ now' = now + 1
  /\ UNCHANGED <<truth, said>>

Next ==
  \/ \E status \in Live \cup Terminal, begun \in 0..now-1 : Write(status, begun)
  \/ \E begun \in 0..now-1 : Reap(begun)
  \/ \E v \in said : Show(v)
  \/ Remove \/ Look \/ Forget \/ Lose \/ Tick

Spec == Init /\ [][Next]_vars
=============================================================================
