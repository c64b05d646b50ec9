----------------------------- MODULE SpendAccount -----------------------------
(***************************************************************************)
(* What the spend guardrail promises an owner, apart from how its rows     *)
(* keep it: an account whose day and month start from nothing the moment   *)
(* the calendar turns, which admits a hold only while spend and open holds *)
(* fit every budget the hold falls under, and charges each hold at most    *)
(* once.  There are no windows to reset, no counters of holds, no calls in *)
(* flight and no time-to-live.  SpendGuardrail implements it.              *)
(***************************************************************************)
EXTENDS Integers, FiniteSetsExt

CONSTANTS Owners, Jobs, Reservations, Keys, NoJob, OwnerOf, SourceOf, KeyOf,
          SpendCap, DefaultDaily, DefaultMonthly, FreeTier, StartCredits, Amounts, Limits

VARIABLES
  limit,            \* the daily and the monthly budget of each owner
  today, thisMonth, \* what each owner has spent
  free, credits,    \* platform spend: of this month's free tier, and what is left to pay the rest
  hold,             \* the reservations
  logged, billed    \* the jobs with a usage row; what each key's rows of this month cost

own == <<limit, today, thisMonth>>
platform == <<free, credits>>
keyed == <<logged, billed>>
vars == <<own, platform, hold, keyed>>

Total(figure, S) == MapThenSumSet(LAMBDA x : figure[x], S)
HeldOf(J) ==
  Total([r \in Reservations |-> hold[r].estimate],
    {r \in Reservations : hold[r].status = "held" /\ hold[r].job \in J})

OnPlatform(j) == SourceOf[j] = "platform_model"
JobsOf(o) == {j \in Jobs : OwnerOf[j] = o}
PlatformJobsOf(o) == {j \in JobsOf(o) : OnPlatform(j)}
JobsWith(k) == {j \in Jobs : KeyOf[j] = k}

-----------------------------------------------------------------------------

Init ==
  /\ limit = [o \in Owners |-> [daily |-> DefaultDaily, monthly |-> DefaultMonthly]]
  /\ today = [o \in Owners |-> 0] /\ thisMonth = [o \in Owners |-> 0]
  /\ free = [o \in Owners |-> 0] /\ credits = [o \in Owners |-> StartCredits]
  /\ hold = [r \in Reservations |-> [status |-> "none", job |-> NoJob, estimate |-> 0]]
  /\ logged = {} /\ billed = [k \in Keys |-> 0]

Fits(j, e) ==
  LET o == OwnerOf[j] IN
  /\ today[o] + HeldOf(JobsOf(o)) + e <= limit[o].daily
  /\ thisMonth[o] + HeldOf(JobsOf(o)) + e <= limit[o].monthly
  /\ OnPlatform(j) => free[o] + HeldOf(PlatformJobsOf(o)) + e <= FreeTier + credits[o]
  /\ KeyOf[j] \in Keys => billed[KeyOf[j]] + HeldOf(JobsWith(KeyOf[j])) + e <= SpendCap[KeyOf[j]]

\* One open hold a job, and none that does not fit unless it is empty.
Reserve(r, j, e) ==
  /\ hold[r].status = "none"
  /\ \A x \in Reservations : hold[x].status = "held" => hold[x].job # j
  /\ e > 0 => Fits(j, e)
  /\ hold' = [hold EXCEPT ![r] = [status |-> "held", job |-> j, estimate |-> e]]
  /\ UNCHANGED <<own, platform, keyed>>

\* The free tier pays first, the credits the rest.
Settle(r, spend) ==
  LET j == hold[r].job
      o == OwnerOf[j]
      due == free[o] + spend
  IN
  /\ hold[r].status \in {"held", "swept"}
  /\ hold' = [hold EXCEPT ![r].status = "reconciled"]
  /\ today' = [today EXCEPT ![o] = @ + spend]
  /\ thisMonth' = [thisMonth EXCEPT ![o] = @ + spend]
  /\ IF OnPlatform(j)
     THEN /\ free' = [free EXCEPT ![o] = IF due < FreeTier THEN due ELSE FreeTier]
          /\ credits' = [credits EXCEPT ![o] = @ - (IF due < FreeTier THEN 0 ELSE due - FreeTier)]
     ELSE UNCHANGED platform
  /\ UNCHANGED <<limit, keyed>>

GiveBack(r, s) ==
  /\ hold[r].status = "held"
  /\ hold' = [hold EXCEPT ![r].status = s]
  /\ UNCHANGED <<own, platform, keyed>>

SetLimits(o, d, m) ==
  /\ limit' = [limit EXCEPT ![o] = [daily |-> d, monthly |-> m]]
  /\ UNCHANGED <<today, thisMonth, platform, hold, keyed>>

\* A job of a key is billed to the key once.
Bill(j, cost) ==
  /\ KeyOf[j] \in Keys /\ j \notin logged
  /\ \E r \in Reservations : hold[r].job = j
  /\ logged' = logged \cup {j}
  /\ billed' = [billed EXCEPT ![KeyOf[j]] = @ + cost]
  /\ UNCHANGED <<own, platform, hold>>

NewDay ==
  /\ today' = [o \in Owners |-> 0]
  /\ UNCHANGED <<limit, thisMonth, platform, hold, keyed>>

NewMonth ==
  /\ today' = [o \in Owners |-> 0] /\ thisMonth' = [o \in Owners |-> 0]
  /\ free' = [o \in Owners |-> 0] /\ billed' = [k \in Keys |-> 0]
  /\ UNCHANGED <<limit, credits, hold, logged>>

Next ==
  \/ \E r \in Reservations, j \in Jobs, e \in Amounts : Reserve(r, j, e)
  \/ \E r \in Reservations : \E spend \in Amounts \cup {hold[r].estimate} : Settle(r, spend)
  \/ \E r \in Reservations, s \in {"released", "swept"} : GiveBack(r, s)
  \/ \E o \in Owners : \E d \in Limits \cup {limit[o].daily}, m \in Limits \cup {limit[o].monthly} :
       SetLimits(o, d, m)
  \/ \E j \in Jobs, cost \in Amounts : Bill(j, cost)
  \/ NewDay \/ NewMonth

Spec == Init /\ [][Next]_vars
=============================================================================
