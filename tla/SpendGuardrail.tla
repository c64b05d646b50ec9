---------------------------- MODULE SpendGuardrail ----------------------------
(***************************************************************************)
(* The USD spend guardrail of usage-billing-service: the reserve,          *)
(* reconcile and release handlers, the leaked-reservation sweeper, the     *)
(* limits PATCH and the calendar windows (internal/api/guardrail.go,       *)
(* sweeper.go, migrate.go).                                                *)
(*                                                                         *)
(* Subsystem A is a row per owner with a daily and a monthly limit;        *)
(* subsystem B is the platform ledger (a monthly free tier, then credits), *)
(* charged only by platform_model jobs.  Every handler is one Postgres     *)
(* transaction under the owner's row lock, hence one action; reserve is    *)
(* two, because its idempotency read comes before the lock is taken.       *)
(* Money is counted in units of the NUMERIC(16,8) quantum.                 *)
(***************************************************************************)
EXTENDS Integers, FiniteSets, FiniteSetsExt

CONSTANTS
  Owners, Jobs,
  Reservations,     \* ids of token_reservations rows, each used once
  Requests,         \* reserve calls the service may be handling at a time
  Keys, NoKey,      \* public MCP keys; NoKey for first-party traffic
  NoJob,
  OwnerOf, SourceOf, KeyOf,        \* what a job's every reserve call carries
  SpendCap,                        \* the cap of each key
  DefaultDaily, DefaultMonthly,    \* GuardrailDefault*USD
  FreeTier, StartCredits,          \* PlatformFreeTierUSD; the credits column
  Amounts,                         \* estimates and measured costs
  NoAmount,                        \* actual_usd omitted
  Limits,                          \* limits a PATCH may set
  MaxDay                           \* bound: days a behaviour lasts

Sources == {"user_model", "platform_model"}

ASSUME DistinctNulls == NoKey \notin Keys /\ NoJob \notin Jobs
ASSUME JobAttributes ==
  /\ OwnerOf \in [Jobs -> Owners]
  /\ SourceOf \in [Jobs -> Sources]
  /\ KeyOf \in [Jobs -> Keys \cup {NoKey}]
ASSUME MoneyIsNatural ==
  /\ Amounts \subseteq Nat
  /\ NoAmount \notin Nat
  /\ Limits \subseteq Nat \ {0}
  /\ SpendCap \in [Keys -> Nat]
ASSUME Defaults ==
  /\ DefaultDaily \in Nat \ {0} /\ DefaultMonthly \in Nat \ {0}
  /\ FreeTier \in Nat /\ StartCredits \in Nat
ASSUME MaxDayIsNatural == MaxDay \in Nat

VARIABLES
  day, month,       \* now() AT TIME ZONE 'utc', as a date and as a month
  guardrail,        \* spend_guardrails, by owner
  balance,          \* platform_balances, by owner
  reservation,      \* token_reservations, by id
  request,          \* reserve calls past their idempotency read
  usageLog,         \* usage_logs, by request_id (= job id)
  charge,           \* history: what each reservation was charged, and when
  excess,           \* history: spend of an owner that no hold covered
  ceiling           \* history: the highest limits an owner ever had

ledger == <<guardrail, balance, reservation>>
history == <<charge, excess, ceiling>>
vars == <<day, month, ledger, request, usageLog, history>>

-----------------------------------------------------------------------------
(* Rows and types.                                                         *)

Status == {"none", "held", "reconciled", "released", "swept"}

NoReservation == [status |-> "none", job |-> NoJob, estimate |-> 0, expired |-> FALSE]
NoRequest == [job |-> NoJob, estimate |-> 0]
NoLog == [written |-> FALSE, cost |-> 0, month |-> 0]
NoCharge == [times |-> 0, amount |-> 0, day |-> 0, month |-> 0]

GuardrailRow ==
  [dailyLimit: Nat, monthlyLimit: Nat, dailySpent: Nat, monthlySpent: Nat,
   reserved: Int, dailyWindow: Nat, monthlyWindow: Nat]
BalanceRow == [allowance: Nat, used: Nat, credits: Int, reserved: Int, window: Nat]
ReservationRow ==
  [status: Status, job: Jobs \cup {NoJob}, estimate: Nat, expired: BOOLEAN]

TypeOK ==
  /\ day \in Nat /\ month \in Nat
  /\ guardrail \in [Owners -> GuardrailRow]
  /\ balance \in [Owners -> BalanceRow]
  /\ reservation \in [Reservations -> ReservationRow]
  /\ \A r \in Reservations : reservation[r].status # "none" => reservation[r].job \in Jobs
  /\ request \in [Requests -> [job: Jobs \cup {NoJob}, estimate: Nat]]
  /\ \A q \in Requests : request[q] # NoRequest => request[q].job \in Jobs
  /\ usageLog \in [Jobs -> [written: BOOLEAN, cost: Nat, month: Nat]]
  /\ charge \in [Reservations -> [times: Nat, amount: Nat, day: Nat, month: Nat]]
  /\ excess \in [Owners -> Nat]
  /\ ceiling \in [Owners -> [daily: Nat, monthly: Nat]]

Lesser(a, b) == IF a < b THEN a ELSE b
Greater(a, b) == IF a < b THEN b ELSE a

Held == {r \in Reservations : reservation[r].status = "held"}
HeldFor(j) == {r \in Held : reservation[r].job = j}
HeldBy(o) == {r \in Held : OwnerOf[reservation[r].job] = o}
OnPlatform(R) == {r \in R : SourceOf[reservation[r].job] = "platform_model"}
WithKey(R, k) == {r \in R : KeyOf[reservation[r].job] = k}

\* SUM(figure) over a set of rows, zero when there are none.
Total(figure, S) == MapThenSumSet(LAMBDA x : figure[x], S)

EstimateOf(R) == Total([r \in Reservations |-> reservation[r].estimate], R)

-----------------------------------------------------------------------------
(* The SQL of a row update.                                                *)

\* A figure counted in a calendar window: zero once the window is stale.
InWindow(figure, window, now) == IF window < now THEN 0 ELSE figure

\* Mutant: only the daily window is reset.
RolledOver_DailyOnly(g) ==
  [g EXCEPT !.dailySpent = InWindow(@, g.dailyWindow, day),
            !.dailyWindow = Greater(@, day)]

\* reserveLockSQL: the lazy calendar reset of both windows.
RolledOver(g) ==
  [g EXCEPT !.dailySpent = InWindow(@, g.dailyWindow, day),
            !.dailyWindow = Greater(@, day),
            !.monthlySpent = InWindow(@, g.monthlyWindow, month),
            !.monthlyWindow = Greater(@, month)]

\* platformLockSQL: the lazy reset of the free-tier month.
PlatformRolledOver(b) ==
  [b EXCEPT !.used = InWindow(@, b.window, month), !.window = Greater(@, month)]

\* Mutant: the hold is taken off the spent figures.
SpendRecorded_NetOfHold(g, spend, hold) ==
  LET f == RolledOver(g) IN
  [f EXCEPT !.dailySpent = @ + spend - hold, !.monthlySpent = @ + spend - hold,
            !.reserved = @ - hold]

\* recordSpendSQL.
SpendRecorded(g, spend, hold) ==
  LET f == RolledOver(g) IN
  [f EXCEPT !.dailySpent = @ + spend, !.monthlySpent = @ + spend, !.reserved = @ - hold]

\* Mutant: the overflow past the free tier is computed on the stale month.
PlatformRecorded_StaleMonth(b, spend, hold) ==
  LET c == PlatformRolledOver(b) IN
  [c EXCEPT !.used = Lesser(c.used + spend, c.allowance),
            !.credits = @ - Greater(b.used + spend - c.allowance, 0),
            !.reserved = @ - hold]

\* platformRecordSQL: the free tier first, the remainder from the credits.
PlatformRecorded(b, spend, hold) ==
  LET c == PlatformRolledOver(b) IN
  [c EXCEPT !.used = Lesser(c.used + spend, c.allowance),
            !.credits = @ - Greater(c.used + spend - c.allowance, 0),
            !.reserved = @ - hold]

HoldDropped(row, hold) == [row EXCEPT !.reserved = @ - hold]

-----------------------------------------------------------------------------
(* guardrailReserve.                                                       *)

DailyAvailable(g) == g.dailyLimit - g.dailySpent - g.reserved
MonthlyAvailable(g) == g.monthlyLimit - g.monthlySpent - g.reserved
PlatformAvailable(b) == b.allowance - b.used - b.reserved + b.credits

KeyCommitted(k) ==
  Total([j \in Jobs |-> usageLog[j].cost],
    {j \in Jobs : KeyOf[j] = k /\ usageLog[j].written /\ usageLog[j].month >= month})

\* Mutant: the holds of the key's other jobs in flight are not counted.
KeyAvailable_CommittedOnly(k) == SpendCap[k] - KeyCommitted(k)
KeyAvailable(k) == SpendCap[k] - KeyCommitted(k) - EstimateOf(WithKey(Held, k))

\* Mutant: the daily gate is dropped.
WithinBudget_MonthlyOnly(g, e) == e > 0 => e <= MonthlyAvailable(g)
\* A positive estimate fits what is left of the day and of the month.
WithinBudget(g, e) == e > 0 => e <= DailyAvailable(g) /\ e <= MonthlyAvailable(g)

\* The three gates, in the handler's order; a zero estimate passes them all.
Affordable(j, e) ==
  LET o == OwnerOf[j] IN
  /\ WithinBudget(RolledOver(guardrail[o]), e)
  /\ SourceOf[j] = "platform_model" /\ e > 0
       => e <= PlatformAvailable(PlatformRolledOver(balance[o]))
  /\ KeyOf[j] # NoKey /\ e > 0 => e <= KeyAvailable(KeyOf[j])

\* The idempotency read, before the owner's row is locked.  When it finds a
\* held reservation the handler returns that one and changes nothing.
ReserveBegin(q, j, e) ==
  /\ request[q] = NoRequest
  /\ HeldFor(j) = {}
  /\ request' = [request EXCEPT ![q] = [job |-> j, estimate |-> e]]
  /\ UNCHANGED <<day, month, ledger, usageLog, history>>

\* Mutant: the partial unique index on job_id is missing.
UniqueHold_NoIndex(j) == TRUE
\* idx_token_reservations_job: a second held row of the job is a violation.
UniqueHold(j) == HeldFor(j) = {}

\* Under the lock: the gates pass, the row is inserted and the holds bumped.
ReserveAccept(q, r) ==
  LET j == request[q].job
      e == request[q].estimate
      o == OwnerOf[j]
  IN
  /\ request[q] # NoRequest
  /\ reservation[r].status = "none"
  /\ Affordable(j, e)
  /\ UniqueHold(j)
  /\ reservation' = [reservation EXCEPT ![r] =
       [status |-> "held", job |-> j, estimate |-> e, expired |-> FALSE]]
  /\ guardrail' = [guardrail EXCEPT ![o] = HoldDropped(RolledOver(@), -e)]
  /\ balance' = IF SourceOf[j] = "platform_model"
                THEN [balance EXCEPT ![o] = HoldDropped(PlatformRolledOver(@), -e)]
                ELSE balance
  /\ request' = [request EXCEPT ![q] = NoRequest]
  /\ UNCHANGED <<day, month, usageLog, history>>

\* A gate rejects the call with a 402, a concurrent reserve of the same job
\* won the unique index, or the database failed: the transaction rolls back.
ReserveRollback(q) ==
  /\ request[q] # NoRequest
  /\ request' = [request EXCEPT ![q] = NoRequest]
  /\ UNCHANGED <<day, month, ledger, usageLog, history>>

-----------------------------------------------------------------------------
(* settleReservation and the sweeper.                                      *)

\* Mutant: a reservation the sweeper already dropped loses its hold again.
HoldToDrop_Again(r) == reservation[r].estimate
HoldToDrop(r) == IF reservation[r].status = "swept" THEN 0 ELSE reservation[r].estimate

\* Mutant: a second reconcile of the same reservation is not a no-op.
Reconcilable_Repeated(r) == reservation[r].status \in {"held", "swept", "reconciled"}
Reconcilable(r) == reservation[r].status \in {"held", "swept"}

SetStatus(r, s) == reservation' = [reservation EXCEPT ![r].status = s]

\* Only a platform_model job has a hold on the platform ledger.
PlatformUpdate(j, Row(_)) ==
  IF SourceOf[j] = "platform_model"
  THEN [balance EXCEPT ![OwnerOf[j]] = Row(@)]
  ELSE balance

\* settleReservation(reconcile = true): the measured spend, or the stored
\* estimate when the caller measured none, enters both windows and the hold is
\* dropped unless the sweeper has dropped it.
Reconcile(r, actual) ==
  LET j == reservation[r].job
      o == OwnerOf[j]
      spend == IF actual = NoAmount THEN reservation[r].estimate ELSE actual
      hold == HoldToDrop(r)
  IN
  /\ Reconcilable(r)
  /\ guardrail' = [guardrail EXCEPT ![o] = SpendRecorded(@, spend, hold)]
  /\ balance' = PlatformUpdate(j, LAMBDA b : PlatformRecorded(b, spend, hold))
  /\ SetStatus(r, "reconciled")
  /\ charge' = [charge EXCEPT ![r] =
       [times |-> @.times + 1, amount |-> @.amount + spend, day |-> day, month |-> month]]
  /\ excess' = [excess EXCEPT ![o] = @ + Greater(spend - hold, 0)]
  /\ UNCHANGED <<day, month, request, usageLog, ceiling>>

\* Mutant: a release that arrives after the sweep drops the hold twice.
Releasable_AfterSweep(r) == reservation[r].status \in {"held", "swept"}
Releasable(r) == reservation[r].status = "held"

HoldReleased(r) ==
  LET j == reservation[r].job
      e == reservation[r].estimate
  IN
  /\ guardrail' = [guardrail EXCEPT ![OwnerOf[j]] = HoldDropped(@, e)]
  /\ balance' = PlatformUpdate(j, LAMBDA b : HoldDropped(b, e))

\* settleReservation(reconcile = false).
Release(r) ==
  /\ Releasable(r)
  /\ HoldReleased(r)
  /\ SetStatus(r, "released")
  /\ UNCHANGED <<day, month, request, usageLog, history>>

\* Time reaches expires_at.
TtlElapses(r) ==
  /\ reservation[r].status = "held"
  /\ ~reservation[r].expired
  /\ reservation' = [reservation EXCEPT ![r].expired = TRUE]
  /\ UNCHANGED <<day, month, guardrail, balance, request, usageLog, history>>

\* Mutant: the sweeper skips the holds of a zero estimate.
Sweepable_Positive(r) ==
  reservation[r].status = "held" /\ reservation[r].expired /\ reservation[r].estimate > 0
Sweepable(r) == reservation[r].status = "held" /\ reservation[r].expired

\* sweepExpiredReservations, one row of its batch: rows another transaction
\* holds are skipped (SKIP LOCKED), so a pass may take any part of the
\* expired rows and a batch leaves what sweeping its rows in turn leaves.
Sweep(r) ==
  /\ Sweepable(r)
  /\ HoldReleased(r)
  /\ SetStatus(r, "swept")
  /\ UNCHANGED <<day, month, request, usageLog, history>>

-----------------------------------------------------------------------------
(* patchGuardrail, the usage log, the calendar.                            *)

\* patchGuardrail: either limit may be omitted; lowering a limit below the
\* spend is allowed.  The ceiling is history.
PatchGuardrail(o, d, m) ==
  LET keep(l, old) == IF l = NoAmount THEN old ELSE l IN
  /\ <<d, m>> # <<NoAmount, NoAmount>>
  /\ guardrail' = [guardrail EXCEPT ![o].dailyLimit = keep(d, @),
                                    ![o].monthlyLimit = keep(m, @)]
  /\ ceiling' = [ceiling EXCEPT ![o].daily = Greater(@, guardrail'[o].dailyLimit),
                                ![o].monthly = Greater(@, guardrail'[o].monthlyLimit)]
  /\ UNCHANGED <<day, month, balance, reservation, request, usageLog, charge, excess>>

\* writeUsageLog: the audit row of a job, once per request_id.  The row comes
\* from the usage stream, before or after the job's reservation is settled.
\* Only the rows of public keys are read back here, by the per-key gate.
WriteUsageLog(j, cost) ==
  /\ KeyOf[j] # NoKey
  /\ \E r \in Reservations : reservation[r].job = j
  /\ ~usageLog[j].written
  /\ usageLog' = [usageLog EXCEPT ![j] = [written |-> TRUE, cost |-> cost, month |-> month]]
  /\ UNCHANGED <<day, month, ledger, request, history>>

DayPasses(newMonth) ==
  /\ day < MaxDay
  /\ day' = day + 1
  /\ month' = IF newMonth THEN month + 1 ELSE month
  /\ UNCHANGED <<ledger, request, usageLog, history>>

-----------------------------------------------------------------------------

\* The rows are seeded from the configuration on first contact; a row seeded
\* later differs only in its window dates, which the first reset overwrites.
Init ==
  /\ day = 0 /\ month = 0
  /\ guardrail = [o \in Owners |->
       [dailyLimit |-> DefaultDaily, monthlyLimit |-> DefaultMonthly,
        dailySpent |-> 0, monthlySpent |-> 0, reserved |-> 0,
        dailyWindow |-> 0, monthlyWindow |-> 0]]
  /\ balance = [o \in Owners |->
       [allowance |-> FreeTier, used |-> 0, credits |-> StartCredits,
        reserved |-> 0, window |-> 0]]
  /\ reservation = [r \in Reservations |-> NoReservation]
  /\ request = [q \in Requests |-> NoRequest]
  /\ usageLog = [j \in Jobs |-> NoLog]
  /\ charge = [r \in Reservations |-> NoCharge]
  /\ excess = [o \in Owners |-> 0]
  /\ ceiling = [o \in Owners |-> [daily |-> DefaultDaily, monthly |-> DefaultMonthly]]

Next ==
  \/ \E q \in Requests, j \in Jobs, e \in Amounts : ReserveBegin(q, j, e)
  \/ \E q \in Requests, r \in Reservations : ReserveAccept(q, r)
  \/ \E q \in Requests : ReserveRollback(q)
  \/ \E r \in Reservations, a \in Amounts \cup {NoAmount} : Reconcile(r, a)
  \/ \E r \in Reservations : Release(r) \/ TtlElapses(r) \/ Sweep(r)
  \/ \E o \in Owners, d, m \in Limits \cup {NoAmount} : PatchGuardrail(o, d, m)
  \/ \E j \in Jobs, c \in Amounts : WriteUsageLog(j, c)
  \/ \E newMonth \in BOOLEAN : DayPasses(newMonth)

\* Time reaches every expires_at, and the sweeper's five-minute ticker runs.
Fairness == \A r \in Reservations : WF_vars(TtlElapses(r)) /\ WF_vars(Sweep(r))

Spec == Init /\ [][Next]_vars /\ Fairness

-----------------------------------------------------------------------------
(* Properties.                                                             *)

\* reserved_usd, a counter three handlers and the sweeper update, is at all
\* times the sum of the holds in token_reservations; likewise for the platform
\* ledger and its own holds.
ReservedMatchesHolds ==
  \A o \in Owners :
    /\ guardrail[o].reserved = EstimateOf(HeldBy(o))
    /\ balance[o].reserved = EstimateOf(OnPlatform(HeldBy(o)))

\* guardrailReadSQL: what a read shows as spent, without resetting the row.
DailySpentShown(o) == InWindow(guardrail[o].dailySpent, guardrail[o].dailyWindow, day)
MonthlySpentShown(o) == InWindow(guardrail[o].monthlySpent, guardrail[o].monthlyWindow, month)

ChargedTo(o) ==
  {r \in Reservations : charge[r].times > 0 /\ OwnerOf[reservation[r].job] = o}
ChargeOf(R) == Total([r \in Reservations |-> charge[r].amount], R)

\* The lazily reset windows show exactly what was reconciled in the current
\* day and the current month, whichever handler touched the row last.
WindowsMatchCharges ==
  \A o \in Owners :
    /\ DailySpentShown(o) = ChargeOf({r \in ChargedTo(o) : charge[r].day = day})
    /\ MonthlySpentShown(o) = ChargeOf({r \in ChargedTo(o) : charge[r].month = month})

\* The platform ledger bills each calendar month on its own: the credits pay
\* exactly what each month's spend exceeds that month's free tier by, in
\* whatever order the reservations were settled.
CreditsPayTheOverflow ==
  \A o \in Owners :
    LET spentIn(m) == ChargeOf({r \in OnPlatform(ChargedTo(o)) : charge[r].month = m}) IN
    balance[o].credits =
      StartCredits - Total([m \in 0 .. month |-> Greater(spentIn(m) - FreeTier, 0)], 0 .. month)

\* A job never has two held reservations, though the idempotency read runs
\* before the lock and two calls of the same job may both pass it.
OneHoldPerJob == \A r, s \in Held : reservation[r].job = reservation[s].job => r = s

\* Whatever the retries, late calls and sweeps, a reservation is charged once
\* if it ends reconciled and never otherwise.
ChargedOnce ==
  \A r \in Reservations :
    charge[r].times = IF reservation[r].status = "reconciled" THEN 1 ELSE 0

\* The guardrail's promise, for the day and for the month.  Spend plus holds
\* pass the highest limit an owner ever set only by spend that no hold covered:
\* a cost above its estimate, or the late reconcile of a swept reservation.
OverspendExplained ==
  \A o \in Owners :
    /\ guardrail[o].dailySpent + guardrail[o].reserved <= ceiling[o].daily + excess[o]
    /\ guardrail[o].monthlySpent + guardrail[o].reserved <= ceiling[o].monthly + excess[o]

\* The jobs a public key has in flight never hold more than the key's cap,
\* even when several reserve at once.
KeyHoldsWithinCap == \A k \in Keys : EstimateOf(WithKey(Held, k)) <= SpendCap[k]

\* The rows, their stale windows and their counters, read as an account: what
\* a read shows as spent, the rows of the reservations, the key's usage rows.
LimitShown ==
  [o \in Owners |-> [daily |-> guardrail[o].dailyLimit, monthly |-> guardrail[o].monthlyLimit]]
TodayShown == [o \in Owners |-> DailySpentShown(o)]
MonthShown == [o \in Owners |-> MonthlySpentShown(o)]
FreeShown == [o \in Owners |-> InWindow(balance[o].used, balance[o].window, month)]
CreditsShown == [o \in Owners |-> balance[o].credits]
HoldShown ==
  [r \in Reservations |-> [status |-> reservation[r].status, job |-> reservation[r].job,
                           estimate |-> reservation[r].estimate]]
Logged == {j \in Jobs : usageLog[j].written}
BilledShown == [k \in Keys |-> KeyCommitted(k)]

Account == INSTANCE SpendAccount WITH
  limit <- LimitShown, today <- TodayShown, thisMonth <- MonthShown,
  free <- FreeShown, credits <- CreditsShown, hold <- HoldShown,
  logged <- Logged, billed <- BilledShown

\* However calls overlap, are retried or come late, and whichever handler last
\* reset a window, the owner sees an account: every hold was admitted against
\* what the day, the month, the free tier and the key had left at that moment,
\* a swept hold may still be charged but never given back or reopened, a
\* settled one is final, and a row no handler touched starts its new day empty.
KeepsAccount == Account!Spec

\* A leaked hold does not shrink an owner's budget for ever: every held
\* reservation is settled or swept.
HoldsEnd == \A r \in Reservations : r \in Held ~> r \notin Held
=============================================================================
