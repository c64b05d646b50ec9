------------------------ MODULE SpendGuardrail_proofs ------------------------
(***************************************************************************)
(* Proofs about SpendGuardrail: type correctness, the overspend bound, one *)
(* hold per job and one charge per reservation.                            *)
(***************************************************************************)
EXTENDS SpendGuardrail, TLAPS

-----------------------------------------------------------------------------
(* The SQL row updates.                                                    *)

\* A stale window shows nothing; a current one shows its figure.
LEMMA InWindowBound ==
  ASSUME NEW figure \in Nat, NEW window \in Nat, NEW now \in Nat
  PROVE  /\ InWindow(figure, window, now) \in Nat
         /\ InWindow(figure, window, now) <= figure
  BY DEF InWindow

\* What a reconcile adds to the excess covers what the hold did not.
LEMMA ExcessBound ==
  ASSUME NEW x \in Nat, NEW spend \in Nat, NEW hold \in Nat
  PROVE  /\ x + Greater(spend - hold, 0) \in Nat
         /\ x + Greater(spend - hold, 0) >= x + (spend - hold)
  BY DEF Greater

\* The calendar reset keeps a row well typed, leaves its limits and its holds
\* alone, and only ever lowers what is shown as spent.
LEMMA RolledOverRow ==
  ASSUME day \in Nat, month \in Nat, NEW g \in GuardrailRow
  PROVE  /\ RolledOver(g) \in GuardrailRow
         /\ RolledOver(g).dailyLimit = g.dailyLimit
         /\ RolledOver(g).monthlyLimit = g.monthlyLimit
         /\ RolledOver(g).reserved = g.reserved
         /\ RolledOver(g).dailySpent <= g.dailySpent
         /\ RolledOver(g).monthlySpent <= g.monthlySpent
  <1>1. /\ g.dailySpent \in Nat /\ g.dailyWindow \in Nat
        /\ g.monthlySpent \in Nat /\ g.monthlyWindow \in Nat
    BY DEF GuardrailRow
  <1>2. /\ InWindow(g.dailySpent, g.dailyWindow, day) \in Nat
        /\ InWindow(g.dailySpent, g.dailyWindow, day) <= g.dailySpent
        /\ InWindow(g.monthlySpent, g.monthlyWindow, month) \in Nat
        /\ InWindow(g.monthlySpent, g.monthlyWindow, month) <= g.monthlySpent
    BY <1>1, InWindowBound
  <1>3. /\ Greater(g.dailyWindow, day) \in Nat
        /\ Greater(g.monthlyWindow, month) \in Nat
    BY <1>1 DEF Greater
  <1> QED BY <1>1, <1>2, <1>3 DEF RolledOver, GuardrailRow

\* The free-tier reset keeps a row well typed.
LEMMA PlatformRolledOverRow ==
  ASSUME month \in Nat, NEW b \in BalanceRow
  PROVE  PlatformRolledOver(b) \in BalanceRow
  <1>1. InWindow(b.used, b.window, month) \in Nat
    BY InWindowBound DEF BalanceRow
  <1>2. Greater(b.window, month) \in Nat
    BY DEF Greater, BalanceRow
  <1> QED BY <1>1, <1>2 DEF PlatformRolledOver, BalanceRow

\* Dropping (or, with a negative amount, adding) a hold touches only reserved.
LEMMA HoldDroppedGuardrail ==
  ASSUME NEW g \in GuardrailRow, NEW e \in Int
  PROVE  /\ HoldDropped(g, e) \in GuardrailRow
         /\ HoldDropped(g, e).dailyLimit = g.dailyLimit
         /\ HoldDropped(g, e).monthlyLimit = g.monthlyLimit
         /\ HoldDropped(g, e).dailySpent = g.dailySpent
         /\ HoldDropped(g, e).monthlySpent = g.monthlySpent
         /\ HoldDropped(g, e).reserved = g.reserved - e
  BY DEF HoldDropped, GuardrailRow

\* The same for a platform row.
LEMMA HoldDroppedBalance ==
  ASSUME NEW b \in BalanceRow, NEW e \in Int
  PROVE  HoldDropped(b, e) \in BalanceRow
  BY DEF HoldDropped, BalanceRow

\* Recording a spend adds it to both windows after their reset.
LEMMA SpendRecordedRow ==
  ASSUME day \in Nat, month \in Nat,
         NEW g \in GuardrailRow, NEW spend \in Nat, NEW hold \in Nat
  PROVE  /\ SpendRecorded(g, spend, hold) \in GuardrailRow
         /\ SpendRecorded(g, spend, hold).dailyLimit = g.dailyLimit
         /\ SpendRecorded(g, spend, hold).monthlyLimit = g.monthlyLimit
         /\ SpendRecorded(g, spend, hold).reserved = g.reserved - hold
         /\ SpendRecorded(g, spend, hold).dailySpent <= g.dailySpent + spend
         /\ SpendRecorded(g, spend, hold).monthlySpent <= g.monthlySpent + spend
  <1> DEFINE f == RolledOver(g)
  <1>1. /\ f \in GuardrailRow
        /\ f.dailyLimit = g.dailyLimit
        /\ f.monthlyLimit = g.monthlyLimit
        /\ f.reserved = g.reserved
        /\ f.dailySpent <= g.dailySpent
        /\ f.monthlySpent <= g.monthlySpent
    BY RolledOverRow
  <1>2. SpendRecorded(g, spend, hold) =
          [f EXCEPT !.dailySpent = @ + spend, !.monthlySpent = @ + spend, !.reserved = @ - hold]
    BY DEF SpendRecorded
  <1> HIDE DEF f
  <1>3. SpendRecorded(g, spend, hold) \in GuardrailRow
    <2>1. /\ f.dailySpent + spend \in Nat
          /\ f.monthlySpent + spend \in Nat
          /\ f.reserved - hold \in Int
      BY <1>1 DEF GuardrailRow
    <2> QED BY <1>1, <1>2, <2>1 DEF GuardrailRow
  <1> QED BY <1>1, <1>2, <1>3 DEF GuardrailRow

\* A platform charge keeps the row well typed: the free tier never goes negative.
LEMMA PlatformRecordedRow ==
  ASSUME month \in Nat, NEW b \in BalanceRow, NEW spend \in Nat, NEW hold \in Nat
  PROVE  PlatformRecorded(b, spend, hold) \in BalanceRow
  <1> DEFINE c == PlatformRolledOver(b)
             x == Lesser(c.used + spend, c.allowance)
             y == Greater(c.used + spend - c.allowance, 0)
  <1>1. c \in BalanceRow
    BY PlatformRolledOverRow
  <1>2. x \in Nat /\ y \in Nat
    BY <1>1 DEF BalanceRow, Lesser, Greater
  <1>3. PlatformRecorded(b, spend, hold) =
          [c EXCEPT !.used = x, !.credits = @ - y, !.reserved = @ - hold]
    BY DEF PlatformRecorded
  <1> HIDE DEF c, x, y
  <1>4. c.credits - y \in Int /\ c.reserved - hold \in Int
    BY <1>1, <1>2 DEF BalanceRow
  <1> QED BY <1>1, <1>2, <1>3, <1>4 DEF BalanceRow

-----------------------------------------------------------------------------
(* Type correctness.                                                       *)

\* The seeded rows are well typed.
LEMMA TypeInit == Init => TypeOK
  BY JobAttributes, Defaults
  DEF Init, TypeOK, GuardrailRow, BalanceRow, ReservationRow, Status,
      NoReservation, NoRequest, NoLog, NoCharge

\* Type correctness is preserved by each action in turn.
LEMMA TypeReserveBegin ==
  ASSUME TypeOK, NEW q \in Requests, NEW j \in Jobs, NEW e \in Amounts,
         ReserveBegin(q, j, e)
  PROVE  TypeOK'
  <1>1. e \in Nat
    BY MoneyIsNatural
  <1> QED BY <1>1 DEF TypeOK, ReserveBegin, ledger, history

LEMMA TypeReserveAccept ==
  ASSUME TypeOK, NEW q \in Requests, NEW r \in Reservations, ReserveAccept(q, r)
  PROVE  TypeOK'
  <1> DEFINE j == request[q].job
             e == request[q].estimate
             o == OwnerOf[j]
  <1>1. j \in Jobs /\ e \in Nat /\ -e \in Int /\ o \in Owners
    BY JobAttributes DEF TypeOK, ReserveAccept
  <1>2. /\ day \in Nat /\ month \in Nat
        /\ guardrail[o] \in GuardrailRow /\ balance[o] \in BalanceRow
    BY <1>1 DEF TypeOK
  <1>3. HoldDropped(RolledOver(guardrail[o]), -e) \in GuardrailRow
    BY <1>1, <1>2, RolledOverRow, HoldDroppedGuardrail
  <1>4. HoldDropped(PlatformRolledOver(balance[o]), -e) \in BalanceRow
    BY <1>1, <1>2, PlatformRolledOverRow, HoldDroppedBalance
  <1>5. guardrail' \in [Owners -> GuardrailRow]
    BY <1>3 DEF TypeOK, ReserveAccept
  <1>6. balance' \in [Owners -> BalanceRow]
    BY <1>4 DEF TypeOK, ReserveAccept
  <1>7. /\ reservation' \in [Reservations -> ReservationRow]
        /\ \A x \in Reservations : reservation'[x].status # "none" => reservation'[x].job \in Jobs
    BY <1>1 DEF TypeOK, ReserveAccept, ReservationRow, Status
  <1>8. /\ request' \in [Requests -> [job: Jobs \cup {NoJob}, estimate: Nat]]
        /\ \A x \in Requests : request'[x] # NoRequest => request'[x].job \in Jobs
    BY DEF TypeOK, ReserveAccept, NoRequest
  <1> QED BY <1>5, <1>6, <1>7, <1>8 DEF TypeOK, ReserveAccept, history

LEMMA TypeReserveRollback ==
  ASSUME TypeOK, NEW q \in Requests, ReserveRollback(q)
  PROVE  TypeOK'
  BY DEF TypeOK, ReserveRollback, NoRequest, ledger, history

\* A change of status keeps the reservations well typed.
LEMMA TypeSetStatus ==
  ASSUME TypeOK, NEW r \in Reservations, NEW st \in Status,
         reservation[r].status # "none", SetStatus(r, st)
  PROVE  /\ reservation' \in [Reservations -> ReservationRow]
         /\ \A x \in Reservations : reservation'[x].status # "none" => reservation'[x].job \in Jobs
  BY DEF TypeOK, SetStatus, ReservationRow

LEMMA TypeReconcile ==
  ASSUME TypeOK, NEW r \in Reservations, NEW a \in Amounts \cup {NoAmount}, Reconcile(r, a)
  PROVE  TypeOK'
  <1> DEFINE j == reservation[r].job
             o == OwnerOf[j]
             spend == IF a = NoAmount THEN reservation[r].estimate ELSE a
             hold == HoldToDrop(r)
  <1>0. reservation[r].status # "none"
    BY DEF Reconcile, Reconcilable
  <1>1. j \in Jobs /\ o \in Owners /\ spend \in Nat /\ hold \in Nat
    BY <1>0, JobAttributes, MoneyIsNatural DEF TypeOK, ReservationRow, HoldToDrop
  <1>2. /\ day \in Nat /\ month \in Nat
        /\ guardrail[o] \in GuardrailRow /\ balance[o] \in BalanceRow
    BY <1>1 DEF TypeOK
  <1>3. SpendRecorded(guardrail[o], spend, hold) \in GuardrailRow
    BY <1>1, <1>2, SpendRecordedRow
  <1>4. PlatformRecorded(balance[o], spend, hold) \in BalanceRow
    BY <1>1, <1>2, PlatformRecordedRow
  <1>5. guardrail' \in [Owners -> GuardrailRow]
    BY <1>3 DEF TypeOK, Reconcile
  <1>6. balance' \in [Owners -> BalanceRow]
    BY <1>4 DEF TypeOK, Reconcile, PlatformUpdate
  <1>7. /\ reservation' \in [Reservations -> ReservationRow]
        /\ \A x \in Reservations : reservation'[x].status # "none" => reservation'[x].job \in Jobs
    BY <1>0, TypeSetStatus DEF Reconcile, Status
  <1>8. charge' \in [Reservations -> [times: Nat, amount: Nat, day: Nat, month: Nat]]
    BY <1>1 DEF TypeOK, Reconcile
  <1>9. excess' \in [Owners -> Nat]
    <2>1. Greater(spend - hold, 0) \in Nat
      BY <1>1 DEF Greater
    <2> QED BY <1>1, <2>1 DEF TypeOK, Reconcile
  <1> QED BY <1>5, <1>6, <1>7, <1>8, <1>9 DEF TypeOK, Reconcile

\* What release and the sweeper share: the hold leaves both ledgers.
LEMMA TypeHoldReleased ==
  ASSUME TypeOK, NEW r \in Reservations, reservation[r].status # "none", HoldReleased(r)
  PROVE  /\ guardrail' \in [Owners -> GuardrailRow]
         /\ balance' \in [Owners -> BalanceRow]
  <1> DEFINE j == reservation[r].job
             o == OwnerOf[j]
             e == reservation[r].estimate
  <1>1. j \in Jobs /\ o \in Owners /\ e \in Int
    BY JobAttributes DEF TypeOK, ReservationRow
  <1>2. HoldDropped(guardrail[o], e) \in GuardrailRow
    BY <1>1, HoldDroppedGuardrail DEF TypeOK
  <1>3. HoldDropped(balance[o], e) \in BalanceRow
    BY <1>1, HoldDroppedBalance DEF TypeOK
  <1> QED BY <1>1, <1>2, <1>3 DEF TypeOK, HoldReleased, PlatformUpdate

LEMMA TypeRelease ==
  ASSUME TypeOK, NEW r \in Reservations, Release(r)
  PROVE  TypeOK'
  <1>1. reservation[r].status # "none" /\ "released" \in Status
    BY DEF Release, Releasable, Status
  <1>2. /\ guardrail' \in [Owners -> GuardrailRow]
        /\ balance' \in [Owners -> BalanceRow]
    BY <1>1, TypeHoldReleased DEF Release
  <1>3. /\ reservation' \in [Reservations -> ReservationRow]
        /\ \A x \in Reservations : reservation'[x].status # "none" => reservation'[x].job \in Jobs
    BY <1>1, TypeSetStatus DEF Release
  <1> QED BY <1>2, <1>3 DEF TypeOK, Release, history

LEMMA TypeSweep ==
  ASSUME TypeOK, NEW r \in Reservations, Sweep(r)
  PROVE  TypeOK'
  <1>1. reservation[r].status # "none" /\ "swept" \in Status
    BY DEF Sweep, Sweepable, Status
  <1>2. /\ guardrail' \in [Owners -> GuardrailRow]
        /\ balance' \in [Owners -> BalanceRow]
    BY <1>1, TypeHoldReleased DEF Sweep
  <1>3. /\ reservation' \in [Reservations -> ReservationRow]
        /\ \A x \in Reservations : reservation'[x].status # "none" => reservation'[x].job \in Jobs
    BY <1>1, TypeSetStatus DEF Sweep
  <1> QED BY <1>2, <1>3 DEF TypeOK, Sweep, history

LEMMA TypeTtlElapses ==
  ASSUME TypeOK, NEW r \in Reservations, TtlElapses(r)
  PROVE  TypeOK'
  BY DEF TypeOK, TtlElapses, ReservationRow, history

LEMMA TypePatchGuardrail ==
  ASSUME TypeOK, NEW o \in Owners,
         NEW d \in Limits \cup {NoAmount}, NEW m \in Limits \cup {NoAmount},
         PatchGuardrail(o, d, m)
  PROVE  TypeOK'
  <1> DEFINE dl == IF d = NoAmount THEN guardrail[o].dailyLimit ELSE d
             ml == IF m = NoAmount THEN guardrail[o].monthlyLimit ELSE m
  <1>1. guardrail[o] \in GuardrailRow
    BY DEF TypeOK
  <1>2. dl \in Nat /\ ml \in Nat
    BY <1>1, MoneyIsNatural DEF GuardrailRow
  <1>3. guardrail' = [guardrail EXCEPT ![o].dailyLimit = dl, ![o].monthlyLimit = ml]
    BY DEF PatchGuardrail, TypeOK
  <1> HIDE DEF dl, ml
  <1>4. guardrail' \in [Owners -> GuardrailRow]
    BY <1>1, <1>2, <1>3 DEF TypeOK, GuardrailRow
  <1>5. ceiling' \in [Owners -> [daily: Nat, monthly: Nat]]
    <2>1. guardrail'[o].dailyLimit \in Nat /\ guardrail'[o].monthlyLimit \in Nat
      BY <1>4 DEF GuardrailRow
    <2>2. ceiling[o].daily \in Nat /\ ceiling[o].monthly \in Nat
      BY DEF TypeOK
    <2>3. /\ Greater(ceiling[o].daily, guardrail'[o].dailyLimit) \in Nat
          /\ Greater(ceiling[o].monthly, guardrail'[o].monthlyLimit) \in Nat
      BY <2>1, <2>2 DEF Greater
    <2> QED BY <2>3 DEF TypeOK, PatchGuardrail
  <1> QED BY <1>4, <1>5 DEF TypeOK, PatchGuardrail

LEMMA TypeWriteUsageLog ==
  ASSUME TypeOK, NEW j \in Jobs, NEW c \in Amounts, WriteUsageLog(j, c)
  PROVE  TypeOK'
  BY MoneyIsNatural DEF TypeOK, WriteUsageLog, ledger, history

LEMMA TypeDayPasses ==
  ASSUME TypeOK, NEW newMonth \in BOOLEAN, DayPasses(newMonth)
  PROVE  TypeOK'
  BY DEF TypeOK, DayPasses, ledger, history

\* Every step, stuttering included, preserves type correctness.
LEMMA TypeNext == TypeOK /\ [Next]_vars => TypeOK'
  <1> SUFFICES ASSUME TypeOK, [Next]_vars PROVE TypeOK'
    OBVIOUS
  <1>1. ASSUME Next PROVE TypeOK'
    BY <1>1, TypeReserveBegin, TypeReserveAccept, TypeReserveRollback, TypeReconcile,
       TypeRelease, TypeTtlElapses, TypeSweep, TypePatchGuardrail, TypeWriteUsageLog,
       TypeDayPasses DEF Next
  <1>2. CASE UNCHANGED vars
    BY <1>2 DEF vars, ledger, history, TypeOK
  <1> QED BY <1>1, <1>2

\* Every row the handlers write is well typed, for every set of owners, jobs
\* and amounts: no spent figure or free-tier use ever goes negative.
THEOREM TypeCorrect == Spec => []TypeOK
  BY TypeInit, TypeNext, PTL DEF Spec

-----------------------------------------------------------------------------
(* The overspend bound.                                                    *)

\* One owner's row is within its ceiling: the limits in force are under it,
\* and spend plus holds pass it by no more than the unheld spend x.
WithinCeiling(g, c, x) ==
  /\ g.dailyLimit <= c.daily
  /\ g.monthlyLimit <= c.monthly
  /\ g.dailySpent + g.reserved <= c.daily + x
  /\ g.monthlySpent + g.reserved <= c.monthly + x

BudgetInv ==
  /\ TypeOK
  /\ \A o \in Owners : WithinCeiling(guardrail[o], ceiling[o], excess[o])

\* The overspend bound holds of the seeded rows.
LEMMA BudgetInit == Init => BudgetInv
  <1> SUFFICES ASSUME Init, NEW o \in Owners
               PROVE  WithinCeiling(guardrail[o], ceiling[o], excess[o])
    BY TypeInit DEF BudgetInv
  <1> QED BY Defaults DEF Init, WithinCeiling

\* A step that writes the row of one owner keeps the invariant if the row it
\* writes is within its ceiling.
LEMMA OneRowStep ==
  ASSUME BudgetInv, [Next]_vars, NEW o \in Owners,
         \A p \in Owners \ {o} : /\ guardrail'[p] = guardrail[p]
                                 /\ ceiling'[p] = ceiling[p]
                                 /\ excess'[p] = excess[p],
         WithinCeiling(guardrail'[o], ceiling'[o], excess'[o])
  PROVE  BudgetInv'
  BY TypeNext DEF BudgetInv

\* An accepted reserve fits the budget it was checked against.
LEMMA BudgetReserveAccept ==
  ASSUME BudgetInv, [Next]_vars,
         NEW q \in Requests, NEW r \in Reservations, ReserveAccept(q, r)
  PROVE  BudgetInv'
  <1> DEFINE j == request[q].job
             e == request[q].estimate
             o == OwnerOf[j]
             g == RolledOver(guardrail[o])
             n == HoldDropped(g, -e)
  <1>1. j \in Jobs /\ e \in Nat /\ -e \in Int /\ o \in Owners
    BY JobAttributes DEF BudgetInv, TypeOK, ReserveAccept
  <1>2. /\ day \in Nat /\ month \in Nat /\ guardrail[o] \in GuardrailRow
        /\ ceiling[o] \in [daily: Nat, monthly: Nat] /\ excess[o] \in Nat
    BY <1>1 DEF BudgetInv, TypeOK
  <1>3. /\ g \in GuardrailRow
        /\ g.dailyLimit = guardrail[o].dailyLimit
        /\ g.monthlyLimit = guardrail[o].monthlyLimit
        /\ g.reserved = guardrail[o].reserved
        /\ g.dailySpent <= guardrail[o].dailySpent
        /\ g.monthlySpent <= guardrail[o].monthlySpent
    BY <1>2, RolledOverRow
  <1>4. WithinBudget(g, e)
    BY DEF ReserveAccept, Affordable
  <1>5. /\ n \in GuardrailRow
        /\ n.dailyLimit = g.dailyLimit
        /\ n.monthlyLimit = g.monthlyLimit
        /\ n.dailySpent = g.dailySpent
        /\ n.monthlySpent = g.monthlySpent
        /\ n.reserved = g.reserved - (-e)
    BY <1>1, <1>3, HoldDroppedGuardrail
  <1>6. /\ guardrail'[o] = n
        /\ \A p \in Owners \ {o} : guardrail'[p] = guardrail[p]
    BY <1>1 DEF ReserveAccept, BudgetInv, TypeOK
  <1>7. ceiling' = ceiling /\ excess' = excess
    BY DEF ReserveAccept, history
  <1>8. WithinCeiling(guardrail[o], ceiling[o], excess[o])
    BY <1>1 DEF BudgetInv
  <1> HIDE DEF g, n, o, e, j
  <1>9. WithinCeiling(n, ceiling[o], excess[o])
    BY <1>1, <1>2, <1>3, <1>4, <1>5, <1>8
    DEF WithinCeiling, WithinBudget, DailyAvailable, MonthlyAvailable, GuardrailRow
  <1> QED BY <1>1, <1>6, <1>7, <1>9, OneRowStep

\* A reconcile trades a hold for spend; what the hold did not cover is excess.
LEMMA BudgetReconcile ==
  ASSUME BudgetInv, [Next]_vars,
         NEW r \in Reservations, NEW a \in Amounts \cup {NoAmount}, Reconcile(r, a)
  PROVE  BudgetInv'
  <1> DEFINE j == reservation[r].job
             o == OwnerOf[j]
             g == guardrail[o]
             spend == IF a = NoAmount THEN reservation[r].estimate ELSE a
             hold == HoldToDrop(r)
             n == SpendRecorded(g, spend, hold)
             x == excess[o] + Greater(spend - hold, 0)
  <1>1. j \in Jobs /\ o \in Owners /\ spend \in Nat /\ hold \in Nat
    BY JobAttributes, MoneyIsNatural
    DEF BudgetInv, TypeOK, ReservationRow, HoldToDrop, Reconcile, Reconcilable
  <1>2. /\ day \in Nat /\ month \in Nat /\ g \in GuardrailRow
        /\ ceiling[o] \in [daily: Nat, monthly: Nat] /\ excess[o] \in Nat
    BY <1>1 DEF BudgetInv, TypeOK
  <1>3. /\ n \in GuardrailRow
        /\ n.dailyLimit = g.dailyLimit
        /\ n.monthlyLimit = g.monthlyLimit
        /\ n.reserved = g.reserved - hold
        /\ n.dailySpent <= g.dailySpent + spend
        /\ n.monthlySpent <= g.monthlySpent + spend
    <2> HIDE DEF spend, hold, g
    <2> QED BY <1>1, <1>2, SpendRecordedRow
  <1>4. x \in Nat /\ x >= excess[o] + (spend - hold)
    <2> HIDE DEF spend, hold
    <2> QED BY <1>1, <1>2, ExcessBound
  <1>5. /\ guardrail'[o] = n
        /\ \A p \in Owners \ {o} : guardrail'[p] = guardrail[p]
    BY <1>1 DEF Reconcile, BudgetInv, TypeOK
  <1>6. /\ excess'[o] = x
        /\ \A p \in Owners \ {o} : excess'[p] = excess[p]
    BY <1>1 DEF Reconcile, BudgetInv, TypeOK
  <1>7. ceiling' = ceiling
    BY DEF Reconcile
  <1>8. WithinCeiling(g, ceiling[o], excess[o])
    BY <1>1 DEF BudgetInv
  <1> HIDE DEF g, n, o, j, x, spend, hold
  <1>9. WithinCeiling(n, ceiling[o], x)
    BY <1>1, <1>2, <1>3, <1>4, <1>8 DEF WithinCeiling, GuardrailRow
  <1> QED BY <1>1, <1>5, <1>6, <1>7, <1>9, OneRowStep

\* Dropping a hold only lowers the exposure.
LEMMA BudgetHoldReleased ==
  ASSUME BudgetInv, [Next]_vars, NEW r \in Reservations, reservation[r].status # "none",
         HoldReleased(r), UNCHANGED <<ceiling, excess>>
  PROVE  BudgetInv'
  <1> DEFINE o == OwnerOf[reservation[r].job]
             e == reservation[r].estimate
             g == guardrail[o]
             n == HoldDropped(g, e)
  <1>1. o \in Owners /\ e \in Nat /\ e \in Int
    BY JobAttributes DEF BudgetInv, TypeOK, ReservationRow
  <1>2. /\ g \in GuardrailRow
        /\ ceiling[o] \in [daily: Nat, monthly: Nat] /\ excess[o] \in Nat
    BY <1>1 DEF BudgetInv, TypeOK
  <1>3. /\ n.dailyLimit = g.dailyLimit
        /\ n.monthlyLimit = g.monthlyLimit
        /\ n.dailySpent = g.dailySpent
        /\ n.monthlySpent = g.monthlySpent
        /\ n.reserved = g.reserved - e
    BY <1>1, <1>2, HoldDroppedGuardrail
  <1>4. /\ guardrail'[o] = n
        /\ \A p \in Owners \ {o} : guardrail'[p] = guardrail[p]
    BY <1>1 DEF HoldReleased, BudgetInv, TypeOK
  <1>5. WithinCeiling(g, ceiling[o], excess[o])
    BY <1>1 DEF BudgetInv
  <1> HIDE DEF g, n, o, e
  <1>6. WithinCeiling(n, ceiling[o], excess[o])
    BY <1>1, <1>2, <1>3, <1>5 DEF WithinCeiling, GuardrailRow
  <1> QED BY <1>1, <1>4, <1>6, OneRowStep

\* A patched limit is under the ceiling by the ceiling's definition.
LEMMA BudgetPatchGuardrail ==
  ASSUME BudgetInv, [Next]_vars, NEW o \in Owners,
         NEW d \in Limits \cup {NoAmount}, NEW m \in Limits \cup {NoAmount},
         PatchGuardrail(o, d, m)
  PROVE  BudgetInv'
  <1> DEFINE n == guardrail'[o]
             c == ceiling'[o]
  <1>1. TypeOK /\ TypeOK'
    BY TypeNext DEF BudgetInv
  <1>2. /\ n \in GuardrailRow /\ guardrail[o] \in GuardrailRow
        /\ c \in [daily: Nat, monthly: Nat]
        /\ ceiling[o] \in [daily: Nat, monthly: Nat] /\ excess[o] \in Nat
    BY <1>1 DEF TypeOK
  <1>3. /\ n.dailySpent = guardrail[o].dailySpent
        /\ n.monthlySpent = guardrail[o].monthlySpent
        /\ n.reserved = guardrail[o].reserved
    BY <1>1 DEF PatchGuardrail, TypeOK, GuardrailRow
  <1>4. /\ c.daily = Greater(ceiling[o].daily, n.dailyLimit)
        /\ c.monthly = Greater(ceiling[o].monthly, n.monthlyLimit)
    BY <1>1 DEF PatchGuardrail, TypeOK
  <1>5. /\ excess' = excess
        /\ \A p \in Owners \ {o} : guardrail'[p] = guardrail[p] /\ ceiling'[p] = ceiling[p]
    BY <1>1 DEF PatchGuardrail, TypeOK
  <1>6. WithinCeiling(guardrail[o], ceiling[o], excess[o])
    BY DEF BudgetInv
  <1> HIDE DEF n, c
  <1>7. WithinCeiling(n, c, excess[o])
    BY <1>2, <1>3, <1>4, <1>6 DEF WithinCeiling, GuardrailRow, Greater
  <1> QED BY <1>5, <1>7, OneRowStep DEF n, c

\* Every step preserves the overspend bound.
LEMMA BudgetNext == BudgetInv /\ [Next]_vars => BudgetInv'
  <1> SUFFICES ASSUME BudgetInv, [Next]_vars PROVE BudgetInv'
    OBVIOUS
  <1>1. ASSUME NEW q \in Requests, NEW r \in Reservations, ReserveAccept(q, r)
        PROVE  BudgetInv'
    BY <1>1, BudgetReserveAccept
  <1>2. ASSUME NEW r \in Reservations, NEW a \in Amounts \cup {NoAmount}, Reconcile(r, a)
        PROVE  BudgetInv'
    BY <1>2, BudgetReconcile
  <1>3. ASSUME NEW r \in Reservations, Release(r) \/ Sweep(r)
        PROVE  BudgetInv'
    <2>1. /\ reservation[r].status # "none"
          /\ HoldReleased(r)
          /\ UNCHANGED <<ceiling, excess>>
      BY <1>3 DEF Release, Releasable, Sweep, Sweepable, history
    <2> QED BY <2>1, BudgetHoldReleased
  <1>4. ASSUME NEW o \in Owners, NEW d \in Limits \cup {NoAmount},
               NEW m \in Limits \cup {NoAmount}, PatchGuardrail(o, d, m)
        PROVE  BudgetInv'
    BY <1>4, BudgetPatchGuardrail
  <1>5. ASSUME UNCHANGED <<guardrail, ceiling, excess>> PROVE BudgetInv'
    BY <1>5, TypeNext DEF BudgetInv
  <1>6. ASSUME NEW q \in Requests, NEW j \in Jobs, NEW e \in Amounts, ReserveBegin(q, j, e)
        PROVE  BudgetInv'
    BY <1>5, <1>6 DEF ReserveBegin, ledger, history
  <1>7. ASSUME NEW q \in Requests, ReserveRollback(q) PROVE BudgetInv'
    BY <1>5, <1>7 DEF ReserveRollback, ledger, history
  <1>8. ASSUME NEW r \in Reservations, TtlElapses(r) PROVE BudgetInv'
    BY <1>5, <1>8 DEF TtlElapses, history
  <1>9. ASSUME NEW j \in Jobs, NEW c \in Amounts, WriteUsageLog(j, c) PROVE BudgetInv'
    BY <1>5, <1>9 DEF WriteUsageLog, ledger, history
  <1>10. ASSUME NEW newMonth \in BOOLEAN, DayPasses(newMonth) PROVE BudgetInv'
    BY <1>5, <1>10 DEF DayPasses, ledger, history
  <1>11. ASSUME UNCHANGED vars PROVE BudgetInv'
    BY <1>5, <1>11 DEF vars, ledger, history
  <1> QED BY <1>1, <1>2, <1>3, <1>4, <1>6, <1>7, <1>8, <1>9, <1>10, <1>11 DEF Next

\* For every set of owners, jobs, amounts and limits, and every interleaving of
\* reserves, settlements, sweeps, limit changes and calendar resets: an owner's
\* spend plus holds, of the day and of the month, pass the highest limit ever
\* set only by unheld spend.
THEOREM BudgetHolds == Spec => []OverspendExplained
  <1>1. BudgetInv => OverspendExplained
    BY DEF BudgetInv, WithinCeiling, OverspendExplained
  <1> QED BY <1>1, BudgetInit, BudgetNext, PTL DEF Spec

-----------------------------------------------------------------------------
(* One hold per job.                                                       *)

\* The unique index closes the window between the idempotency read and the
\* lock: a job never has two holds, however its reserve calls interleave.
THEOREM OneHold == Spec => []OneHoldPerJob
  <1>1. Init => OneHoldPerJob
    BY DEF Init, OneHoldPerJob, Held, NoReservation
  <1>2. TypeOK /\ OneHoldPerJob /\ [Next]_vars => OneHoldPerJob'
    <2> SUFFICES ASSUME TypeOK, OneHoldPerJob, [Next]_vars PROVE OneHoldPerJob'
      OBVIOUS
    <2>1. ASSUME NEW q \in Requests, NEW r \in Reservations, ReserveAccept(q, r)
          PROVE  OneHoldPerJob'
      <3>1. /\ reservation'[r].job = request[q].job
            /\ \A s \in Reservations \ {r} : reservation'[s] = reservation[s]
        BY <2>1 DEF ReserveAccept, TypeOK
      <3>2. \A s \in Held : reservation[s].job # request[q].job
        BY <2>1 DEF ReserveAccept, UniqueHold, HeldFor
      <3> QED BY <3>1, <3>2 DEF OneHoldPerJob, Held
    <2>2. ASSUME NEW r \in Reservations, NEW st \in Status \ {"held"}, SetStatus(r, st)
          PROVE  OneHoldPerJob'
      BY <2>2 DEF SetStatus, OneHoldPerJob, Held, TypeOK, ReservationRow
    <2>3. ASSUME NEW r \in Reservations,
                 \/ \E a \in Amounts \cup {NoAmount} : Reconcile(r, a)
                 \/ Release(r) \/ Sweep(r)
          PROVE  OneHoldPerJob'
      BY <2>2, <2>3 DEF Reconcile, Release, Sweep, Status
    <2>4. ASSUME NEW r \in Reservations, TtlElapses(r) PROVE OneHoldPerJob'
      BY <2>4 DEF TtlElapses, OneHoldPerJob, Held, TypeOK, ReservationRow
    <2>5. ASSUME UNCHANGED reservation PROVE OneHoldPerJob'
      BY <2>5 DEF OneHoldPerJob, Held
    <2>6. CASE \/ \E q \in Requests, j \in Jobs, e \in Amounts : ReserveBegin(q, j, e)
               \/ \E q \in Requests : ReserveRollback(q)
               \/ \E o \in Owners, d, m \in Limits \cup {NoAmount} : PatchGuardrail(o, d, m)
               \/ \E j \in Jobs, c \in Amounts : WriteUsageLog(j, c)
               \/ \E newMonth \in BOOLEAN : DayPasses(newMonth)
               \/ UNCHANGED vars
      BY <2>5, <2>6
      DEF ReserveBegin, ReserveRollback, PatchGuardrail, WriteUsageLog, DayPasses, vars, ledger
    <2> QED BY <2>1, <2>3, <2>4, <2>6 DEF Next
  <1> QED BY <1>1, <1>2, TypeCorrect, PTL DEF Spec

-----------------------------------------------------------------------------
(* One charge per reservation.                                             *)

\* Every step preserves the single charge: reconcile is the only action that
\* charges, and it leaves the reservation in the one status that counts one.
LEMMA ChargedOnceNext == TypeOK /\ ChargedOnce /\ [Next]_vars => ChargedOnce'
  <1> SUFFICES ASSUME TypeOK, ChargedOnce, [Next]_vars,
                      NEW s \in Reservations
               PROVE  charge'[s].times = IF reservation'[s].status = "reconciled" THEN 1 ELSE 0
    BY DEF ChargedOnce
  <1> DEFINE Goal == charge'[s].times = IF reservation'[s].status = "reconciled" THEN 1 ELSE 0
  <1>0. charge[s].times = IF reservation[s].status = "reconciled" THEN 1 ELSE 0
    BY DEF ChargedOnce
  <1>1. ASSUME NEW q \in Requests, NEW r \in Reservations, ReserveAccept(q, r) PROVE Goal
    BY <1>0, <1>1 DEF ReserveAccept, history, TypeOK
  <1>2. ASSUME NEW r \in Reservations, NEW a \in Amounts \cup {NoAmount}, Reconcile(r, a)
        PROVE  Goal
    <2>1. charge[r].times = 0 \/ s # r
      BY <1>0, <1>2 DEF Reconcile, Reconcilable
    <2>2. s = r => charge'[s].times = charge[s].times + 1
      BY <1>2 DEF Reconcile, TypeOK
    <2>3. s # r => charge'[s] = charge[s] /\ reservation'[s] = reservation[s]
      BY <1>2 DEF Reconcile, SetStatus, TypeOK
    <2>4. s = r => reservation'[s].status = "reconciled"
      BY <1>2 DEF Reconcile, SetStatus, TypeOK, ReservationRow
    <2> QED BY <1>0, <2>1, <2>2, <2>3, <2>4
  <1>3. ASSUME NEW r \in Reservations, Release(r) \/ Sweep(r) PROVE Goal
    BY <1>0, <1>3
    DEF Release, Releasable, Sweep, Sweepable, SetStatus, history, TypeOK, ReservationRow
  <1>4. ASSUME NEW r \in Reservations, TtlElapses(r) PROVE Goal
    BY <1>0, <1>4 DEF TtlElapses, history, TypeOK, ReservationRow
  <1>5. CASE \/ \E q \in Requests, j \in Jobs, e \in Amounts : ReserveBegin(q, j, e)
             \/ \E q \in Requests : ReserveRollback(q)
             \/ \E o \in Owners, d, m \in Limits \cup {NoAmount} : PatchGuardrail(o, d, m)
             \/ \E j \in Jobs, c \in Amounts : WriteUsageLog(j, c)
             \/ \E newMonth \in BOOLEAN : DayPasses(newMonth)
             \/ UNCHANGED vars
    BY <1>0, <1>5
    DEF ReserveBegin, ReserveRollback, PatchGuardrail, WriteUsageLog, DayPasses, vars,
        ledger, history
  <1> QED BY <1>1, <1>2, <1>3, <1>4, <1>5 DEF Next

\* However often a reconcile is retried or arrives after the sweep, what a
\* reservation adds to the ledger is added once.
THEOREM SingleCharge == Spec => []ChargedOnce
  <1>1. Init => ChargedOnce
    BY DEF Init, ChargedOnce, NoReservation, NoCharge
  <1> QED BY <1>1, ChargedOnceNext, TypeCorrect, PTL DEF Spec

=============================================================================
