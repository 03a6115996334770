-------------------------- MODULE InstallmentPlans --------------------------
(***************************************************************************)
(* Installment payment plans (payments.service.ts,                         *)
(* installment-penalty-accrual.ts): settling, pausing and resuming one     *)
(* plan, by requests that each read it, judge and save it whole, at a       *)
(* ledger number the caller states.                                         *)
(***************************************************************************)
EXTENDS Integers, FiniteSets

CONSTANTS
  PlanHolders,           \* requests on the plan under way
  NumInstallments,
  IntervalLedgers,
  ExpiryLedger,
  MaxPauses,        \* MAX_PAUSES_PER_PLAN
  PauseCooldown,    \* MIN_LEDGERS_BETWEEN_PAUSES
  MaxLedger         \* bound: ledgers callers state

ASSUME PlanAssumption ==
  /\ IsFiniteSet(PlanHolders)
  /\ {NumInstallments, IntervalLedgers, MaxLedger} \subseteq Nat \ {0}
  /\ {ExpiryLedger, MaxPauses, PauseCooldown} \subseteq Nat

VARIABLES
  plan,     \* the row of installment_payment_plan
  payer     \* the row each request is about to save

planVars == <<plan, payer>>

-----------------------------------------------------------------------------
Ledgers == 0 .. MaxLedger
PlanStatus == {"ACTIVE", "COMPLETED", "EXPIRED", "PAUSED"}
None == -1
Plans ==
  [status : PlanStatus, current : 0 .. NumInstallments, due : Nat, expiry : Nat,
   paused : BOOLEAN, pausedAt : Ledgers \cup {None},
   resumedAt : Ledgers \cup {None}, pausedFor : Nat, pauses : 0 .. MaxPauses]
NotPaying == [status |-> "none"]

PlanTypeOK ==
  /\ plan \in Plans
  /\ \A p \in PlanHolders : payer[p] \in Plans \cup {NotPaying}

\* createInstallmentPlan leaves nextDueLedger at 0.
NewPlan ==
  [status |-> "ACTIVE", current |-> 0, due |-> 0, expiry |-> ExpiryLedger,
   paused |-> FALSE, pausedAt |-> None, resumedAt |-> None, pausedFor |-> 0,
   pauses |-> 0]

\* The request has read the plan and will save what it makes of it.
WillSave(p, row) ==
  /\ payer[p] = NotPaying
  /\ payer' = [payer EXCEPT ![p] = row]
  /\ UNCHANGED plan

-----------------------------------------------------------------------------
CanSettle(ledger) ==
  /\ plan.status = "ACTIVE" /\ ~plan.paused
  /\ ledger >= plan.due /\ plan.current < NumInstallments

SettleInstallment(p, ledger) ==
  /\ CanSettle(ledger) /\ ledger <= plan.expiry
  /\ WillSave(p, IF plan.current + 1 = NumInstallments
                 THEN [plan EXCEPT !.current = @ + 1, !.status = "COMPLETED"]
                 ELSE [plan EXCEPT !.current = @ + 1,
                                   !.due = @ + IntervalLedgers])

ExpirePlan(p, ledger) ==
  /\ CanSettle(ledger) /\ ledger > plan.expiry
  /\ WillSave(p, [plan EXCEPT !.status = "EXPIRED"])

\* MAX_PAUSES_PER_PLAN, MIN_LEDGERS_BETWEEN_PAUSES.
PauseAllowed(ledger) ==
  /\ plan.pauses < MaxPauses
  /\ plan.resumedAt # None => ledger - plan.resumedAt >= PauseCooldown

PausePlan(p, ledger) ==
  /\ plan.status = "ACTIVE" /\ ~plan.paused /\ PauseAllowed(ledger)
  /\ WillSave(p, [plan EXCEPT !.paused = TRUE, !.status = "PAUSED",
                              !.pausedAt = ledger, !.pauses = @ + 1])

ComputePausedLedgers(from, to) == to - from

\* Mutation of ResumePlan: the date of expiry is not moved.
ResumePlanDueOnly(p, ledger) ==
  /\ plan.status = "PAUSED" /\ plan.paused /\ ledger >= plan.pausedAt
  /\ LET span == ComputePausedLedgers(plan.pausedAt, ledger)
     IN  WillSave(p, [plan EXCEPT
           !.due = @ + span, !.pausedFor = @ + span, !.paused = FALSE,
           !.status = "ACTIVE", !.pausedAt = None, !.resumedAt = ledger])

ResumePlan(p, ledger) ==
  /\ plan.status = "PAUSED" /\ plan.paused /\ ledger >= plan.pausedAt
  /\ LET span == ComputePausedLedgers(plan.pausedAt, ledger)
     IN  WillSave(p, [plan EXCEPT
           !.due = @ + span, !.expiry = @ + span, !.pausedFor = @ + span,
           !.paused = FALSE, !.status = "ACTIVE", !.pausedAt = None,
           !.resumedAt = ledger])

\* save overwrites every column that differs, and answers with the plan.
SavePlan(p) ==
  /\ payer[p] # NotPaying
  /\ plan' = payer[p]
  /\ payer' = [payer EXCEPT ![p] = NotPaying]

-----------------------------------------------------------------------------
PlanInit == plan = NewPlan /\ payer = [p \in PlanHolders |-> NotPaying]

PlanRequest(p, ledger) ==
  \/ SettleInstallment(p, ledger) \/ ExpirePlan(p, ledger)
  \/ PausePlan(p, ledger) \/ ResumePlan(p, ledger)

PlanNext ==
  \E p \in PlanHolders :
    SavePlan(p) \/ \E ledger \in Ledgers : PlanRequest(p, ledger)

PlanSpec == PlanInit /\ [][PlanNext]_planVars

-----------------------------------------------------------------------------
\* getPenaltyAccrualState of a plan: how late it is, whole windows of lateness.
LedgersLate(row, ledger) ==
  IF row.paused \/ ledger <= row.due THEN 0 ELSE ledger - row.due
PenaltyWindows(row, ledger) ==
  LedgersLate(row, ledger) \div IntervalLedgers

\* The clock stops while a plan is paused: at any ledger of a plan under way,
\* the windows of penalty are those of its schedule less the ledgers it was
\* paused for, and it expires as much later, also when the saves of several
\* requests overwrite each other.
ClockStopsWhilePaused ==
  plan.status = "ACTIVE" =>
    /\ plan.expiry = ExpiryLedger + plan.pausedFor
    /\ \A ledger \in Ledgers :
         LET late == ledger - plan.pausedFor - plan.current * IntervalLedgers
         IN  PenaltyWindows(plan, ledger) =
               (IF late > 0 THEN late ELSE 0) \div IntervalLedgers
=============================================================================
