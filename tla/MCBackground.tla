---------------------------- MODULE MCBackground ----------------------------
(***************************************************************************)
(* What runs behind the API by itself: the scheduled tasks, the trust      *)
(* scores, the balance monitor and the KYC sweep.  The components share no *)
(* state, so one run takes them one at a time: a behaviour belongs to one  *)
(* chore, and the variables of the others stay as they began.              *)
(***************************************************************************)
EXTENDS ScheduledTasks, TrustScores, BalanceMonitor, KycReview

CONSTANTS
  Chores,  \* the components a run looks at
  issuer, cron1

VARIABLE chore

\* Only its own behaviours begin with the task in different states.
BackgroundInit ==
  /\ chore \in Chores
  /\ TasksInit
  /\ \/ chore = "tasks"
     \/ cron = Reminders /\ \A u \in Users : steps[u] = 1
  /\ ScoresInit /\ BalanceInit /\ KycInit

TasksStep ==
  /\ chore = "tasks" /\ TasksNext
  /\ UNCHANGED <<chore, scoreVars, balanceVars, kycVars>>

ScoresStep ==
  /\ chore = "scores" /\ ScoresNext
  /\ UNCHANGED <<chore, tasksVars, balanceVars, kycVars>>

BalanceStep ==
  /\ chore = "balances" /\ BalanceNext
  /\ UNCHANGED <<chore, tasksVars, scoreVars, kycVars>>

KycStep ==
  /\ chore = "kyc" /\ KycNext
  /\ UNCHANGED <<chore, tasksVars, scoreVars, balanceVars>>

BackgroundNext == TasksStep \/ ScoresStep \/ BalanceStep \/ KycStep

backgroundVars == <<chore, tasksVars, scoreVars, balanceVars, kycVars>>

\* The fairness of each component, for its own behaviours.
BackgroundFairness ==
  /\ \A s \in Servers :
       /\ WF_tasksVars(chore = "tasks" /\ TaskStep(s))
       /\ WF_tasksVars(chore = "tasks"
                         /\ \E name \in Tasks : SetLock(s, name))
  /\ WF_scoreVars(chore = "scores" /\ HandleRecalculateTrustScores)
  /\ \A w \in ScoreWorkers :
       WF_scoreVars(chore = "scores"
                      /\ (RecalculateAll(w) \/ RecalculateBatch(w)))
  /\ WF_balanceVars(chore = "balances" /\ Tick)
  /\ WF_balanceVars(chore = "balances" /\ WindowEnds)
  /\ WF_balanceVars(chore = "balances" /\ HandleBalanceCheck)
  /\ \A r \in Readers :
       WF_balanceVars(chore = "balances"
                        /\ (AskAccount(r) \/ LoadAnswered(r)))
  /\ WF_kycVars(chore = "kyc" /\ DetectStuckCases)
  /\ WF_kycVars(chore = "kyc" /\ FlagStuckCase)

BackgroundSpec ==
  BackgroundInit /\ [][BackgroundNext]_backgroundVars /\ BackgroundFairness

\* The variables have the types the modules give them.
BackgroundTypeOK ==
  /\ chore \in Chores
  /\ TasksTypeOK /\ ScoresTypeOK /\ BalanceTypeOK /\ KycTypeOK

\* The properties of the modules, each of its own behaviours: every sweep and
\* reminder gets done, and no reminder is marked that was not mailed
\* (SchedulerService),
TasksSettle == []MarkedWasMailed /\ (chore = "tasks" => TasksGetDone)

\* the scores become those of the facts (TrustScoreService),
ScoresConverge == chore = "scores" => ScoresSettle

\* the issuer is told of a low balance that lasts, and only failures open the
\* breaker (BalanceMonitorService),
AlertsConverge ==
  []TripsOnRealFailures /\ (chore = "balances" => AlertsSettle)

\* and no case is stuck unnoticed (KycStuckCaseDetectorService).
NobodyWaitsUnflagged == chore = "kyc" => StuckIsFlagged
=============================================================================
