---------------------------- MODULE PenaltyLedger ----------------------------
(***************************************************************************)
(* Penalties of one active group (penalty-assessment.job.ts,               *)
(* penalty.service.ts, penalties.controller.ts): the hourly assessment,     *)
(* which several servers may run at once, beside the payments that come in  *)
(* late and the requests that waive, dispute and resolve.  The table has no *)
(* unique index.  One action per await.                                     *)
(***************************************************************************)
EXTENDS Integers, FiniteSets

CONSTANTS
  Debtors,           \* members of the group
  Assessors,         \* servers that run the job
  Clerks,            \* requests on penalties under way
  MaxPenalties,      \* bound: rows ever inserted
  MaxPenaltyRound,   \* bound: rounds of the group
  MaxPenaltyFaults   \* bound: errors while assessing

ASSUME PenaltyAssumption ==
  /\ IsFiniteSet(Debtors) /\ IsFiniteSet(Assessors) /\ IsFiniteSet(Clerks)
  /\ {MaxPenalties, MaxPenaltyRound} \subseteq Nat \ {0}
  /\ MaxPenaltyFaults \in Nat

VARIABLES
  dueRound,       \* currentRound of the group
  contributed,    \* who has a row of contributions for which round
  penalty,        \* rows of penalties, by id
  assessing,      \* the assessment on each server
  assessed,       \* rounds of which an assessment has ended without an error
  clerk,          \* what each request is about to save
  penaltyFaults

penaltyVars == <<dueRound, contributed, penalty, assessing, assessed, clerk,
                 penaltyFaults>>

-----------------------------------------------------------------------------
PenaltyIds == 1 .. MaxPenalties
DueRounds == 1 .. MaxPenaltyRound
PenaltyStatus == {"PENDING", "PAID", "WAIVED", "DISPUTED", "REJECTED"}
Penalties == [user : Debtors, round : DueRounds, status : PenaltyStatus]
NoPenalty == [status |-> "none"]

NotAssessing == [at |-> "rest"]
Assessments ==
  [at : {"next", "existing", "save", "notify"}, round : DueRounds,
   left : SUBSET Debtors, current : SUBSET Debtors]
AtRest == [to |-> "none"]
Verdicts == [id : PenaltyIds, to : {"WAIVED", "DISPUTED", "REJECTED"}]

PenaltyTypeOK ==
  /\ dueRound \in DueRounds
  /\ contributed \subseteq Debtors \X DueRounds
  /\ \A p \in PenaltyIds : penalty[p] \in Penalties \cup {NoPenalty}
  /\ \A a \in Assessors : assessing[a] \in Assessments \cup {NotAssessing}
  /\ assessed \subseteq DueRounds
  /\ \A c \in Clerks : clerk[c] \in Verdicts \cup {AtRest}
  /\ penaltyFaults \in 0 .. MaxPenaltyFaults

Owing(m, r) ==
  {p \in PenaltyIds : /\ penalty[p] # NoPenalty
                      /\ penalty[p].user = m /\ penalty[p].round = r}
IsNewPenalty(p) ==
  {k \in PenaltyIds : penalty[k] = NoPenalty} = p .. MaxPenalties

-----------------------------------------------------------------------------
\* What goes on meanwhile.

\* A contribution is for the round the group is in.
ContributionRecorded(m) ==
  /\ contributed' = contributed \cup {<<m, dueRound>>}
  /\ UNCHANGED <<dueRound, penalty, assessing, assessed, clerk, penaltyFaults>>

DueRoundAdvances ==
  /\ dueRound < MaxPenaltyRound
  /\ dueRound' = dueRound + 1
  /\ UNCHANGED <<contributed, penalty, assessing, assessed, clerk,
                 penaltyFaults>>

-----------------------------------------------------------------------------
\* assessPenalties: the round is the one of the group as the job has read it;
\* assessPenaltiesForRound goes through its memberships.

StartAssessment(a) ==
  /\ assessing[a] = NotAssessing
  /\ assessing' = [assessing EXCEPT ![a] =
       [at |-> "next", round |-> dueRound, left |-> Debtors, current |-> {}]]
  /\ UNCHANGED <<dueRound, contributed, penalty, assessed, clerk,
                 penaltyFaults>>

\* Any row of the round counts as a contribution, whatever its status.
CheckContribution(a, m) ==
  LET paid == <<m, assessing[a].round>> \in contributed IN
  /\ assessing[a].at = "next" /\ m \in assessing[a].left
  /\ assessing' = [assessing EXCEPT ![a] =
       [at |-> IF paid THEN "next" ELSE "existing", round |-> @.round,
        left |-> @.left \ {m}, current |-> IF paid THEN {} ELSE {m}]]
  /\ UNCHANGED <<dueRound, contributed, penalty, assessed, clerk,
                 penaltyFaults>>

Charged(a) ==
  \E m \in assessing[a].current : Owing(m, assessing[a].round) # {}

\* Mutation of CheckExisting: a penalty found ends the loop instead of the
\* iteration.
CheckExistingBreaks(a) ==
  /\ assessing[a].at = "existing"
  /\ assessing' = [assessing EXCEPT ![a] =
       IF Charged(a)
       THEN [@ EXCEPT !.at = "next", !.left = {}, !.current = {}]
       ELSE [@ EXCEPT !.at = "save"]]
  /\ UNCHANGED <<dueRound, contributed, penalty, assessed, clerk,
                 penaltyFaults>>

CheckExisting(a) ==
  /\ assessing[a].at = "existing"
  /\ assessing' = [assessing EXCEPT ![a] =
       [at |-> IF Charged(a) THEN "next" ELSE "save", round |-> @.round,
        left |-> @.left, current |-> IF Charged(a) THEN {} ELSE @.current]]
  /\ UNCHANGED <<dueRound, contributed, penalty, assessed, clerk,
                 penaltyFaults>>

SavePenalty(a, p) ==
  /\ assessing[a].at = "save" /\ IsNewPenalty(p)
  /\ \E m \in assessing[a].current : penalty' = [penalty EXCEPT ![p] =
       [user |-> m, round |-> assessing[a].round,
        status |-> "PENDING"]]
  /\ assessing' = [assessing EXCEPT ![a].at = "notify", ![a].current = {}]
  /\ UNCHANGED <<dueRound, contributed, assessed, clerk, penaltyFaults>>

NotifyDebtor(a) ==
  /\ assessing[a].at = "notify"
  /\ assessing' = [assessing EXCEPT ![a].at = "next"]
  /\ UNCHANGED <<dueRound, contributed, penalty, assessed, clerk,
                 penaltyFaults>>

GroupProcessed(a) ==
  /\ assessing[a].at = "next" /\ assessing[a].left = {}
  /\ assessed' = assessed \cup {assessing[a].round}
  /\ assessing' = [assessing EXCEPT ![a] = NotAssessing]
  /\ UNCHANGED <<dueRound, contributed, penalty, clerk, penaltyFaults>>

\* An await fails, a notification that was not sent among them: the job logs it
\* and leaves the rest of the group to the next run.
AssessmentFails(a) ==
  /\ assessing[a] # NotAssessing /\ penaltyFaults < MaxPenaltyFaults
  /\ penaltyFaults' = penaltyFaults + 1
  /\ assessing' = [assessing EXCEPT ![a] = NotAssessing]
  /\ UNCHANGED <<dueRound, contributed, penalty, assessed, clerk>>

-----------------------------------------------------------------------------
\* Every request on a penalty finds it, judges its status and saves the whole
\* row some awaits later.
Decide(c, p, to) ==
  /\ clerk[c] = AtRest
  /\ clerk' = [clerk EXCEPT ![c] = [id |-> p, to |-> to]]
  /\ UNCHANGED <<dueRound, contributed, penalty, assessing, assessed,
                 penaltyFaults>>

FindForWaiver(c, p) == penalty[p].status = "PENDING" /\ Decide(c, p, "WAIVED")

FindForDispute(c, p) ==
  penalty[p].status = "PENDING" /\ Decide(c, p, "DISPUTED")

FindForVerdict(c, p) ==
  /\ penalty[p].status = "DISPUTED"
  /\ \E to \in {"WAIVED", "REJECTED"} : Decide(c, p, to)

\* The notification and the audit entry that follow change no penalty.
SaveDecision(c, to) ==
  /\ clerk[c] # AtRest /\ clerk[c].to = to
  /\ penalty' = [penalty EXCEPT ![clerk[c].id].status = to]
  /\ clerk' = [clerk EXCEPT ![c] = AtRest]
  /\ UNCHANGED <<dueRound, contributed, assessing, assessed, penaltyFaults>>

SaveWaiver(c) == SaveDecision(c, "WAIVED")
SaveDispute(c) == SaveDecision(c, "DISPUTED")
SaveRejection(c) == SaveDecision(c, "REJECTED")

-----------------------------------------------------------------------------
PenaltyInit ==
  /\ dueRound = 1 /\ contributed = {}
  /\ penalty = [p \in PenaltyIds |-> NoPenalty]
  /\ assessing = [a \in Assessors |-> NotAssessing] /\ assessed = {}
  /\ clerk = [c \in Clerks |-> AtRest]
  /\ penaltyFaults = 0

AssessPenalties(a) ==
  \/ StartAssessment(a)
  \/ \E m \in Debtors : CheckContribution(a, m)
  \/ CheckExisting(a) \/ NotifyDebtor(a) \/ GroupProcessed(a)
  \/ \E p \in PenaltyIds : SavePenalty(a, p)

PenaltyRequest(c) ==
  \/ \E p \in PenaltyIds :
       FindForWaiver(c, p) \/ FindForDispute(c, p) \/ FindForVerdict(c, p)
  \/ SaveWaiver(c) \/ SaveDispute(c) \/ SaveRejection(c)

PenaltyNext ==
  \/ \E m \in Debtors : ContributionRecorded(m)
  \/ DueRoundAdvances
  \/ \E a \in Assessors : AssessPenalties(a) \/ AssessmentFails(a)
  \/ \E c \in Clerks : PenaltyRequest(c)

PenaltySpec == PenaltyInit /\ [][PenaltyNext]_penaltyVars

-----------------------------------------------------------------------------
\* assessPenaltiesForRound: once an assessment of a round has ended without an
\* error, whoever has no contribution for it has a penalty: neither the runs
\* that failed half-way, nor those beside it, nor a round that moved on while
\* it ran let a member off.
NobodyIsLetOff ==
  \A r \in assessed, m \in Debtors :
    <<m, r>> \in contributed \/ Owing(m, r) # {}

\* Two assessments at once, or a waiver beside a dispute, break what the code
\* checks first: one penalty per member and round, and a verdict that stays.
OnePenaltyPerRound ==
  \A m \in Debtors, r \in DueRounds : Cardinality(Owing(m, r)) <= 1
=============================================================================
