----------------------------- MODULE TrustScores -----------------------------
(***************************************************************************)
(* Trust scores (trust-score.service.ts, its processor and constants): the *)
(* nightly job pages through the users and, page by page, reads what their  *)
(* scores are made of in one query after another and upserts the rows,      *)
(* while contributions, penalties and groups go on changing and another     *)
(* server's worker runs a job of its own.                                   *)
(***************************************************************************)
EXTENDS Integers, FiniteSets

CONSTANTS
  ScoreWorkers,     \* servers, each with a worker of concurrency 1
  MaxScored,        \* bound: users
  ScoreBatch,       \* TRUST_SCORE_BATCH_SIZE
  MaxFacts,         \* bound: changes of what scores are made of
  MaxScoreFaults    \* bound: failed jobs

ASSUME ScoresAssumption ==
  /\ IsFiniteSet(ScoreWorkers)
  /\ {MaxScored, ScoreBatch} \subseteq Nat \ {0}
  /\ {MaxFacts, MaxScoreFaults} \subseteq Nat

VARIABLES
  registered,   \* users, numbered by createdAt
  facts,        \* what the tables say of each user
  scoreRow,     \* rows of member_trust_scores
  nightly,      \* is a job waiting in trust-score-queue?
  scorer,       \* the job of each worker
  factsLeft, scoreFaults

scoreVars == <<registered, facts, scoreRow, nightly, scorer, factsLeft,
               scoreFaults>>

-----------------------------------------------------------------------------
Scored == 1 .. MaxScored
Counts == 0 .. MaxFacts + 1
Components == [onTime : Counts, late : Counts, missed : Counts,
               incurred : Counts, paid : Counts, completed : Counts]
NoFacts == [onTime |-> 0, late |-> 0, missed |-> 0,
            incurred |-> 0, paid |-> 0, completed |-> 0]
\* A contribution and a penalty, both pending.
SomeHistory == [NoFacts EXCEPT !.late = 1, !.incurred = 1]
NoScore == [none |-> TRUE]

Least(a, b) == IF a < b THEN a ELSE b
Greatest(a, b) == IF a > b THEN a ELSE b

\* Mutation of ComputeTrustScore: the sum is not clamped from below.
ComputeTrustScoreUnclamped(c) ==
  LET total == c.onTime + c.late + c.missed
      base == IF total = 0 THEN 0 ELSE (6000 * c.onTime) \div total
      penaltyAdj == Greatest(0, c.incurred - c.paid) * 500
  IN  Least(10000, base - penaltyAdj + Least(c.completed * 400, 2000))

\* In hundredths of a point.
TRUST_SCORE_FORMULA ==
  [ON_TIME_WEIGHT |-> 6000, PENALTY_DEDUCTION |-> 500,
   COMPLETION_BONUS_PER_GROUP |-> 400, COMPLETION_BONUS_CAP |-> 2000,
   SCORE_MIN |-> 0, SCORE_MAX |-> 10000]

\* computeTrustScore, rounded as toFixed(2) does.
ComputeTrustScore(c) ==
  LET total == c.onTime + c.late + c.missed
      weighted == TRUST_SCORE_FORMULA.ON_TIME_WEIGHT * c.onTime
      base == IF total = 0 THEN 0 ELSE (2 * weighted + total) \div (2 * total)
      penaltyAdj == Greatest(0, c.incurred - c.paid)
                      * TRUST_SCORE_FORMULA.PENALTY_DEDUCTION
      bonus == Least(
        c.completed * TRUST_SCORE_FORMULA.COMPLETION_BONUS_PER_GROUP,
        TRUST_SCORE_FORMULA.COMPLETION_BONUS_CAP)
  IN  Least(TRUST_SCORE_FORMULA.SCORE_MAX,
            Greatest(TRUST_SCORE_FORMULA.SCORE_MIN, base - penaltyAdj + bonus))

Resting == [at |-> "rest"]
Scorers ==
  [at : {"page", "contributions", "penalties", "groups", "upsert"},
   total : 0 .. MaxScored, offset : 0 .. MaxScored + ScoreBatch,
   batch : SUBSET Scored, read : [Scored -> Components]]

MemberTrustScore == [score : 0 .. 10000, lastSeen : Components]

ScoresTypeOK ==
  /\ registered \in 0 .. MaxScored
  /\ facts \in [Scored -> Components]
  /\ \A u \in Scored :
       scoreRow[u] \in {NoScore} \cup MemberTrustScore
  /\ nightly \in BOOLEAN
  /\ \A w \in ScoreWorkers : scorer[w] \in Scorers \cup {Resting}
  /\ factsLeft \in 0 .. MaxFacts /\ scoreFaults \in 0 .. MaxScoreFaults

-----------------------------------------------------------------------------
\* The tables the scores are made of.

Change(u, new) ==
  /\ u <= registered /\ factsLeft > 0
  /\ factsLeft' = factsLeft - 1
  /\ facts' = [facts EXCEPT ![u] = new]
  /\ UNCHANGED <<registered, scoreRow, nightly, scorer, scoreFaults>>

ContributionChanges(u) ==
  \/ Change(u, [facts[u] EXCEPT !.late = @ + 1])        \* a PENDING row
  \/ Change(u, [facts[u] EXCEPT !.onTime = @ + 1])      \* one CONFIRMED at once
  \/ /\ facts[u].late > 0
     /\ \/ Change(u, [facts[u] EXCEPT !.late = @ - 1, !.onTime = @ + 1])
        \/ Change(u, [facts[u] EXCEPT !.late = @ - 1, !.missed = @ + 1])

\* A penalty that is waived stays one that was incurred.
PenaltyChanges(u) ==
  \/ Change(u, [facts[u] EXCEPT !.incurred = @ + 1])
  \/ /\ facts[u].paid < facts[u].incurred
     /\ Change(u, [facts[u] EXCEPT !.paid = @ + 1])

GroupCompleted(u) == Change(u, [facts[u] EXCEPT !.completed = @ + 1])

UserRegisters ==
  /\ registered < MaxScored
  /\ registered' = registered + 1
  /\ UNCHANGED <<facts, scoreRow, nightly, scorer, factsLeft, scoreFaults>>

-----------------------------------------------------------------------------
\* The job.

HandleRecalculateTrustScores ==
  /\ ~nightly
  /\ nightly' = TRUE
  /\ UNCHANGED <<registered, facts, scoreRow, scorer, factsLeft, scoreFaults>>

Work(w, new) == scorer' = [scorer EXCEPT ![w] = new]

\* recalculateAll counts the users once, at its start.
RecalculateAll(w) ==
  /\ scorer[w] = Resting /\ nightly
  /\ nightly' = FALSE
  /\ Work(w, [at |-> "page", total |-> registered, offset |-> 0, batch |-> {},
              read |-> [u \in Scored |-> NoFacts]])
  /\ UNCHANGED <<registered, facts, scoreRow, factsLeft, scoreFaults>>

\* Mutation of PagesLeft: a last page that is not full is left out.
PagesLeftFull(s) == s.offset + ScoreBatch < s.total

PagesLeft(s) == s.offset < s.total

FindPage(w) ==
  /\ scorer[w].at = "page"
  /\ LET s == scorer[w]
         page == {u \in Scored : s.offset < u /\ u <= s.offset + ScoreBatch
                                 /\ u <= registered}
     IN  IF ~PagesLeft(s) \/ page = {}
         THEN Work(w, Resting)
         ELSE Work(w, [s EXCEPT !.at = "contributions", !.batch = page,
                                !.offset = @ + ScoreBatch])
  /\ UNCHANGED <<registered, facts, scoreRow, nightly, factsLeft, scoreFaults>>

ReadContributions(w) ==
  /\ scorer[w].at = "contributions"
  /\ Work(w, [scorer[w] EXCEPT !.at = "penalties", !.read =
       [u \in Scored |-> IF u \in scorer[w].batch
                         THEN [NoFacts EXCEPT !.onTime = facts[u].onTime,
                                              !.late = facts[u].late,
                                              !.missed = facts[u].missed]
                         ELSE NoFacts]])
  /\ UNCHANGED <<registered, facts, scoreRow, nightly, factsLeft, scoreFaults>>

ReadPenalties(w) ==
  /\ scorer[w].at = "penalties"
  /\ Work(w, [scorer[w] EXCEPT !.at = "groups", !.read =
       [u \in Scored |-> IF u \in scorer[w].batch
                         THEN [@[u] EXCEPT !.incurred = facts[u].incurred,
                                           !.paid = facts[u].paid]
                         ELSE @[u]]])
  /\ UNCHANGED <<registered, facts, scoreRow, nightly, factsLeft, scoreFaults>>

\* The memberships, everybody's in those groups, and the groups COMPLETED.
ReadGroups(w) ==
  /\ scorer[w].at = "groups"
  /\ Work(w, [scorer[w] EXCEPT !.at = "upsert", !.read =
       [u \in Scored |-> IF u \in scorer[w].batch
                         THEN [@[u] EXCEPT !.completed = facts[u].completed]
                         ELSE @[u]]])
  /\ UNCHANGED <<registered, facts, scoreRow, nightly, factsLeft, scoreFaults>>

UpsertScore(w, u) ==
  /\ scorer[w].at = "upsert" /\ u \in scorer[w].batch
  /\ \A k \in scorer[w].batch : u <= k
  /\ LET s == scorer[w]
         left == s.batch \ {u}
     IN  /\ scoreRow' = [scoreRow EXCEPT ![u] =
              [score |-> ComputeTrustScore(s.read[u]), lastSeen |-> s.read[u]]]
         /\ Work(w, [s EXCEPT !.batch = left, !.read[u] = NoFacts,
                              !.at = IF left = {} THEN "page" ELSE "upsert"])
  /\ UNCHANGED <<registered, facts, nightly, factsLeft, scoreFaults>>

\* The job throws and is queued again, or, after three attempts, left to the
\* next night.
ScoreJobFails(w) ==
  /\ scorer[w] # Resting /\ scoreFaults < MaxScoreFaults
  /\ scoreFaults' = scoreFaults + 1
  /\ Work(w, Resting)
  /\ nightly' \in {nightly, TRUE}
  /\ UNCHANGED <<registered, facts, scoreRow, factsLeft>>

-----------------------------------------------------------------------------
ScoresInit ==
  /\ registered = 1
  /\ facts = [u \in Scored |-> IF u = 1 THEN SomeHistory ELSE NoFacts]
  /\ scoreRow = [u \in Scored |-> NoScore]
  /\ nightly = FALSE /\ scorer = [w \in ScoreWorkers |-> Resting]
  /\ factsLeft = MaxFacts /\ scoreFaults = 0

RecalculateBatch(w) ==
  \/ FindPage(w) \/ ReadContributions(w) \/ ReadPenalties(w) \/ ReadGroups(w)
  \/ \E u \in Scored : UpsertScore(w, u)

ScoresNext ==
  \/ \E u \in Scored :
       ContributionChanges(u) \/ PenaltyChanges(u) \/ GroupCompleted(u)
  \/ UserRegisters \/ HandleRecalculateTrustScores
  \/ \E w \in ScoreWorkers :
       RecalculateAll(w) \/ RecalculateBatch(w) \/ ScoreJobFails(w)

\* The task runs every night; BullMQ gives a waiting job to a worker.
ScoresFairness ==
  /\ WF_scoreVars(HandleRecalculateTrustScores)
  /\ \A w \in ScoreWorkers :
       WF_scoreVars(RecalculateAll(w) \/ RecalculateBatch(w))

ScoresSpec == ScoresInit /\ [][ScoresNext]_scoreVars /\ ScoresFairness

-----------------------------------------------------------------------------
ScoresAreRight ==
  \A u \in 1 .. registered :
    /\ scoreRow[u] # NoScore
    /\ scoreRow[u].score = ComputeTrustScore(facts[u])

\* recalculateAll and recalculateBatch: once nothing changes any more, every
\* user has the score that follows from the tables, although a page is read in
\* several queries, an older job may write after a newer one, users register
\* while pages are read, and jobs fail.
ScoresSettle == <>[]ScoresAreRight
=============================================================================
