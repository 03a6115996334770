--------------------------- MODULE ScheduledTasks ---------------------------
(***************************************************************************)
(* The cron tasks of SchedulerService on several servers: the lock of      *)
(* DistributedLockService around each of them, the retries of              *)
(* executeWithRetry, and the tasks whose bodies are not in another module: *)
(* the sweeps of old rows, the weekly summaries, the request to recalculate *)
(* trust scores and the reminders to users with an incomplete profile.     *)
(* One action per await.  The tasks share neither rows nor lock keys, so    *)
(* each behaviour looks at one of them.                                     *)
(***************************************************************************)
EXTENDS Integers, FiniteSets, Functions, SequencesExt

CONSTANTS
  Servers,
  Users,
  Groups,         \* the ACTIVE groups, for the summaries
  MaxAttempts,    \* SchedulerService.maxRetries
  MaxTaskFaults   \* bound: failed calls and crashes

VARIABLES
  locks,       \* the keys scheduler:lock:<task>
  task,        \* what each server runs, see Runs
  due,         \* the sweeps that have rows past their time
  asked,       \* the users whose profileIncompleteReminderSentAt is set
  steps,       \* how many of the five profile steps each user has done
  mailed,      \* the users with a reminder in the mail queue
  recalculate, \* is a RECALCULATE_TRUST_SCORES job queued?
  cron,        \* the task that cron calls in this behaviour
  taskFaults

taskRows == <<due, asked, steps, mailed, recalculate>>
tasksVars == <<locks, task, taskRows, cron, taskFaults>>

-----------------------------------------------------------------------------
Sweeps == {"archive-audit-logs", "cleanup-expired-refresh-tokens",
           "expire-group-invites"}
Reminders == "send-profile-incomplete-reminders"
Summaries == "send-contribution-summaries"
TrustScores == "recalculate-trust-scores"
\* The tasks whose bodies are RoundAdvance, GroupMediation, PenaltyLedger and
\* KycReview.
Elsewhere == {"update-group-statuses", "detect-stale-groups",
              "auto-advance-rounds", "assess-penalties", "detect-stuck-kyc-cases"}
Tasks == Sweeps \cup Elsewhere \cup {Reminders, Summaries, TrustScores}

ASSUME TasksAssumption ==
  /\ IsFiniteSet(Servers) /\ IsFiniteSet(Users) /\ IsFiniteSet(Groups)
  /\ MaxAttempts \in Nat \ {0} /\ MaxTaskFaults \in Nat

ProfileSteps == 5
StepWeight == 20
ReminderThreshold == 60
ProfileDone(u) == StepWeight * steps[u] >= ReminderThreshold

\* now and todo: the item the body treats and those it has yet to treat, with
\* the row it has read of them.
NoTask == [name |-> "none", at |-> "idle"]
NoItem == [none |-> TRUE]
Items == [user : Users, steps : 0 .. ProfileSteps] \cup [group : Groups]
Runs == [name : Tasks, at : {"check", "body", "loop", "mark", "release"},
         attempt : 1 .. MaxAttempts, now : Items \cup {NoItem}, todo : SUBSET Items]

Running(s, name, where) == task[s].name = name /\ task[s].at = where
Go(s, where) == task' = [task EXCEPT ![s].at = where]

\* A call to Redis, the database or a queue may fail, MaxTaskFaults times.
Fault == taskFaults < MaxTaskFaults /\ taskFaults' = taskFaults + 1
Answered(up) == IF up THEN UNCHANGED taskFaults ELSE Fault

\* redis.service.ts: what a call leaves of the keys that exist, and its answer.
\* The error of a Redis that is down is caught, logged, and answered as if
\* nothing were there.
Exists(up, store, key) == up /\ key \in DOMAIN store
SetWithExpiry(up, store, key, value) ==
  IF up THEN [k \in DOMAIN store \cup {key} |-> IF k = key THEN value ELSE store[k]]
        ELSE store
Del(up, store, key) ==
  IF up THEN Restrict(store, DOMAIN store \ {key}) ELSE store

TasksTypeOK ==
  /\ DOMAIN locks \subseteq Tasks
  /\ \A s \in Servers : task[s] \in Runs \cup {NoTask}
  /\ due \subseteq Sweeps /\ asked \subseteq Users
  /\ steps \in [Users -> 0 .. ProfileSteps]
  /\ mailed \subseteq Users
  /\ recalculate \in BOOLEAN /\ cron \in Tasks
  /\ taskFaults \in 0 .. MaxTaskFaults

-----------------------------------------------------------------------------
\* The lock, as comments have it: SET key value NX EX ttl.  As the code has
\* it, the SET is unconditional, and what EXISTS then finds is one's own key,
\* unless the other holder has released it in between.

SetLock(s, name) ==
  /\ task[s] = NoTask /\ name = cron
  /\ \E up \in BOOLEAN :
       /\ Answered(up)
       /\ locks' = SetWithExpiry(up, locks, name, "now")
  /\ task' = [task EXCEPT ![s] = [name |-> name, at |-> "check",
                                  attempt |-> 1, now |-> NoItem, todo |-> {}]]
  /\ UNCHANGED <<taskRows, cron>>

\* Mutation of CheckLock: a key that exists is taken for another's.
CheckLockTaken(s) ==
  /\ task[s].at = "check"
  /\ IF Exists(TRUE, locks, task[s].name)
     THEN task' = [task EXCEPT ![s] = NoTask]
     ELSE Go(s, "body")
  /\ UNCHANGED <<locks, taskRows, cron, taskFaults>>

CheckLock(s) ==
  /\ task[s].at = "check"
  /\ \E up \in BOOLEAN :
       /\ Answered(up)
       /\ IF Exists(up, locks, task[s].name)
          THEN Go(s, "body")
          ELSE task' = [task EXCEPT ![s] = NoTask]  \* skipped
  /\ UNCHANGED <<locks, taskRows, cron>>

\* The finally of withLock: whoever ends first deletes the key of all.
ReleaseLock(s) ==
  /\ task[s].at = "release"
  /\ \E up \in BOOLEAN :
       /\ Answered(up)
       /\ locks' = Del(up, locks, task[s].name)
  /\ task' = [task EXCEPT ![s] = NoTask]
  /\ UNCHANGED <<taskRows, cron>>

\* The expiry is minutes away when SET is followed by EXISTS.
LockExpires(name) ==
  /\ Exists(TRUE, locks, name)
  /\ \A s \in Servers : ~Running(s, name, "check")
  /\ locks' = Del(TRUE, locks, name)
  /\ UNCHANGED <<task, taskRows, cron, taskFaults>>

\* executeWithRetry: the whole body again, and after MaxAttempts an error that
\* passes through the finally.
ExecuteWithRetry(s) ==
  /\ task[s].at = "body"
  /\ Fault
  /\ IF task[s].attempt < MaxAttempts
     THEN task' = [task EXCEPT ![s].attempt = @ + 1]
     ELSE Go(s, "release")
  /\ UNCHANGED <<locks, taskRows, cron>>

-----------------------------------------------------------------------------
\* The bodies.

Sweep(s, name) ==
  /\ Running(s, name, "body")
  /\ due' = due \ {name}
  /\ Go(s, "release")
  /\ UNCHANGED <<locks, asked, steps, mailed, recalculate, cron, taskFaults>>

ArchiveAuditLogs(s) == Sweep(s, "archive-audit-logs")
CleanupExpiredRefreshTokens(s) == Sweep(s, "cleanup-expired-refresh-tokens")
ExpireGroupInvites(s) == Sweep(s, "expire-group-invites")

\* A body that is another module's: here it only takes its turn.
Delegate(s, name) ==
  /\ Running(s, name, "body")
  /\ Go(s, "release")
  /\ UNCHANGED <<locks, taskRows, cron, taskFaults>>

GroupStatusUpdates(s) == Delegate(s, "update-group-statuses")
StaleGroupDetection(s) == Delegate(s, "detect-stale-groups")
AutoAdvanceRounds(s) == Delegate(s, "auto-advance-rounds")
PenaltyAssessment(s) == Delegate(s, "assess-penalties")
StuckKycDetection(s) == Delegate(s, "detect-stuck-kyc-cases")

RecalculateTrustScores(s) ==
  /\ Running(s, TrustScores, "body")
  /\ recalculate' = TRUE
  /\ Go(s, "release")
  /\ UNCHANGED <<locks, due, asked, steps, mailed, cron, taskFaults>>

FindActiveGroups(s) ==
  /\ Running(s, Summaries, "body")
  /\ task' = [task EXCEPT ![s].at = "loop",
                          ![s].todo = {[group |-> g] : g \in Groups}]
  /\ UNCHANGED <<locks, taskRows, cron, taskFaults>>

\* Aggregates one group; past the heap guard the others have no summary.  What
\* is sent of the summaries is a line in the log.
GenerateWeeklySummary(s) ==
  /\ Running(s, Summaries, "loop") /\ task[s].todo # {}
  /\ \E item \in task[s].todo, heapExceeded \in BOOLEAN :
       task' = [task EXCEPT ![s].todo = IF heapExceeded THEN {} ELSE @ \ {item}]
  /\ UNCHANGED <<locks, taskRows, cron, taskFaults>>

\* Users of more than a day without a reminder.
FindUsers(s) ==
  /\ Running(s, Reminders, "body")
  /\ task' = [task EXCEPT ![s].at = "loop",
       ![s].todo = {[user |-> u, steps |-> steps[u]] : u \in Users \ asked}]
  /\ UNCHANGED <<locks, taskRows, cron, taskFaults>>

\* The loop goes on to item, or has none left.
NextItem(s, where, item) ==
  task' = [task EXCEPT ![s].at = where, ![s].now = item,
                       ![s].todo = @ \ {item}]

\* The score is that of the user as it is now; the mail is queued before the
\* mark.  An error only leaves this user for tomorrow.
Remind(s) ==
  /\ Running(s, Reminders, "loop")
  /\ \E item \in task[s].todo :
       \/ /\ ~ProfileDone(item.user)
          /\ mailed' = mailed \cup {item.user}
          /\ NextItem(s, "mark", item)
          /\ UNCHANGED taskFaults
       \/ /\ ProfileDone(item.user)
          /\ NextItem(s, "loop", item)
          /\ UNCHANGED <<mailed, taskFaults>>
       \/ /\ Fault
          /\ NextItem(s, "loop", item)
          /\ UNCHANGED mailed
  /\ UNCHANGED <<locks, due, asked, steps, recalculate, cron>>

\* Saves the user as FindUsers read it: what it has done since is undone.
MarkReminded(s) ==
  /\ Running(s, Reminders, "mark")
  /\ LET item == task[s].now
     IN  \/ /\ asked' = asked \cup {item.user}
            /\ steps' = [steps EXCEPT ![item.user] = item.steps]
            /\ UNCHANGED taskFaults
         \/ Fault /\ UNCHANGED <<asked, steps>>
  /\ Go(s, "loop")
  /\ UNCHANGED <<locks, due, mailed, recalculate, cron>>

EndLoop(s) ==
  /\ task[s].at = "loop" /\ task[s].todo = {}
  /\ Go(s, "release")
  /\ UNCHANGED <<locks, taskRows, cron, taskFaults>>

-----------------------------------------------------------------------------
\* What happens around the tasks.

ServerCrash(s) ==
  /\ task[s] # NoTask /\ Fault
  /\ task' = [task EXCEPT ![s] = NoTask]
  /\ UNCHANGED <<locks, taskRows, cron>>

RowsExpire(name) ==
  /\ name \in Sweeps \ due /\ name = cron
  /\ due' = due \cup {name}
  /\ UNCHANGED <<locks, task, asked, steps, mailed, recalculate, cron, taskFaults>>

\* isStepCompleted turns true of another step of the user's profile.
CompleteStep(u) ==
  /\ steps[u] < ProfileSteps
  /\ steps' = [steps EXCEPT ![u] = @ + 1]
  /\ UNCHANGED <<locks, task, due, asked, mailed, recalculate, cron, taskFaults>>

ProcessTrustScores ==
  /\ recalculate /\ recalculate' = FALSE
  /\ UNCHANGED <<locks, task, due, asked, steps, mailed, cron, taskFaults>>

TasksInit ==
  /\ locks = << >> /\ task = [s \in Servers |-> NoTask]
  /\ due = {} /\ asked = {}
  /\ steps \in [Users -> 1 .. ProfileSteps - 2]
  /\ mailed = {} /\ cron \in Tasks
  /\ recalculate = FALSE /\ taskFaults = 0

TaskStep(s) ==
  \/ CheckLock(s) \/ ReleaseLock(s)
  \/ ArchiveAuditLogs(s) \/ CleanupExpiredRefreshTokens(s)
  \/ ExpireGroupInvites(s) \/ RecalculateTrustScores(s)
  \/ GroupStatusUpdates(s) \/ StaleGroupDetection(s) \/ AutoAdvanceRounds(s)
  \/ PenaltyAssessment(s) \/ StuckKycDetection(s)
  \/ FindActiveGroups(s) \/ GenerateWeeklySummary(s)
  \/ FindUsers(s) \/ Remind(s) \/ MarkReminded(s) \/ EndLoop(s)

TasksNext ==
  \/ \E s \in Servers :
       TaskStep(s) \/ ExecuteWithRetry(s) \/ ServerCrash(s)
         \/ \E name \in Tasks : SetLock(s, name)
  \/ \E name \in Tasks : LockExpires(name) \/ RowsExpire(name)
  \/ \E u \in Users : CompleteStep(u)
  \/ ProcessTrustScores

\* A task that runs goes on, and cron calls it again and again, Mondays for
\* the summaries.
TasksFairness ==
  \A s \in Servers :
    /\ WF_tasksVars(TaskStep(s))
    /\ WF_tasksVars(\E name \in Tasks : SetLock(s, name))

TasksSpec == TasksInit /\ [][TasksNext]_tasksVars /\ TasksFairness

-----------------------------------------------------------------------------
\* A user marked as reminded has a reminder in the mail queue: the mark of
\* sendProfileIncompleteReminders is only ever set after the mail, also when
\* the queue fails, the server crashes or two servers remind at once.
MarkedWasMailed == asked \subseteq mailed

\* Rows past their time are removed in the end, and a user who stays below the
\* threshold is reminded: neither failed attempts nor a lock left behind by a
\* crash keep a task from running again.
Unreminded(u) == cron = Reminders /\ u \notin asked /\ ~ProfileDone(u)
TasksGetDone ==
  /\ \A name \in Sweeps : name \in due ~> name \notin due
  /\ \A u \in Users : Unreminded(u) ~> ~Unreminded(u)

\* scheduler/README.md: "Ensures only one instance executes scheduled tasks in
\* multi-server deployments using Redis".
OneInstanceExecutes ==
  \A s, t \in Servers :
    s # t /\ {task[s].at, task[t].at} \cap {"idle", "check"} = {}
      => task[s].name # task[t].name
=============================================================================
