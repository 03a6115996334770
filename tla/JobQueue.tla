------------------------------ MODULE JobQueue ------------------------------
(***************************************************************************)
(* The BullMQ queues and what is kept of the jobs that fail: attempts,     *)
(* dead letters (dead-letter.service.ts), the table of failures            *)
(* (job-failure.service.ts), the poison-message tracker, and the three ways *)
(* an administrator may have a failed job run again.  One action per await *)
(* of the administrators; a worker's attempt is one step, since what a     *)
(* handler does is the subject of other modules.                           *)
(***************************************************************************)
EXTENDS Integers, FiniteSets

CONSTANTS
  Payloads,         \* what the jobs of this behaviour carry
  Admins,
  Attempts,         \* defaultJobOptions().attempts
  PoisonThreshold,  \* POISON_MESSAGE_THRESHOLD
  MaxTracked,       \* POISON_MESSAGE_MAX_TRACKER_ENTRIES
  MaxJobs,          \* bound: jobs ever added
  MaxJobFaults,     \* bound: crashes and failed calls
  EmitsFailed,      \* does a Queue object emit 'failed'? (Workers do)
  TellsTracker,     \* does anything call recordFailure? (nothing in src does)
  QueueOf           \* the queue of each payload

VARIABLES
  job,        \* the jobs of the queues, by id
  letter,     \* what became of each job's entry in dead-letter-queue
  handing,    \* failed jobs whose onFailed has yet to move them there
  telling,    \* failed attempts whose 'failed' event has yet to be heard
  failures,   \* rows of job_failures, by job and attemptNumber
  tracked,    \* the tracker: consecutive failures of one signature, by job
  admin,      \* what each administrator's request is about to do
  jobFaults

jobsVars == <<job, letter, handing, telling, failures, tracked, admin,
              jobFaults>>

-----------------------------------------------------------------------------
JobIds == 1 .. MaxJobs
Queues == {"email-queue", "push-notification-queue", "trust-score-queue"}
\* The trust-score processor logs a failure and moves nothing; nor does
\* retryDeadLetterJob know of its queue.
KeepsDeadLetters == Queues \ {"trust-score-queue"}
ASSUME JobsAssumption ==
  /\ IsFiniteSet(Payloads) /\ IsFiniteSet(Admins)
  /\ {Attempts, PoisonThreshold, MaxTracked, MaxJobs} \subseteq Nat \ {0}
  /\ MaxJobFaults \in Nat /\ {EmitsFailed, TellsTracker} \subseteq BOOLEAN
  /\ QueueOf \in [Payloads -> Queues]

NoEntry == [state |-> "none"]
Runs == Attempts + 1  \* RetryAll gives a job one attempt more
JobRows == [state : {"waiting", "active", "completed", "failed"},
            payload : Payloads, made : 0 .. Runs]
NoFailure == [status |-> "none"]
FailureRows == [status : {"PENDING", "POISON", "RETRYING"}, isPoison : BOOLEAN,
                retries : Nat]
Tries == JobIds \X (1 .. Runs)
NotCalling == [at |-> "idle"]
Requests == [at : {"add", "mark"}, row : Tries, retries : Nat]
            \cup [at : {"readd", "remove"}, letter : JobIds]

JobsTypeOK ==
  /\ \A i \in JobIds : job[i] \in JobRows \cup {NoEntry}
  /\ letter \in [JobIds -> {"none", "kept", "retried"}]
  /\ handing \subseteq JobIds /\ telling \subseteq Tries
  /\ \A t \in Tries : failures[t] \in FailureRows \cup {NoFailure}
  /\ tracked \in [JobIds -> 0 .. Runs]
  /\ \A a \in Admins : admin[a] \in Requests \cup {NotCalling}
  /\ jobFaults \in 0 .. MaxJobFaults

QueueOfJob(i) == QueueOf[job[i].payload]
Used == {i \in JobIds : job[i] # NoEntry}
IsNewId(i) == i \notin Used /\ \A k \in JobIds : k < i => k \in Used
JobFault == jobFaults < MaxJobFaults /\ jobFaults' = jobFaults + 1

\* queue.add without a jobId of its own.
Enqueued(i, payload) ==
  /\ IsNewId(i)
  /\ job' = [job EXCEPT ![i] = [state |-> "waiting", payload |-> payload,
                                made |-> 0]]

-----------------------------------------------------------------------------
\* Producers and workers.

\* addSendEmail, addSendPushNotification, addRecalculateTrustScores ...
AddJob(i, payload) ==
  /\ \A k \in Used : job[k].payload # payload
  /\ Enqueued(i, payload)
  /\ UNCHANGED <<letter, handing, telling, failures, tracked, admin,
                 jobFaults>>

Process(i) ==
  /\ job[i].state = "waiting"
  /\ job' = [job EXCEPT ![i].state = "active", ![i].made = @ + 1]
  /\ UNCHANGED <<letter, handing, telling, failures, tracked, admin,
                 jobFaults>>

Completed(i) ==
  /\ job[i].state = "active"
  /\ job' = [job EXCEPT ![i].state = "completed"]
  /\ UNCHANGED <<letter, handing, telling, failures, tracked, admin,
                 jobFaults>>

\* What recordFailure and enforceTrackerLimit make of the tracker t: one more
\* of the same signature, one of another, or the first, for which an older
\* entry may have to go.
EnforceTrackerLimit(t, i) ==
  LET seen == {k \in JobIds : t[k] > 0}
  IN  IF Cardinality(seen) <= MaxTracked THEN {t}
      ELSE {[t EXCEPT ![k] = 0] : k \in seen \ {i}}

RecordFailure(t, i, sameSignature) ==
  IF t[i] > 0
  THEN {[t EXCEPT ![i] = IF sameSignature THEN @ + 1 ELSE 1]}
  ELSE EnforceTrackerLimit([t EXCEPT ![i] = 1], i)

\* What onModuleInit of QueueModule subscribes every queue to.
Emit(i, n) ==
  telling' = IF EmitsFailed THEN telling \cup {<<i, n>>} ELSE telling

\* The handler throws.  Every failed attempt is an event, the last one also
\* what onFailed of the processor waits for.
Failed(i) ==
  /\ job[i].state = "active"
  /\ LET last == job[i].made >= Attempts
     IN  /\ job' = [job EXCEPT ![i].state = IF last THEN "failed" ELSE "waiting"]
         /\ handing' = IF last /\ QueueOfJob(i) \in KeepsDeadLetters
                       THEN handing \cup {i} ELSE handing
  /\ Emit(i, job[i].made)
  /\ IF TellsTracker
     THEN \E same \in BOOLEAN : tracked' \in RecordFailure(tracked, i, same)
     ELSE UNCHANGED tracked
  /\ UNCHANGED <<letter, failures, admin, jobFaults>>

MoveToDeadLetter(i) ==
  /\ i \in handing
  /\ handing' = handing \ {i}
  /\ letter' = [letter EXCEPT ![i] = "kept"]
  /\ UNCHANGED <<job, telling, failures, tracked, admin, jobFaults>>

\* The worker stops between the failure and the hand-over.
CrashBeforeHandOver(i) ==
  /\ i \in handing /\ JobFault
  /\ handing' = handing \ {i}
  /\ UNCHANGED <<job, letter, telling, failures, tracked, admin>>

-----------------------------------------------------------------------------
\* The table of failures.

\* Poison when the tracker says so.  An error of the insert is logged.
Persist(i, n) ==
  /\ <<i, n>> \in telling
  /\ telling' = telling \ {<<i, n>>}
  /\ LET poison == tracked[i] >= PoisonThreshold
         new == [status |-> IF poison THEN "POISON" ELSE "PENDING",
                 isPoison |-> poison, retries |-> 0]
     IN  \/ failures' = [failures EXCEPT ![<<i, n>>] = new] /\ UNCHANGED jobFaults
         \/ JobFault /\ UNCHANGED failures
  /\ UNCHANGED <<job, letter, handing, tracked, admin>>

\* An entry not seen for POISON_MESSAGE_SIGNATURE_TTL_MS is dropped when read.
ForgetStale(i) ==
  /\ tracked[i] > 0
  /\ tracked' = [tracked EXCEPT ![i] = 0]
  /\ UNCHANGED <<job, letter, handing, telling, failures, admin, jobFaults>>

ClearJob(i) == tracked' = [tracked EXCEPT ![i] = 0]

-----------------------------------------------------------------------------
\* Administrators: POST admin/dead-letter/:id/retry and .../bulk-retry.

Ask(a, request) == admin' = [admin EXCEPT ![a] = request]

\* A retry by id asks nothing of the status, a bulk retry by filter takes the
\* rows that are PENDING.
FindFailure(a) ==
  /\ admin[a] = NotCalling
  /\ \E t \in Tries :
       /\ failures[t] # NoFailure
       /\ Ask(a, [at |-> "add", row |-> t, retries |-> failures[t].retries])
  /\ UNCHANGED <<job, letter, handing, telling, failures, tracked,
                 jobFaults>>

RetryAdd(a) ==
  /\ admin[a].at = "add"
  /\ LET failed == job[admin[a].row[1]]
     IN  \E i \in JobIds : Enqueued(i, failed.payload)
  /\ Ask(a, [admin[a] EXCEPT !.at = "mark"])
  /\ UNCHANGED <<letter, handing, telling, failures, tracked, jobFaults>>

\* UPDATE with the retryCount read, plus one; then the tracker forgets the job.
RetryMark(a) ==
  /\ admin[a].at = "mark"
  /\ LET t == admin[a].row
     IN  /\ failures' = [failures EXCEPT ![t].status = "RETRYING",
                                         ![t].retries = admin[a].retries + 1]
         /\ ClearJob(t[1])
  /\ Ask(a, NotCalling)
  /\ UNCHANGED <<job, letter, handing, telling, jobFaults>>

\* The call fails, or its server stops: the row stays as it was.
RetryFails(a) ==
  /\ admin[a] # NotCalling /\ JobFault
  /\ Ask(a, NotCalling)
  /\ UNCHANGED <<job, letter, handing, telling, failures, tracked>>

\* POST admin/job-failures/retry-all: the failed jobs themselves, each with one
\* attempt more and the row of its failures counted up.
RetryAll(i) ==
  /\ job[i].state = "failed" /\ job[i].made < Runs
  /\ QueueOfJob(i) = "email-queue"
  /\ job' = [job EXCEPT ![i].state = "waiting"]
  /\ failures' = [t \in Tries |->
       IF t[1] = i /\ failures[t] # NoFailure
       THEN [failures[t] EXCEPT !.retries = @ + 1] ELSE failures[t]]
  /\ ClearJob(i)
  /\ UNCHANGED <<letter, handing, telling, admin, jobFaults>>

\* POST admin/queues/retry: retryDeadLetterJob, whose getJob, add and remove
\* are three calls.  It throws for a queue it does not know.
FindLetter(a) ==
  /\ admin[a] = NotCalling
  /\ \E i \in JobIds :
       /\ letter[i] = "kept" /\ QueueOfJob(i) \in KeepsDeadLetters
       /\ Ask(a, [at |-> "readd", letter |-> i])
  /\ UNCHANGED <<job, letter, handing, telling, failures, tracked,
                 jobFaults>>

\* Mutation of ReAdd: the letter is removed before its job is queued.
ReAddRemoved(a) ==
  /\ admin[a].at = "readd"
  /\ letter' = [letter EXCEPT ![admin[a].letter] = "retried"]
  /\ Ask(a, [admin[a] EXCEPT !.at = "remove"])
  /\ UNCHANGED <<job, handing, telling, failures, tracked, jobFaults>>

ReAdd(a) ==
  /\ admin[a].at = "readd"
  /\ LET old == job[admin[a].letter]
     IN  \E i \in JobIds : Enqueued(i, old.payload)
  /\ Ask(a, [admin[a] EXCEPT !.at = "remove"])
  /\ UNCHANGED <<letter, handing, telling, failures, tracked, jobFaults>>

RemoveLetter(a) ==
  /\ admin[a].at = "remove"
  /\ letter' = [letter EXCEPT ![admin[a].letter] = "retried"]
  /\ Ask(a, NotCalling)
  /\ UNCHANGED <<job, handing, telling, failures, tracked, jobFaults>>

-----------------------------------------------------------------------------
JobsInit ==
  /\ job = [i \in JobIds |-> NoEntry]
  /\ letter = [i \in JobIds |-> "none"]
  /\ handing = {} /\ telling = {}
  /\ failures = [t \in Tries |-> NoFailure]
  /\ tracked = [i \in JobIds |-> 0]
  /\ admin = [a \in Admins |-> NotCalling]
  /\ jobFaults = 0

AdminRequest(a) ==
  \/ FindFailure(a) \/ RetryAdd(a) \/ RetryMark(a) \/ RetryFails(a)
  \/ FindLetter(a) \/ ReAdd(a) \/ RemoveLetter(a)

JobsNext ==
  \/ \E i \in JobIds :
       \/ \E payload \in Payloads : AddJob(i, payload)
       \/ Process(i) \/ Completed(i) \/ Failed(i)
       \/ MoveToDeadLetter(i) \/ CrashBeforeHandOver(i)
       \/ \E n \in 1 .. Runs : Persist(i, n)
       \/ ForgetStale(i) \/ RetryAll(i)
  \/ \E a \in Admins : AdminRequest(a)

JobsSpec == JobsInit /\ [][JobsNext]_jobsVars

-----------------------------------------------------------------------------
QueuedAnew(i) == \E k \in Used : k > i /\ job[k].payload = job[i].payload

\* A row marked RETRYING and a dead letter taken from its queue have another job
\* with their payload: neither a failed call nor a second administrator makes
\* a retry lose the only trace of what failed.
RetriesLoseNothing ==
  /\ \A t \in Tries : failures[t].status = "RETRYING" => QueuedAnew(t[1])
  /\ \A i \in JobIds : letter[i] = "retried" => QueuedAnew(i)

\* poison-message-detector.service.ts: recordFailure is "Called from the global
\* BullMQ 'failed' event handler", so that a job that fails in the same way
\* PoisonThreshold times in a row is recorded as poison (with the tracker large
\* enough, and the failures of one job alike).
PoisonIsMarked ==
  \A t \in Tries : failures[t] # NoFailure /\ t[2] >= PoisonThreshold
                     => failures[t].isPoison
=============================================================================
