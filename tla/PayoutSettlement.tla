-------------------------- MODULE PayoutSettlement --------------------------
(***************************************************************************)
(* Settlement of a round's payout: PayoutService.distributePayout          *)
(* (groups/payout.service.ts), the row it keeps in payout_transactions,    *)
(* the Stellar network it submits to, the BullMQ queue                     *)
(* payout-reconciliation-queue and its processor, the five-minute sweep    *)
(* that feeds that queue, and crashes of the server process.               *)
(*                                                                         *)
(* One action per await of distributePayout: between two of them any other *)
(* call, worker or cron tick of the same or another server may run.  A     *)
(* "call" is one invocation of distributePayout; the transaction it builds *)
(* is named after it, so Calls is also the set of transaction hashes.      *)
(***************************************************************************)
EXTENDS Naturals, FiniteSets

CONSTANTS
  Orders,       \* payoutOrderIds, `${groupId}:${round}`
  Calls,        \* invocations of distributePayout, and the hashes they build
  OrderOf,      \* the order each invocation is for
  NoHash,       \* txHash = null
  MaxAttempts,  \* `attempts` of the reconciliation job (5 in the code)
  MaxCrashes    \* bound: crashes of the server process

ASSUME OrderOfAssumption == OrderOf \in [Calls -> Orders]
ASSUME NoHashAssumption == NoHash \notin Calls
ASSUME BoundsAssumption == MaxAttempts \in Nat \ {0} /\ MaxCrashes \in Nat

VARIABLES
  groupActive,  \* group.status = ACTIVE
  pathOrders,   \* orders of groups whose payout asset needs a path payment
  owing,        \* the recipient of the order has PENDING penalties
  received,     \* the recipient's membership.transactionHash; a hash iff
                \* hasReceivedPayout
  row,          \* the payout_transactions row of each order
  pc,           \* where each call of distributePayout stands
  chain,        \* what the network knows of each transaction
  sweep,        \* rows pollUnconfirmedPayouts has read and not yet enqueued
  job,          \* the reconciliation job of each order (jobId = row id)
  work,         \* what the processor handling the job has read
  crashes       \* crashes so far

callVars == <<received, row, pc, chain>>
queueVars == <<sweep, job, work>>
envVars == <<groupActive, pathOrders, owing, crashes>>
vars == <<groupActive, pathOrders, owing, received, row, pc, chain, sweep, job, work, crashes>>

-----------------------------------------------------------------------------
Hashes == Calls \cup {NoHash}

\* PayoutTransactionStatus, and ABSENT where there is no row.
Statuses == {"ABSENT", "PENDING_SUBMISSION", "SUBMITTED", "CONFIRMED", "FAILED"}
Settled == {"CONFIRMED", "FAILED"}

Locations == {"ready", "active", "eligible", "clear", "fresh", "inserted",
              "hashed", "submitted", "saved", "enqueued", "done"}

\* A transaction is unknown to the network, waiting for a ledger, applied,
\* rejected by a ledger, or past its time bounds.
ChainStates == {"none", "pending", "success", "failed", "expired"}

JobStates == {"absent", "waiting", "active", "completed", "failed"}

TypeOK ==
  /\ groupActive \in BOOLEAN
  /\ pathOrders \in SUBSET Orders
  /\ owing \in [Orders -> BOOLEAN]
  /\ received \in [Orders -> Hashes]
  /\ row \in [Orders -> [status : Statuses, hash : Hashes]]
  /\ pc \in [Calls -> Locations]
  /\ chain \in [Calls -> ChainStates]
  /\ sweep \in SUBSET Orders
  /\ job \in [Orders -> [state : JobStates, attempts : 0 .. MaxAttempts]]
  /\ work \in [Orders -> [hash : Hashes, verdict : {"none"} \cup Settled]]
  /\ crashes \in 0 .. MaxCrashes

Absent == [status |-> "ABSENT", hash |-> NoHash]
NoJob == [state |-> "absent", attempts |-> 0]
Idle == [hash |-> NoHash, verdict |-> "none"]

Init ==
  /\ groupActive = TRUE
  /\ pathOrders \in SUBSET Orders
  /\ owing \in [Orders -> BOOLEAN]
  /\ received = [o \in Orders |-> NoHash]
  /\ row = [o \in Orders |-> Absent]
  /\ pc = [c \in Calls |-> "ready"]
  /\ chain = [c \in Calls |-> "none"]
  /\ sweep = {}
  /\ job = [o \in Orders |-> NoJob]
  /\ work = [o \in Orders |-> Idle]
  /\ crashes = 0

-----------------------------------------------------------------------------
(* QueueService.addPayoutReconciliation.  The job id is the row's id, and   *)
(* BullMQ ignores an add whose id it still holds, in whatever state.        *)
AddJob(o) ==
  job' = IF job[o].state = "absent"
         THEN [job EXCEPT ![o] = [state |-> "waiting", attempts |-> 0]]
         ELSE job

\* Call c moves on from location `from` to location `to`.
Goto(c, from, to) == pc[c] = from /\ pc' = [pc EXCEPT ![c] = to]

SetRow(o, status, hash) ==
  row' = [row EXCEPT ![o] = [status |-> status, hash |-> hash]]

\* The group is read and must be ACTIVE.
LoadGroup(c) ==
  /\ Goto(c, "ready", IF groupActive THEN "active" ELSE "done")
  /\ UNCHANGED <<received, row, chain, queueVars, envVars>>

\* The recipient is read and must not have received a payout.
LoadRecipient(c) ==
  /\ Goto(c, "active", IF received[OrderOf[c]] = NoHash THEN "eligible" ELSE "done")
  /\ UNCHANGED <<received, row, chain, queueVars, envVars>>

\* Outstanding penalties block the payout.
CountPenalties(c) ==
  /\ Goto(c, "eligible", IF owing[OrderOf[c]] THEN "done" ELSE "clear")
  /\ UNCHANGED <<received, row, chain, queueVars, envVars>>

\* Mutation of FindExisting: the payout goes ahead without a write-ahead row.
FindExistingNoIntent(c) ==
  LET o == OrderOf[c] IN
  /\ Goto(c, "clear", IF row[o].status = "ABSENT" THEN "inserted" ELSE "done")
  /\ UNCHANGED <<received, row, chain, queueVars, envVars>>

\* An existing row is answered with, whatever its status; a SUBMITTED one is
\* handed to the reconciliation queue again.
FindExisting(c) ==
  LET o == OrderOf[c] IN
  /\ Goto(c, "clear", IF row[o].status = "ABSENT" THEN "fresh" ELSE "done")
  /\ IF row[o].status = "SUBMITTED" THEN AddJob(o) ELSE UNCHANGED job
  /\ UNCHANGED <<received, row, chain, sweep, work, envVars>>

\* Mutation of Insert: a conflict on payoutOrderId is ignored.
InsertOrIgnore(c) ==
  LET o == OrderOf[c] IN
  /\ Goto(c, "fresh", "inserted")
  /\ IF row[o].status = "ABSENT"
     THEN SetRow(o, "PENDING_SUBMISSION", NoHash)
     ELSE UNCHANGED row
  /\ UNCHANGED <<received, chain, queueVars, envVars>>

\* The write-ahead row.  payoutOrderId is unique: the second insert throws.
Insert(c) ==
  LET o == OrderOf[c] IN
  /\ Goto(c, "fresh", IF row[o].status = "ABSENT" THEN "inserted" ELSE "done")
  /\ IF row[o].status = "ABSENT"
     THEN SetRow(o, "PENDING_SUBMISSION", NoHash)
     ELSE UNCHANGED row
  /\ UNCHANGED <<received, chain, queueVars, envVars>>

\* disbursePayout throws before a hash exists (balance, preconditions,
\* simulation, fee cap): the catch block marks the row FAILED.
RejectBeforeHash(c) ==
  /\ OrderOf[c] \notin pathOrders
  /\ Goto(c, "inserted", "done")
  /\ SetRow(OrderOf[c], "FAILED", NoHash)
  /\ UNCHANGED <<received, chain, queueVars, envVars>>

\* Mutation of RecordHash: the callback keeps the hash in memory only.
RecordHashInMemory(c) ==
  /\ OrderOf[c] \notin pathOrders
  /\ Goto(c, "inserted", "hashed")
  /\ UNCHANGED <<received, row, chain, queueVars, envVars>>

\* onBeforeSubmit saves the computed hash before the transaction is sent.
RecordHash(c) ==
  /\ OrderOf[c] \notin pathOrders
  /\ Goto(c, "inserted", "hashed")
  /\ SetRow(OrderOf[c], "PENDING_SUBMISSION", c)
  /\ UNCHANGED <<received, chain, queueVars, envVars>>

\* TransactionBuilder throws: disbursePayout returns a made-up hash without
\* calling onBeforeSubmit and without submitting anything.
MockHash(c) ==
  /\ OrderOf[c] \notin pathOrders
  /\ Goto(c, "inserted", "submitted")
  /\ UNCHANGED <<received, row, chain, queueVars, envVars>>

\* sendTransaction, tried on every RPC endpoint.  The network takes the
\* transaction or not, and the caller gets an answer or an error, in every
\* combination: an accepted transaction's answer may be lost, and an answer
\* with status ERROR is returned like any other.
Send(c) ==
  /\ \E accepted, answered \in BOOLEAN :
       /\ Goto(c, "hashed", IF answered THEN "submitted" ELSE "done")
       /\ chain' = IF accepted THEN [chain EXCEPT ![c] = "pending"] ELSE chain
  /\ UNCHANGED <<received, row, queueVars, envVars>>

\* submitPathPayment sends with no hash recorded.  Errors come back as the
\* outcomes SLIPPAGE_EXCEEDED and FAILED, and so does an accepted transaction
\* whose rate is out of tolerance: both mark the row FAILED.
SubmitPath(c) ==
  /\ OrderOf[c] \in pathOrders
  /\ \E accepted, filled \in BOOLEAN :
       /\ Goto(c, "inserted", IF filled THEN "submitted" ELSE "done")
       /\ chain' = IF accepted THEN [chain EXCEPT ![c] = "pending"] ELSE chain
       /\ IF filled THEN UNCHANGED row ELSE SetRow(OrderOf[c], "FAILED", NoHash)
  /\ UNCHANGED <<received, queueVars, envVars>>

\* status = SUBMITTED and save: the whole entity, as this call last saw it.
SaveSubmitted(c) ==
  /\ Goto(c, "submitted", "saved")
  /\ SetRow(OrderOf[c], "SUBMITTED", c)
  /\ UNCHANGED <<received, chain, queueVars, envVars>>

Enqueue(c) ==
  /\ Goto(c, "saved", "enqueued")
  /\ AddJob(OrderOf[c])
  /\ UNCHANGED <<received, row, chain, sweep, work, envVars>>

\* hasReceivedPayout = true, transactionHash = txHash.
MarkReceived(c) ==
  /\ Goto(c, "enqueued", "done")
  /\ received' = [received EXCEPT ![OrderOf[c]] = c]
  /\ UNCHANGED <<row, chain, queueVars, envVars>>

\* The database or Redis refuses the write a call is about to make.  The
\* entity in memory already holds a hash, so the catch block leaves the row
\* as it is and the call ends in a 502.
PersistenceFails(c) ==
  /\ \/ OrderOf[c] \notin pathOrders /\ Goto(c, "inserted", "done")
     \/ \E from \in {"submitted", "saved", "enqueued"} : Goto(c, from, "done")
  /\ UNCHANGED <<received, row, chain, queueVars, envVars>>

Continue(c) ==
  \/ LoadRecipient(c) \/ CountPenalties(c) \/ FindExisting(c) \/ Insert(c)
  \/ RejectBeforeHash(c) \/ RecordHash(c) \/ MockHash(c) \/ Send(c)
  \/ SubmitPath(c) \/ SaveSubmitted(c) \/ Enqueue(c) \/ MarkReceived(c)
  \/ PersistenceFails(c)

-----------------------------------------------------------------------------
(* The network: an accepted transaction is applied, rejected or times out.  *)
Close(c) ==
  /\ chain[c] = "pending"
  /\ \E s \in {"success", "failed", "expired"} : chain' = [chain EXCEPT ![c] = s]
  /\ UNCHANGED <<received, row, pc, queueVars, envVars>>

-----------------------------------------------------------------------------
\* Rows reconciliation is for: sent, or about to be, under a known hash.
Unconfirmed(r) ==
  r.status \in {"SUBMITTED", "PENDING_SUBMISSION"} /\ r.hash # NoHash

\* Mutation of StartSweep: only PENDING_SUBMISSION rows are swept, as the
\* message logged at startup says.
SweepPendingOnly ==
  /\ sweep' = sweep \cup {o \in Orders : /\ row[o].status = "PENDING_SUBMISSION"
                                        /\ row[o].hash # NoHash}
  /\ sweep' # sweep
  /\ UNCHANGED <<callVars, job, work, envVars>>

\* pollUnconfirmedPayouts, on bootstrap and every five minutes: read the
\* rows, then enqueue them one by one.
StartSweep ==
  /\ sweep' = sweep \cup {o \in Orders : Unconfirmed(row[o])}
  /\ sweep' # sweep
  /\ UNCHANGED <<callVars, job, work, envVars>>

SweepAdd(o) ==
  /\ o \in sweep
  /\ sweep' = sweep \ {o}
  /\ AddJob(o)
  /\ UNCHANGED <<callVars, work, envVars>>

-----------------------------------------------------------------------------
(* The processor.                                                           *)
FinishJob(o, state) == job' = [job EXCEPT ![o].state = state]

\* Mutation of TakeJob: a job retried by hand counts attempts past its limit.
TakeJobUncapped(o) ==
  /\ job[o].state = "waiting"
  /\ IF Unconfirmed(row[o])
     THEN /\ job' = [job EXCEPT ![o] = [state |-> "active", attempts |-> job[o].attempts + 1]]
          /\ work' = [work EXCEPT ![o] = [hash |-> row[o].hash, verdict |-> "none"]]
     ELSE FinishJob(o, "completed") /\ UNCHANGED work
  /\ UNCHANGED <<callVars, sweep, envVars>>

\* A worker takes the job and reads the row: a row with nothing to reconcile
\* completes the job (NOOP).
TakeJob(o) ==
  /\ job[o].state = "waiting"
  /\ IF Unconfirmed(row[o])
     THEN /\ job' = [job EXCEPT ![o] =
                       [state |-> "active",
                        attempts |-> IF job[o].attempts < MaxAttempts
                                     THEN job[o].attempts + 1 ELSE MaxAttempts]]
          /\ work' = [work EXCEPT ![o] = [hash |-> row[o].hash, verdict |-> "none"]]
     ELSE FinishJob(o, "completed") /\ UNCHANGED work
  /\ UNCHANGED <<callVars, sweep, envVars>>

\* Mutation of QueryChain: whatever is not a success counts as a failure.
QueryChainPessimist(o) ==
  /\ job[o].state = "active" /\ work[o].verdict = "none"
  /\ work' = [work EXCEPT ![o].verdict =
                 IF chain[work[o].hash] = "success" THEN "CONFIRMED" ELSE "FAILED"]
  /\ UNCHANGED <<callVars, sweep, job, envVars>>

\* getTransactionStatus has a final answer.
QueryChain(o) ==
  /\ job[o].state = "active" /\ work[o].verdict = "none"
  /\ \/ /\ chain[work[o].hash] = "success"
        /\ work' = [work EXCEPT ![o].verdict = "CONFIRMED"]
     \/ /\ chain[work[o].hash] = "failed"
        /\ work' = [work EXCEPT ![o].verdict = "FAILED"]
  /\ UNCHANGED <<callVars, sweep, job, envVars>>

\* Still pending, unknown to the network, or the RPC failed: the attempt
\* fails, and the last one leaves the job failed and kept.
AttemptFails(o) ==
  /\ job[o].state = "active" /\ work[o].verdict = "none"
  /\ FinishJob(o, IF job[o].attempts >= MaxAttempts THEN "failed" ELSE "waiting")
  /\ work' = [work EXCEPT ![o] = Idle]
  /\ UNCHANGED <<callVars, sweep, envVars>>

SaveVerdict(o) ==
  /\ job[o].state = "active" /\ work[o].verdict # "none"
  /\ SetRow(o, work[o].verdict, work[o].hash)
  /\ FinishJob(o, "completed")
  /\ work' = [work EXCEPT ![o] = Idle]
  /\ UNCHANGED <<received, pc, chain, sweep, envVars>>

\* removeOnComplete drops a completed job after a day; removeOnFail is false.
ExpireJob(o) ==
  /\ job[o].state = "completed"
  /\ job' = [job EXCEPT ![o] = NoJob]
  /\ UNCHANGED <<callVars, sweep, work, envVars>>

\* JobFailureService.retryAll, run by an administrator.
RetryFailedJob(o) ==
  /\ job[o].state = "failed"
  /\ FinishJob(o, "waiting")
  /\ UNCHANGED <<callVars, sweep, work, envVars>>

-----------------------------------------------------------------------------
(* The rest of the system, and crashes.                                     *)
CompleteGroup ==
  /\ groupActive /\ groupActive' = FALSE
  /\ UNCHANGED <<callVars, queueVars, pathOrders, owing, crashes>>

\* A penalty is assessed, or the last one is paid or waived.
ChangePenalty(o) ==
  /\ owing' = [owing EXCEPT ![o] = ~@]
  /\ UNCHANGED <<callVars, queueVars, groupActive, pathOrders, crashes>>

\* Calls in flight are lost; BullMQ hands the stalled jobs out again.
Crash ==
  /\ crashes < MaxCrashes /\ crashes' = crashes + 1
  /\ pc' = [c \in Calls |-> IF pc[c] = "ready" THEN "ready" ELSE "done"]
  /\ sweep' = {}
  /\ job' = [o \in Orders |-> IF job[o].state = "active"
                              THEN [job[o] EXCEPT !.state = "waiting"] ELSE job[o]]
  /\ work' = [o \in Orders |-> Idle]
  /\ UNCHANGED <<received, row, chain, groupActive, pathOrders, owing>>

-----------------------------------------------------------------------------
\* distributePayout, whoever calls it: a round that has closed, or the group's
\* administrator with POST /groups/:id/rounds/:round/payout, at any time.
DistributePayout(c) == LoadGroup(c) \/ Continue(c)

Next ==
  \/ \E c \in Calls : DistributePayout(c) \/ Close(c)
  \/ StartSweep
  \/ \E o \in Orders : \/ SweepAdd(o) \/ TakeJob(o) \/ QueryChain(o)
                       \/ AttemptFails(o) \/ SaveVerdict(o) \/ ExpireJob(o)
                       \/ RetryFailedJob(o) \/ ChangePenalty(o)
  \/ CompleteGroup
  \/ Crash

\* A running call goes on, ledgers close, the cron fires, workers take jobs
\* and finish attempts, and Redis drops old jobs.  Nobody has to start a call,
\* retry a failed job, settle a penalty or crash.
Fairness ==
  /\ \A c \in Calls : WF_vars(Continue(c)) /\ WF_vars(Close(c))
  /\ WF_vars(StartSweep)
  /\ \A o \in Orders : /\ WF_vars(SweepAdd(o)) /\ WF_vars(TakeJob(o))
                       /\ WF_vars(QueryChain(o) \/ AttemptFails(o))
                       /\ WF_vars(SaveVerdict(o)) /\ WF_vars(ExpireJob(o))

Safety == Init /\ [][Next]_vars
Spec == Safety /\ Fairness
-----------------------------------------------------------------------------
CallsFor(o) == {c \in Calls : OrderOf[c] = o}
Broadcast(o) == {c \in CallsFor(o) : chain[c] # "none"}

\* However many callers race, retry or crash, an order reaches the network at
\* most once: the unique payoutOrderId and the existing-row check of
\* distributePayout together stand for "preventing duplicate payouts".
AtMostOneBroadcast ==
  \A c, d \in Calls : chain[c] # "none" /\ chain[d] # "none" /\ OrderOf[c] = OrderOf[d]
                      => c = d

\* A direct payout the network has seen is recorded under its own hash, so
\* that reconciliation can find it after a crash at any point: onBeforeSubmit
\* runs, and is awaited, before sendTransaction.
BroadcastIsRecorded ==
  \A c \in Calls : chain[c] # "none" /\ OrderOf[c] \notin pathOrders
                   => row[OrderOf[c]].hash = c

\* A row CONFIRMED by the processor is a payout the ledger applied, and no
\* order paid directly is FAILED while its transaction was applied.
VerdictIsTrue ==
  \A o \in Orders :
    /\ row[o].status = "CONFIRMED" => \E c \in Broadcast(o) : chain[c] = "success"
    /\ row[o].status = "FAILED" /\ o \notin pathOrders => \A c \in Broadcast(o) : chain[c] = "failed"

\* A member marked as paid carries the hash of the row that stands for the
\* payout, and that row left PENDING_SUBMISSION: distributePayout marks the
\* member last.
ReceivedMatchesRow ==
  \A o \in Orders : received[o] # NoHash
                    => row[o].hash = received[o] /\ row[o].status \in Settled \cup {"SUBMITTED"}

\* What the tables say of a payout is what the chain and the membership say of
\* it: a verdict is that of the chain, and a member marked as paid has a row
\* (distributePayout, PayoutReconciliationProcessor).
RowsTellTheTruth == VerdictIsTrue /\ ReceivedMatchesRow

\* A payout under a recorded hash is settled in the end, or its job has used
\* up its attempts: the sweep enqueues what a crash or a failed enqueue left
\* behind.
SettlesUnlessExhausted ==
  \A o \in Orders : row[o].hash # NoHash
                    ~> row[o].status \in Settled \/ job[o].state = "failed"

\* distributePayout, with its database, its queue, retries and crashes, keeps
\* the promise: write-ahead, at most one submission, at most one marking.
TheOne(hashes) == IF hashes = {} THEN NoHash ELSE CHOOSE c \in hashes : TRUE
SentFor(o) == TheOne(Broadcast(o))

Promise == INSTANCE PayoutPromise WITH
  Hashes <- Calls,
  intended <- {o \in Orders : row[o].status # "ABSENT"},
  sent <- [o \in Orders |-> SentFor(o)],
  marked <- {o \in Orders : received[o] # NoHash}

KeepsPromise == Promise!Spec

-----------------------------------------------------------------------------
\* SLIPPAGE_EXCEEDED means that no fill was accepted, FAILED that the
\* transaction failed: a row FAILED for either paid nobody.
FailedPaidNobody ==
  \A o \in Orders : row[o].status = "FAILED" => \A c \in Broadcast(o) : chain[c] # "success"
=============================================================================
