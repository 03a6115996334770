------------------------- MODULE ContributionIntake -------------------------
(***************************************************************************)
(* How a contribution is taken in: ContributionsService.createContribution *)
(* under its client's Idempotency-Key, the confirmation job that polls the *)
(* chain for the transaction, and the reconciliation that runs every       *)
(* minute.  One action per await.  Calls are requests, each made with a    *)
(* key; a key stands for the body sent with it: its transaction and its    *)
(* slot (user, group and round).  A row is named by the key it stores,     *)
(* which a unique index makes possible; the unique constraints on the      *)
(* transaction and on the slot are Clash.                                  *)
(***************************************************************************)
EXTENDS Naturals, FiniteSets

CONSTANTS
  Calls,        \* requests,
  Keys,         \* the idempotency keys they carry,
  KeyOf,        \* which request carries which, and
  TxOf,         \* the transaction and
  SlotOf,       \* the slot of a key's body
  Verify,       \* VERIFY_CONTRIBUTIONS
  LockOutlives, \* the lock's 60 seconds outlast every request that holds it
  MaxFaults     \* bound: crashes and database errors

ASSUME KeysAssumption == KeyOf \in [Calls -> Keys]
ASSUME FlagsAssumption == Verify \in BOOLEAN /\ LockOutlives \in BOOLEAN /\ MaxFaults \in Nat

VARIABLES
  row,     \* status of the contribution stored under a key
  lock,    \* contrib:inflight:<key> is set
  at,      \* where each call stands, and
  reply,   \* what it has answered
  job,     \* the confirmation job of a key's contribution
  txLock,  \* tx_confirm:<hash> is set
  recon,   \* what a reconciliation run has found out about a contribution
  chain,   \* the transactions
  faults

callVars == <<at, reply>>
settleVars == <<job, txLock, recon>>
vars == <<row, lock, at, reply, job, txLock, recon, chain, faults>>

-----------------------------------------------------------------------------
Txs == {TxOf[k] : k \in Keys}
Terminal == {"CONFIRMED", "FAILED"}
Statuses == {"PENDING", "ON_CHAIN_SUBMITTED"} \cup Terminal
Steps == {"idle", "lock", "look", "again", "validate", "insert", "mark",
          "enqueue", "release", "wait", "done"}
Working == {"validate", "insert", "mark", "enqueue", "release"}
JobStates == {"none", "waiting", "polling", "done"} \cup Terminal

TypeOK ==
  /\ row \in [Keys -> Statuses \cup {"none"}]
  /\ lock \in [Keys -> BOOLEAN]
  /\ at \in [Calls -> Steps]
  /\ reply \in [Calls -> Statuses \cup {"none", "conflict", "refused", "busy", "error"}]
  /\ job \in [Keys -> JobStates]
  /\ txLock \in [Keys -> BOOLEAN]
  /\ recon \in [Keys -> {"idle", "query"} \cup Terminal]
  /\ chain \in [Txs -> {"unknown", "success", "failed"}]
  /\ faults \in 0 .. MaxFaults

Init ==
  /\ row = [k \in Keys |-> "none"]
  /\ lock = [k \in Keys |-> FALSE]
  /\ at = [c \in Calls |-> "idle"]
  /\ reply = [c \in Calls |-> "none"]
  /\ job = [k \in Keys |-> "none"]
  /\ txLock = [k \in Keys |-> FALSE]
  /\ recon = [k \in Keys |-> "idle"]
  /\ chain = [t \in Txs |-> "unknown"]
  /\ faults = 0

-----------------------------------------------------------------------------
(* createContribution *)

Goto(c, from, to) == at[c] = from /\ at' = [at EXCEPT ![c] = to]

Answer(c, what) == reply' = [reply EXCEPT ![c] = what]

\* The rows a second contribution with k's body would collide with.
Clash(k) == \E j \in Keys : row[j] # "none" /\ (j = k \/ TxOf[j] = TxOf[k] \/ SlotOf[j] = SlotOf[k])

\* The row of the key is looked up: a terminal one is the answer, any other
\* is waited for.
FindByKey(c) ==
  LET status == row[KeyOf[c]] IN
  /\ \/ status \in Terminal /\ Goto(c, "idle", "done") /\ Answer(c, status)
     \/ status \notin Terminal \cup {"none"} /\ Goto(c, "idle", "wait") /\ UNCHANGED reply
     \/ status = "none" /\ Goto(c, "idle", "lock") /\ UNCHANGED reply
  /\ UNCHANGED <<row, lock, settleVars, chain, faults>>

\* SET NX EX: the row is not looked up again once the lock is had.
AcquireLock(c) ==
  /\ Goto(c, "lock", IF lock[KeyOf[c]] THEN "look" ELSE "validate")
  /\ lock' = [lock EXCEPT ![KeyOf[c]] = TRUE]
  /\ UNCHANGED <<row, reply, settleVars, chain, faults>>

\* Mutation of FindAgain: a caller without the lock passes through finally.
FindAgainReleases(c) ==
  LET found == row[KeyOf[c]] # "none" IN
  /\ \/ Goto(c, "look", IF found THEN "wait" ELSE "again") /\ UNCHANGED reply
     \/ found /\ Goto(c, "again", "wait") /\ UNCHANGED reply
     \/ ~found /\ Goto(c, "again", "release") /\ Answer(c, "busy")
  /\ UNCHANGED <<row, lock, settleVars, chain, faults>>

\* Without the lock the row is looked for twice, half a second apart.
FindAgain(c) ==
  LET found == row[KeyOf[c]] # "none" IN
  /\ \/ Goto(c, "look", IF found THEN "wait" ELSE "again") /\ UNCHANGED reply
     \/ found /\ Goto(c, "again", "wait") /\ UNCHANGED reply
     \/ ~found /\ Goto(c, "again", "done") /\ Answer(c, "busy")
  /\ UNCHANGED <<row, lock, settleVars, chain, faults>>

\* Group, membership, window and round are checked, then, unless that is
\* switched off, the transaction: it has to be a success on chain, and to
\* carry enough at the rate locked for it.  What the checks find is open.
Validate(c) ==
  /\ \/ /\ Verify => chain[TxOf[KeyOf[c]]] = "success"
        /\ Goto(c, "validate", "insert")
        /\ UNCHANGED reply
     \/ Goto(c, "validate", "release") /\ Answer(c, "refused")
  /\ UNCHANGED <<row, lock, settleVars, chain, faults>>

\* INSERT ... ON CONFLICT DO NOTHING.
Insert(c) ==
  LET k == KeyOf[c] IN
  /\ \/ ~Clash(k) /\ Goto(c, "insert", "mark") /\ row' = [row EXCEPT ![k] = "PENDING"] /\ UNCHANGED reply
     \/ Clash(k) /\ Goto(c, "insert", "release") /\ Answer(c, "conflict") /\ UNCHANGED row
  /\ UNCHANGED <<lock, settleVars, chain, faults>>

MarkSubmitted(c) ==
  /\ Goto(c, "mark", "enqueue")
  /\ row' = [row EXCEPT ![KeyOf[c]] = "ON_CHAIN_SUBMITTED"]
  /\ UNCHANGED <<lock, reply, settleVars, chain, faults>>

\* addTxConfirmation is not awaited, and its failure only logged.
Enqueue(c) ==
  LET k == KeyOf[c] IN
  /\ Goto(c, "enqueue", "release")
  /\ Answer(c, "ON_CHAIN_SUBMITTED")
  /\ job' \in {job, [job EXCEPT ![k] = "waiting"]}
  /\ UNCHANGED <<row, lock, txLock, recon, chain, faults>>

\* The finally block deletes the key of the lock, whoever set it.
Release(c) ==
  /\ Goto(c, "release", "done")
  /\ lock' = [lock EXCEPT ![KeyOf[c]] = FALSE]
  /\ UNCHANGED <<row, reply, settleVars, chain, faults>>

\* waitForInFlight returns a terminal row, or, after 55 seconds, any.
PollInFlight(c) ==
  /\ Goto(c, "wait", "done")
  /\ Answer(c, row[KeyOf[c]])
  /\ UNCHANGED <<row, lock, settleVars, chain, faults>>

\* The database or the network fails under a call: the error goes through
\* the finally block.
CallFails(c) ==
  /\ faults < MaxFaults /\ faults' = faults + 1
  /\ at[c] \in Working \ {"release"}
  /\ Goto(c, at[c], "release") /\ Answer(c, "error")
  /\ UNCHANGED <<row, lock, settleVars, chain>>

\* Its process dies: nothing is released.
Crash(c) ==
  /\ faults < MaxFaults /\ faults' = faults + 1
  /\ at[c] \in Working
  /\ Goto(c, at[c], "done") /\ Answer(c, "error")
  /\ UNCHANGED <<row, lock, settleVars, chain>>

LockExpires(k) ==
  /\ lock[k]
  /\ LockOutlives => \A c \in Calls : KeyOf[c] = k => at[c] \notin Working
  /\ lock' = [lock EXCEPT ![k] = FALSE]
  /\ UNCHANGED <<row, callVars, settleVars, chain, faults>>

-----------------------------------------------------------------------------
(* The confirmation job, of TxConfirmationProcessor *)

\* Another job polling the same transaction makes this one a duplicate.
TakeJob(k) ==
  /\ job[k] = "waiting"
  /\ job' = [job EXCEPT ![k] = IF txLock[k] THEN "done" ELSE "polling"]
  /\ txLock' = [txLock EXCEPT ![k] = TRUE]
  /\ UNCHANGED <<row, lock, callVars, recon, chain, faults>>

\* What getTransactionStatus makes of a transaction it could fetch.
Verdict(t) == IF chain[t] = "success" THEN "CONFIRMED" ELSE "FAILED"

\* A poll that fails, or finds nothing, is followed by another.
PollChain(k) ==
  /\ job[k] = "polling" /\ chain[TxOf[k]] # "unknown"
  /\ job' = [job EXCEPT ![k] = Verdict(TxOf[k])]
  /\ UNCHANGED <<row, lock, callVars, txLock, recon, chain, faults>>

\* The deadline counts from the enqueueing: it may be over before the first
\* poll, and is not checked against the chain.
Deadline(k) ==
  /\ job[k] = "polling"
  /\ job' = [job EXCEPT ![k] = "FAILED"]
  /\ UNCHANGED <<row, lock, callVars, txLock, recon, chain, faults>>

\* Whatever the row has become meanwhile.
Settle(k) ==
  /\ job[k] \in Terminal
  /\ row' = [row EXCEPT ![k] = job[k]]
  /\ job' = [job EXCEPT ![k] = "done"]
  /\ txLock' = [txLock EXCEPT ![k] = FALSE]
  /\ UNCHANGED <<lock, callVars, recon, chain, faults>>

\* The worker dies: BullMQ hands the stalled job out again, the lock stays.
WorkerCrash(k) ==
  /\ faults < MaxFaults /\ faults' = faults + 1
  /\ job[k] \in Terminal \cup {"polling"}
  /\ job' = [job EXCEPT ![k] = "waiting"]
  /\ UNCHANGED <<row, lock, callVars, txLock, recon, chain>>

TxLockExpires(k) ==
  /\ txLock[k] /\ job[k] \notin Terminal \cup {"polling"}
  /\ txLock' = [txLock EXCEPT ![k] = FALSE]
  /\ UNCHANGED <<row, lock, callVars, job, recon, chain, faults>>

-----------------------------------------------------------------------------
(* reconcileStuckContributions *)

\* Mutation of ReconcileFind: only rows that never left PENDING are stuck.
ReconcileFindPending(k) ==
  /\ row[k] = "PENDING" /\ recon[k] = "idle"
  /\ recon' = [recon EXCEPT ![k] = "query"]
  /\ UNCHANGED <<row, lock, callVars, job, txLock, chain, faults>>

ReconcileFind(k) ==
  /\ row[k] = "ON_CHAIN_SUBMITTED" /\ recon[k] = "idle"
  /\ recon' = [recon EXCEPT ![k] = "query"]
  /\ UNCHANGED <<row, lock, callVars, job, txLock, chain, faults>>

ReconcileQuery(k) ==
  /\ recon[k] = "query"
  /\ \/ chain[TxOf[k]] # "unknown" /\ recon' = [recon EXCEPT ![k] = Verdict(TxOf[k])]
     \/ recon' = [recon EXCEPT ![k] = "idle"]
  /\ UNCHANGED <<row, lock, callVars, job, txLock, chain, faults>>

\* An update by id, whatever the row has become meanwhile.
ReconcileSave(k) ==
  /\ recon[k] \in Terminal
  /\ row' = [row EXCEPT ![k] = recon[k]]
  /\ recon' = [recon EXCEPT ![k] = "idle"]
  /\ UNCHANGED <<lock, callVars, job, txLock, chain, faults>>

\* The network decides on a transaction, once.
Close(t) ==
  /\ chain[t] = "unknown"
  /\ \E outcome \in {"success", "failed"} : chain' = [chain EXCEPT ![t] = outcome]
  /\ UNCHANGED <<row, lock, callVars, settleVars, faults>>

-----------------------------------------------------------------------------
Continue(c) ==
  \/ AcquireLock(c) \/ FindAgain(c) \/ Validate(c) \/ Insert(c)
  \/ MarkSubmitted(c) \/ Enqueue(c) \/ Release(c) \/ PollInFlight(c)

Work(k) == TakeJob(k) \/ PollChain(k) \/ Deadline(k) \/ Settle(k)

Reconcile(k) == ReconcileFind(k) \/ ReconcileQuery(k) \/ ReconcileSave(k)

\* POST /internal/contributions, from the request to the answer of any sort.
CreateContribution(c) == FindByKey(c) \/ Continue(c) \/ CallFails(c)

Next ==
  \/ \E c \in Calls : CreateContribution(c) \/ Crash(c)
  \/ \E k \in Keys : LockExpires(k) \/ Work(k) \/ WorkerCrash(k) \/ TxLockExpires(k) \/ Reconcile(k)
  \/ \E t \in Txs : Close(t)

\* Calls that have begun go on, locks expire, the network closes ledgers,
\* workers and the cron task run, and the chain does not fail to answer the
\* reconciliation for ever.  Nobody has to make a call.
Fairness ==
  /\ \A c \in Calls : WF_vars(Continue(c))
  /\ \A k \in Keys : WF_vars(LockExpires(k)) /\ WF_vars(Work(k)) /\ WF_vars(Reconcile(k))
                     /\ SF_vars(ReconcileQuery(k) /\ recon'[k] \in Terminal)
  /\ \A t \in Txs : WF_vars(Close(t))

Spec == Init /\ [][Next]_vars /\ Fairness

-----------------------------------------------------------------------------
(* While the lock outlives the requests, no two calls with one key are at
   the validation, the insert or the submission at a time, although each
   deletes the lock without asking whose it is: the callers it turned away
   must not get there (the in-flight lock of createContribution). *)
Submitting(c) == at[c] \in Working \ {"release"}
OneSubmitterPerKey ==
  LockOutlives => \A c, d \in Calls :
    c # d /\ KeyOf[c] = KeyOf[d] => ~(Submitting(c) /\ Submitting(d))

(* CONFIRMED is never said, in a row or to a client, of a transaction the
   chain has not applied. *)
ConfirmedIsOnChain ==
  /\ \A k \in Keys : row[k] = "CONFIRMED" => chain[TxOf[k]] = "success"
  /\ \A c \in Calls : reply[c] = "CONFIRMED" => chain[TxOf[KeyOf[c]]] = "success"

(* No write that was under way when a contribution was settled takes it
   back to a state before: neither markings nor settlements check the status
   they replace. *)
NeverUnsettled ==
  [][\A k \in Keys : row[k] \in Terminal => row'[k] \in Terminal]_vars

(* The lock of a key becomes free again, also when its holder has died. *)
LockIsFreed == \A k \in Keys : lock[k] ~> ~lock[k]

(* A contribution that has been submitted reaches a terminal state, whether
   or not its confirmation job was enqueued and whatever worker or request
   dies ("reconciliation will eventually resolve it"); one that is stored as
   PENDING does unless a request has failed, since only submitted ones are
   reconciled. *)
EveryRecordSettles ==
  \A k \in Keys :
    /\ row[k] = "ON_CHAIN_SUBMITTED" ~> row[k] \in Terminal
    /\ row[k] = "PENDING" ~> row[k] \in Terminal \/ faults > 0

(* What was submitted is settled, by what the chain says, and stays so, and
   the lock of a request that died does not stay (createContribution,
   reconcileStuckContributions). *)
RecordsSettle ==
  /\ []ConfirmedIsOnChain /\ NeverUnsettled
  /\ LockIsFreed /\ EveryRecordSettles

-----------------------------------------------------------------------------
\* Requests that are retries of one key, and bodies that have nothing in common.
OneKey == [c \in Calls |-> CHOOSE k \in Keys : TRUE]
OwnBody == [k \in Keys |-> k]
=============================================================================
