---------------------- MODULE ContributionIntakeProofs ----------------------
(* The in-flight lock of createContribution has no owner, and every request *)
(* deletes it in its finally block.  It excludes all the same, as long as   *)
(* it outlives its holders, because only a request that holds it reaches    *)
(* that block: Holding below, which is inductive together with the types.   *)
(* SettledInv needs no lock: a row has one writer until it is marked.       *)
EXTENDS ContributionIntake, TLAPS

\* A request that is past the lock holds it, and no other with its key is.
Holding ==
  LockOutlives => \A c \in Calls : at[c] \in Working =>
    /\ lock[KeyOf[c]]
    /\ \A d \in Calls : KeyOf[d] = KeyOf[c] /\ at[d] \in Working => d = c

LockTypes ==
  /\ at \in [Calls -> Steps]
  /\ lock \in [Keys -> BOOLEAN]

HInv == LockTypes /\ Holding

LEMMA HoldingInit == Init => HInv
BY DEF Init, HInv, LockTypes, Holding, Steps, Working

\* A call that goes on, within or out of the part the lock protects, and
\* leaves the lock alone.
LEMMA StayOrLeave ==
  ASSUME HInv, NEW c \in Calls, NEW s \in Steps,
         s \in Working => at[c] \in Working,
         at' = [at EXCEPT ![c] = s], lock' = lock
  PROVE  HInv'
BY DEF HInv, LockTypes, Holding

\* The call that deletes the lock is the one that holds it.
LEMMA ReleaseKeeps ==
  ASSUME HInv, NEW c \in Calls, Release(c)
  PROVE  HInv'
<1>1. at[c] = "release" /\ at' = [at EXCEPT ![c] = "done"] /\ lock' = [lock EXCEPT ![KeyOf[c]] = FALSE]
  BY DEF Release, Goto
<1>2. LockTypes'
  BY <1>1 DEF HInv, LockTypes, Steps
<1>3. Holding'
  <2> SUFFICES ASSUME LockOutlives, NEW d \in Calls, at'[d] \in Working
               PROVE  /\ lock'[KeyOf[d]]
                      /\ \A e \in Calls : KeyOf[e] = KeyOf[d] /\ at'[e] \in Working => e = d
    BY DEF Holding
  <2>1. d # c /\ at[d] \in Working
    BY <1>1 DEF HInv, LockTypes, Working
  <2>2. KeyOf[d] # KeyOf[c]
    BY <1>1, <2>1 DEF HInv, Holding, Working
  <2> QED
    BY <1>1, <2>1, <2>2, KeysAssumption DEF HInv, LockTypes, Holding, Working
<1> QED
  BY <1>2, <1>3 DEF HInv

\* The call that gets past the lock has found it free, so nobody holds it.
LEMMA AcquireKeeps ==
  ASSUME HInv, NEW c \in Calls, AcquireLock(c)
  PROVE  HInv'
<1>1. /\ at[c] = "lock"
      /\ at' = [at EXCEPT ![c] = IF lock[KeyOf[c]] THEN "look" ELSE "validate"]
      /\ lock' = [lock EXCEPT ![KeyOf[c]] = TRUE]
  BY DEF AcquireLock, Goto
<1>2. LockTypes'
  BY <1>1 DEF HInv, LockTypes, Steps
<1>3. Holding'
  <2> SUFFICES ASSUME LockOutlives, NEW d \in Calls, at'[d] \in Working
               PROVE  /\ lock'[KeyOf[d]]
                      /\ \A e \in Calls : KeyOf[e] = KeyOf[d] /\ at'[e] \in Working => e = d
    BY DEF Holding
  <2>1. CASE lock[KeyOf[c]]
    BY <1>1, <2>1, KeysAssumption DEF HInv, LockTypes, Holding, Working
  <2>2. CASE ~lock[KeyOf[c]]
    <3>1. \A e \in Calls : at[e] \in Working => KeyOf[e] # KeyOf[c]
      BY <2>2 DEF HInv, Holding
    <3>2. \A e \in Calls : at'[e] = IF e = c THEN "validate" ELSE at[e]
      BY <1>1, <2>2 DEF HInv, LockTypes
    <3>3. \A k \in Keys : lock'[k] = (k = KeyOf[c] \/ lock[k])
      BY <1>1, KeysAssumption DEF HInv, LockTypes
    <3> QED
      BY <3>1, <3>2, <3>3, KeysAssumption DEF HInv, Holding
  <2> QED
    BY <2>1, <2>2
<1> QED
  BY <1>2, <1>3 DEF HInv

\* Time only runs out on a lock nobody holds.
LEMMA ExpiryKeeps ==
  ASSUME HInv, NEW k \in Keys, LockExpires(k)
  PROVE  HInv'
BY KeysAssumption DEF HInv, LockTypes, Holding, LockExpires, callVars

LEMMA HoldingStep == HInv /\ [Next]_vars => HInv'
<1> SUFFICES ASSUME HInv, [Next]_vars
             PROVE  HInv'
  OBVIOUS
<1>1. ASSUME NEW c \in Calls, FindByKey(c)
      PROVE  HInv'
  BY <1>1, StayOrLeave DEF FindByKey, Goto, Steps, Working
<1>2. ASSUME NEW c \in Calls, Continue(c)
      PROVE  HInv'
  <2>1. CASE AcquireLock(c)
    BY <2>1, AcquireKeeps
  <2>2. CASE FindAgain(c)
    BY <2>2, StayOrLeave DEF FindAgain, Goto, Steps, Working
  <2>3. CASE Validate(c)
    BY <2>3, StayOrLeave DEF Validate, Goto, Steps, Working
  <2>4. CASE Insert(c)
    BY <2>4, StayOrLeave DEF Insert, Goto, Steps, Working
  <2>5. CASE MarkSubmitted(c)
    BY <2>5, StayOrLeave DEF MarkSubmitted, Goto, Steps, Working
  <2>6. CASE Enqueue(c)
    BY <2>6, StayOrLeave DEF Enqueue, Goto, Steps, Working
  <2>7. CASE Release(c)
    BY <2>7, ReleaseKeeps
  <2>8. CASE PollInFlight(c)
    BY <2>8, StayOrLeave DEF PollInFlight, Goto, Steps, Working
  <2> QED
    BY <1>2, <2>1, <2>2, <2>3, <2>4, <2>5, <2>6, <2>7, <2>8 DEF Continue
<1>3. ASSUME NEW c \in Calls, CallFails(c) \/ Crash(c)
      PROVE  HInv'
  BY <1>3, StayOrLeave DEF CallFails, Crash, Goto, Steps, Working
<1>4. ASSUME NEW k \in Keys, LockExpires(k)
      PROVE  HInv'
  BY <1>4, ExpiryKeeps
<1>5. ASSUME UNCHANGED <<at, lock>>
      PROVE  HInv'
  BY <1>5 DEF HInv, LockTypes, Holding
<1>6. ASSUME NEW k \in Keys, Work(k) \/ WorkerCrash(k) \/ TxLockExpires(k) \/ Reconcile(k)
      PROVE  UNCHANGED <<at, lock>>
  BY <1>6 DEF Work, WorkerCrash, TxLockExpires, Reconcile, TakeJob, PollChain, Deadline,
              Settle, ReconcileFind, ReconcileQuery, ReconcileSave, callVars
<1>7. ASSUME NEW t \in Txs, Close(t)
      PROVE  UNCHANGED <<at, lock>>
  BY <1>7 DEF Close, callVars
<1>8. CASE UNCHANGED vars
  BY <1>5, <1>8 DEF vars
<1> QED
  BY <1>1, <1>2, <1>3, <1>4, <1>5, <1>6, <1>7, <1>8 DEF Next, CreateContribution

(* As long as the in-flight lock outlives the requests that hold it, at most
   one request per idempotency key validates, inserts or submits at a time,
   for any number of requests, keys, errors and crashes. *)
THEOREM SerialisesRetries == Spec => []OneSubmitterPerKey
<1>1. HInv => OneSubmitterPerKey
  BY DEF HInv, Holding, OneSubmitterPerKey, Submitting
<1> QED
  BY HoldingInit, HoldingStep, <1>1, PTL DEF Spec

-----------------------------------------------------------------------------
(* Settlement. *)

\* A row is stored, marked and enqueued by one call, in this order, and neither
\* the job nor the reconciliation knows of it before it is marked.
OneWriter ==
  /\ \A k \in Keys : row[k] \in {"none", "PENDING"} => job[k] = "none" /\ recon[k] = "idle"
  /\ \A c \in Calls : at[c] = "mark" => row[KeyOf[c]] = "PENDING"
  /\ \A c \in Calls : at[c] = "enqueue" => row[KeyOf[c]] \notin {"none", "PENDING"}
  /\ \A c, d \in Calls : at[c] = "mark" /\ at[d] = "mark" /\ KeyOf[c] = KeyOf[d] => c = d

\* What a job or a reconciliation has found out is what the chain says.
VerdictsAreTrue ==
  \A k \in Keys : job[k] = "CONFIRMED" \/ recon[k] = "CONFIRMED" => chain[TxOf[k]] = "success"

SettleTypes ==
  /\ row \in [Keys -> Statuses \cup {"none"}]
  /\ at \in [Calls -> Steps] /\ DOMAIN reply = Calls
  /\ job \in [Keys -> JobStates]
  /\ recon \in [Keys -> {"idle", "query"} \cup Terminal]
  /\ chain \in [Txs -> {"unknown", "success", "failed"}]

SettledInv == SettleTypes /\ OneWriter /\ VerdictsAreTrue /\ ConfirmedIsOnChain

\* No row is taken back, which is what NeverUnsettled says of a step.
Kept == \A k \in Keys : row[k] \in Terminal => row'[k] \in Terminal

LEMMA SettledInit == Init => SettledInv
BY DEF Init, SettledInv, SettleTypes, OneWriter, VerdictsAreTrue, ConfirmedIsOnChain,
   Steps, Statuses, JobStates, Terminal

\* A call that goes on and leaves the row to others, or answers with it.
LEMMA CallMoves ==
  ASSUME SettledInv, NEW c \in Calls, NEW s \in Steps \ {"mark", "enqueue"}, NEW what,
         at' = [at EXCEPT ![c] = s],
         reply' = reply \/ reply' = [reply EXCEPT ![c] = what],
         what = "CONFIRMED" => row[KeyOf[c]] = "CONFIRMED",
         UNCHANGED <<row, job, recon, chain>>
  PROVE  SettledInv' /\ Kept
<1> USE KeysAssumption DEF SettledInv, SettleTypes
<1>1. SettleTypes'
  OBVIOUS
<1>2. OneWriter'
  BY DEF OneWriter
<1>3. VerdictsAreTrue' /\ ConfirmedIsOnChain'
  BY DEF VerdictsAreTrue, ConfirmedIsOnChain, Txs
<1> QED
  BY <1>1, <1>2, <1>3 DEF Kept

LEMMA InsertSettles ==
  ASSUME SettledInv, NEW c \in Calls, Insert(c)
  PROVE  SettledInv' /\ Kept
<1> DEFINE k == KeyOf[c]
<1>1. k \in Keys
  BY KeysAssumption
<1>2. CASE Clash(k)
  BY <1>2, CallMoves DEF Insert, Goto, Answer, Steps, settleVars
<1>3. CASE ~Clash(k)
  <2>1. /\ row[k] = "none" /\ row' = [row EXCEPT ![k] = "PENDING"]
        /\ at[c] = "insert" /\ at' = [at EXCEPT ![c] = "mark"]
        /\ UNCHANGED <<reply, job, recon, chain>>
    BY <1>1, <1>3 DEF Insert, Clash, Goto, settleVars
  <2> HIDE DEF k
  <2>2. \A d \in Calls : at[d] = "mark" => KeyOf[d] # k
    BY <2>1 DEF SettledInv, OneWriter
  <2>3. SettleTypes'
    BY <1>1, <2>1 DEF SettledInv, SettleTypes, Steps, Statuses
  <2>4. OneWriter'
    BY <1>1, <2>1, <2>2, KeysAssumption DEF SettledInv, SettleTypes, OneWriter, k
  <2>5. VerdictsAreTrue' /\ ConfirmedIsOnChain'
    BY <1>1, <2>1 DEF SettledInv, SettleTypes, VerdictsAreTrue, ConfirmedIsOnChain
  <2>6. Kept
    BY <1>1, <2>1 DEF Kept, Terminal, SettledInv, SettleTypes
  <2> QED
    BY <2>3, <2>4, <2>5, <2>6 DEF SettledInv
<1> QED
  BY <1>2, <1>3

LEMMA MarkSettles ==
  ASSUME SettledInv, NEW c \in Calls, MarkSubmitted(c)
  PROVE  SettledInv' /\ Kept
<1> DEFINE k == KeyOf[c]
<1>1. k \in Keys
  BY KeysAssumption
<1>2. /\ at[c] = "mark" /\ at' = [at EXCEPT ![c] = "enqueue"]
      /\ row' = [row EXCEPT ![k] = "ON_CHAIN_SUBMITTED"]
      /\ UNCHANGED <<reply, job, recon, chain>>
  BY DEF MarkSubmitted, Goto, settleVars
<1>3. row[k] = "PENDING" /\ \A d \in Calls : at[d] = "mark" /\ KeyOf[d] = k => d = c
  BY <1>2 DEF SettledInv, OneWriter
<1>4. SettleTypes'
  BY <1>1, <1>2 DEF SettledInv, SettleTypes, Steps, Statuses
<1>5. OneWriter'
  <2> HIDE DEF k
  <2>1. \A j \in Keys : row'[j] = IF j = k THEN "ON_CHAIN_SUBMITTED" ELSE row[j]
    BY <1>2 DEF SettledInv, SettleTypes
  <2>2. \A d \in Calls : /\ at'[d] = IF d = c THEN "enqueue" ELSE at[d]
                         /\ KeyOf[d] \in Keys
    BY <1>2, KeysAssumption DEF SettledInv, SettleTypes
  <2>3. KeyOf[c] = k
    BY DEF k
  <2> QED
    BY <1>2, <1>3, <2>1, <2>2, <2>3 DEF SettledInv, OneWriter
<1>6. VerdictsAreTrue' /\ ConfirmedIsOnChain'
  BY <1>1, <1>2 DEF SettledInv, SettleTypes, VerdictsAreTrue, ConfirmedIsOnChain
<1>7. Kept
  BY <1>1, <1>2, <1>3 DEF Kept, Terminal, SettledInv, SettleTypes
<1> QED
  BY <1>4, <1>5, <1>6, <1>7 DEF SettledInv

LEMMA EnqueueSettles ==
  ASSUME SettledInv, NEW c \in Calls, Enqueue(c)
  PROVE  SettledInv' /\ Kept
<1> DEFINE k == KeyOf[c]
<1>1. k \in Keys
  BY KeysAssumption
<1>2. /\ at[c] = "enqueue" /\ at' = [at EXCEPT ![c] = "release"]
      /\ reply' = [reply EXCEPT ![c] = "ON_CHAIN_SUBMITTED"]
      /\ job' \in {job, [job EXCEPT ![k] = "waiting"]}
      /\ UNCHANGED <<row, recon, chain>>
  BY DEF Enqueue, Goto, Answer
<1>3. row[k] \notin {"none", "PENDING"}
  BY <1>2 DEF SettledInv, OneWriter
<1> HIDE DEF k
<1>4. SettleTypes'
  BY <1>1, <1>2 DEF SettledInv, SettleTypes, Steps, JobStates
<1>5. OneWriter'
  BY <1>1, <1>2, <1>3 DEF SettledInv, SettleTypes, OneWriter
<1>6. VerdictsAreTrue' /\ ConfirmedIsOnChain'
  BY <1>1, <1>2 DEF SettledInv, SettleTypes, VerdictsAreTrue, ConfirmedIsOnChain
<1>7. Kept
  BY <1>2 DEF Kept
<1> QED
  BY <1>4, <1>5, <1>6, <1>7 DEF SettledInv

LEMMA CreateSettles ==
  ASSUME SettledInv, NEW c \in Calls, CreateContribution(c) \/ Crash(c)
  PROVE  SettledInv' /\ Kept
<1> USE DEF Goto, Answer, Steps, settleVars
<1>1. CASE FindByKey(c)
  BY <1>1, CallMoves DEF FindByKey
<1>2. CASE AcquireLock(c)
  BY <1>2, CallMoves DEF AcquireLock
<1>3. CASE FindAgain(c)
  BY <1>3, CallMoves DEF FindAgain
<1>4. CASE Validate(c)
  BY <1>4, CallMoves DEF Validate
<1>5. CASE Release(c)
  BY <1>5, CallMoves DEF Release
<1>6. CASE PollInFlight(c)
  BY <1>6, CallMoves DEF PollInFlight
<1>7. CASE CallFails(c) \/ Crash(c)
  BY <1>7, CallMoves DEF CallFails, Crash
<1> QED
  BY <1>1, <1>2, <1>3, <1>4, <1>5, <1>6, <1>7, InsertSettles, MarkSettles, EnqueueSettles
     DEF CreateContribution, Continue

\* The job or the reconciliation of a row that is past PENDING goes on, to
\* what the chain says if it has been found out.
LEMMA FindingMoves ==
  ASSUME SettledInv, NEW k \in Keys, row[k] \notin {"none", "PENDING"},
         UNCHANGED <<row, at, reply, chain>>,
         job' \in [Keys -> JobStates], recon' \in [Keys -> {"idle", "query"} \cup Terminal],
         \A j \in Keys \ {k} : job'[j] = job[j] /\ recon'[j] = recon[j],
         job'[k] = "CONFIRMED" \/ recon'[k] = "CONFIRMED" => chain[TxOf[k]] = "success"
  PROVE  SettledInv' /\ Kept
<1>1. SettleTypes'
  BY DEF SettledInv, SettleTypes, Txs
<1>2. OneWriter'
  BY DEF SettledInv, OneWriter
<1>3. VerdictsAreTrue' /\ ConfirmedIsOnChain'
  BY DEF SettledInv, VerdictsAreTrue, ConfirmedIsOnChain
<1> QED
  BY <1>1, <1>2, <1>3 DEF Kept, SettledInv

\* What has been found out is written.
LEMMA WriteSettles ==
  ASSUME SettledInv, NEW k \in Keys, NEW what \in Terminal,
         row[k] \notin {"none", "PENDING"},
         what = "CONFIRMED" => chain[TxOf[k]] = "success",
         row' = [row EXCEPT ![k] = what],
         job' = job \/ job' = [job EXCEPT ![k] = "done"],
         recon' = recon \/ recon' = [recon EXCEPT ![k] = "idle"],
         UNCHANGED <<at, reply, chain>>
  PROVE  SettledInv' /\ Kept
<1> USE DEF SettledInv, SettleTypes, Terminal
<1>1. SettleTypes'
  BY DEF Statuses, JobStates, Txs
<1>2. OneWriter'
  BY KeysAssumption DEF OneWriter
<1>3. VerdictsAreTrue' /\ ConfirmedIsOnChain'
  BY DEF VerdictsAreTrue, ConfirmedIsOnChain
<1> QED
  BY <1>1, <1>2, <1>3 DEF Kept

LEMMA WorkSettles ==
  ASSUME SettledInv, NEW k \in Keys, Work(k) \/ WorkerCrash(k) \/ Reconcile(k)
  PROVE  SettledInv' /\ Kept
<1> USE DEF callVars, JobStates, Terminal
<1>1. job[k] # "none" \/ recon[k] # "idle" => row[k] \notin {"none", "PENDING"}
  BY DEF SettledInv, OneWriter
<1>2. job \in [Keys -> JobStates] /\ recon \in [Keys -> {"idle", "query"} \cup Terminal]
      /\ (job[k] = "CONFIRMED" \/ recon[k] = "CONFIRMED" => chain[TxOf[k]] = "success")
  BY DEF SettledInv, SettleTypes, VerdictsAreTrue
<1>3. chain[TxOf[k]] # "unknown" => /\ Verdict(TxOf[k]) \in Terminal
                                    /\ Verdict(TxOf[k]) = "CONFIRMED" => chain[TxOf[k]] = "success"
  BY DEF Verdict
<1>4. CASE TakeJob(k)
  BY <1>1, <1>2, <1>4, FindingMoves DEF TakeJob
<1>5. CASE PollChain(k)
  BY <1>1, <1>2, <1>3, <1>5, FindingMoves DEF PollChain
<1>6. CASE Deadline(k)
  BY <1>1, <1>2, <1>6, FindingMoves DEF Deadline
<1>7. CASE Settle(k)
  BY <1>1, <1>2, <1>7, WriteSettles DEF Settle
<1>8. CASE WorkerCrash(k)
  BY <1>1, <1>2, <1>8, FindingMoves DEF WorkerCrash
<1>9. CASE ReconcileFind(k)
  BY <1>2, <1>9, FindingMoves DEF ReconcileFind
<1>10. CASE ReconcileQuery(k)
  BY <1>1, <1>2, <1>3, <1>10, FindingMoves DEF ReconcileQuery
<1>11. CASE ReconcileSave(k)
  BY <1>1, <1>2, <1>11, WriteSettles DEF ReconcileSave
<1> QED
  BY <1>4, <1>5, <1>6, <1>7, <1>8, <1>9, <1>10, <1>11 DEF Work, Reconcile

LEMMA CloseSettles ==
  ASSUME SettledInv, NEW t \in Txs, Close(t)
  PROVE  SettledInv' /\ Kept
<1>1. PICK outcome \in {"success", "failed"} : chain' = [chain EXCEPT ![t] = outcome]
  BY DEF Close
<1>2. chain[t] = "unknown" /\ UNCHANGED <<row, at, reply, job, recon>>
  BY DEF Close, callVars, settleVars
<1>3. \A u \in Txs : chain[u] = "success" => chain'[u] = "success"
  BY <1>1, <1>2 DEF SettledInv, SettleTypes
<1>4. \A k \in Keys : TxOf[k] \in Txs
  BY DEF Txs
<1>5. SettleTypes'
  BY <1>1, <1>2 DEF SettledInv, SettleTypes
<1>6. OneWriter'
  BY <1>2 DEF SettledInv, OneWriter
<1>7. VerdictsAreTrue' /\ ConfirmedIsOnChain'
  BY <1>2, <1>3, <1>4, KeysAssumption DEF SettledInv, VerdictsAreTrue, ConfirmedIsOnChain
<1> QED
  BY <1>2, <1>5, <1>6, <1>7 DEF Kept, SettledInv

LEMMA SettledStep == SettledInv /\ [Next]_vars => SettledInv' /\ Kept
<1> SUFFICES ASSUME SettledInv, [Next]_vars
             PROVE  SettledInv' /\ Kept
  OBVIOUS
<1>1. ASSUME UNCHANGED <<row, at, reply, job, recon, chain>>
      PROVE  SettledInv' /\ Kept
  BY <1>1 DEF SettledInv, SettleTypes, OneWriter, VerdictsAreTrue, ConfirmedIsOnChain, Kept, Txs
<1>2. ASSUME NEW k \in Keys, LockExpires(k) \/ TxLockExpires(k)
      PROVE  SettledInv' /\ Kept
  BY <1>1, <1>2 DEF LockExpires, TxLockExpires, callVars, settleVars
<1>3. CASE UNCHANGED vars
  BY <1>1, <1>3 DEF vars
<1> QED
  BY <1>2, <1>3, CreateSettles, WorkSettles, CloseSettles DEF Next

(* CONFIRMED is never stored, nor told a client, of a transaction the chain has
   not applied, for any requests, keys, errors and crashes, and however long
   the locks live (TxConfirmationProcessor, reconcileStuckContributions). *)
THEOREM ConfirmedIsTrue == Spec => []ConfirmedIsOnChain
<1>1. SettledInv => ConfirmedIsOnChain
  BY DEF SettledInv
<1> QED
  BY SettledInit, SettledStep, <1>1, PTL DEF Spec

(* Nothing takes a settled contribution back, although neither the marking nor
   the settlements look at the status they replace: of the calls with its key
   only the one that stored it marks it, before anything can settle it. *)
THEOREM NeverUnsettledTheorem == Spec => NeverUnsettled
<1>1. SettledInv /\ [Next]_vars => [Kept]_vars
  BY SettledStep
<1>2. [Kept]_vars => [\A k \in Keys : row[k] \in Terminal => row'[k] \in Terminal]_vars
  BY DEF Kept
<1> QED
  BY SettledInit, SettledStep, <1>1, <1>2, PTL DEF Spec, NeverUnsettled
=============================================================================
