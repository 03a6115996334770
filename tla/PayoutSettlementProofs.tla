----------------------- MODULE PayoutSettlementProofs -----------------------
(***************************************************************************)
(* Proofs about PayoutSettlement, for any number of orders, calls, job     *)
(* attempts and crashes.                                                   *)
(*                                                                         *)
(* The inductive invariant rests on ownership: the call whose insert won   *)
(* is the only one that may go on to submit, from the insert to the end of *)
(* the call, and nothing was sent for the order before it submits.  A      *)
(* crash ends the owner but leaves the row, so no other call can become    *)
(* one.                                                                    *)
(***************************************************************************)
EXTENDS PayoutSettlement, TLAPS

\* Call c has inserted the row of its order and is still running.
Owns(c) == pc[c] \in {"inserted", "hashed", "submitted", "saved", "enqueued"}

OwnerIsUnique ==
  \A c, d \in Calls : Owns(c) /\ Owns(d) /\ OrderOf[c] = OrderOf[d] => c = d

OwnedRowExists ==
  \A c \in Calls : Owns(c) \/ chain[c] # "none" => row[OrderOf[c]].status # "ABSENT"

NothingSentBefore ==
  \A c, d \in Calls : pc[c] \in {"inserted", "hashed"} /\ OrderOf[c] = OrderOf[d]
                      => chain[d] = "none"

OnlyOwnerSent ==
  \A c, d \in Calls : Owns(c) /\ chain[d] # "none" /\ OrderOf[c] = OrderOf[d] => c = d

OwnerWroteHash ==
  \A c \in Calls :
    /\ Owns(c) => row[OrderOf[c]].hash \in {NoHash, c}
    /\ pc[c] = "inserted" => row[OrderOf[c]].hash = NoHash
    /\ pc[c] = "hashed" => row[OrderOf[c]].hash = c
    /\ pc[c] \in {"saved", "enqueued"} => row[OrderOf[c]].hash = c

AbsentHasNoHash ==
  \A o \in Orders : row[o].status = "ABSENT" => row[o].hash = NoHash

WorkerHash ==
  \A o \in Orders : /\ job[o].state = "active" => work[o].hash # NoHash
                    /\ work[o].hash # NoHash => row[o].hash = work[o].hash

IInv ==
  /\ TypeOK
  /\ OwnerIsUnique
  /\ OwnedRowExists
  /\ NothingSentBefore
  /\ OnlyOwnerSent
  /\ OwnerWroteHash
  /\ AbsentHasNoHash
  /\ WorkerHash
  /\ AtMostOneBroadcast
  /\ BroadcastIsRecorded

-----------------------------------------------------------------------------
JobRecords == [state : JobStates, attempts : 0 .. MaxAttempts]
WorkRecords == [hash : Hashes, verdict : {"none"} \cup Settled]

\* Adding and finishing jobs keeps their type and activates none.
LEMMA AddJobFacts ==
  ASSUME TypeOK, NEW o \in Orders, AddJob(o)
  PROVE  /\ job' \in [Orders -> JobRecords]
         /\ \A p \in Orders : job'[p].state = "active" => job[p].state = "active"
<1> DEFINE new == [state |-> "waiting", attempts |-> 0]
<1>1. new \in JobRecords
  BY BoundsAssumption DEF JobRecords, JobStates
<1>2. job \in [Orders -> JobRecords]
  BY DEF TypeOK, JobRecords
<1>3. job' = [job EXCEPT ![o] = new] \/ job' = job
  BY DEF AddJob
<1>4. new.state # "active"
  OBVIOUS
<1> HIDE DEF new
<1>5. job' \in [Orders -> JobRecords]
  BY <1>1, <1>2, <1>3
<1>6. \A p \in Orders : job'[p] \in {job[p], new}
  BY <1>2, <1>3
<1>7. \A p \in Orders : job'[p].state = "active" => job[p].state = "active"
  <2> SUFFICES ASSUME NEW p \in Orders, job'[p].state = "active"
               PROVE  job[p].state = "active"
    OBVIOUS
  <2>1. job'[p] = job[p] \/ job'[p] = new
    BY <1>6
  <2> QED
    BY <1>4, <2>1
<1> QED
  BY <1>5, <1>7

LEMMA FinishJobFacts ==
  ASSUME TypeOK, NEW o \in Orders, NEW s \in JobStates \ {"active"}, FinishJob(o, s)
  PROVE  /\ job' \in [Orders -> JobRecords]
         /\ \A p \in Orders : job'[p].state = "active" => job[p].state = "active"
<1> DEFINE new == [job[o] EXCEPT !.state = s]
<1>1. job \in [Orders -> JobRecords] /\ job[o] \in JobRecords
  BY DEF TypeOK, JobRecords
<1>2. new \in JobRecords /\ new.state = s
  BY <1>1 DEF JobRecords
<1>3. job' = [job EXCEPT ![o] = new]
  BY <1>1 DEF FinishJob
<1> HIDE DEF new
<1>4. job' \in [Orders -> JobRecords]
  BY <1>1, <1>2, <1>3
<1>5. \A p \in Orders : job'[p] = IF p = o THEN new ELSE job[p]
  BY <1>1, <1>3
<1>6. \A p \in Orders : job'[p].state = "active" => job[p].state = "active"
  <2> SUFFICES ASSUME NEW p \in Orders, job'[p].state = "active"
               PROVE  job[p].state = "active"
    OBVIOUS
  <2>1. job'[p] = job[p] \/ job'[p] = new
    BY <1>5
  <2> QED
    BY <1>2, <2>1
<1> QED
  BY <1>4, <1>6

LEMMA SetRowFacts ==
  ASSUME TypeOK, NEW o \in Orders, NEW s \in Statuses, NEW h \in Hashes, SetRow(o, s, h)
  PROVE  /\ row' \in [Orders -> [status : Statuses, hash : Hashes]]
         /\ row'[o].status = s /\ row'[o].hash = h
         /\ \A p \in Orders \ {o} : row'[p].status = row[p].status /\ row'[p].hash = row[p].hash
<1> DEFINE new == [status |-> s, hash |-> h]
           Rows == [status : Statuses, hash : Hashes]
<1>1. new \in Rows /\ new.status = s /\ new.hash = h
  OBVIOUS
<1>2. row \in [Orders -> Rows]
  BY DEF TypeOK
<1>3. row' = [row EXCEPT ![o] = new]
  BY DEF SetRow
<1> HIDE DEF new, Rows
<1>4. row' \in [Orders -> Rows]
  BY <1>1, <1>2, <1>3
<1>5. \A p \in Orders : row'[p] = IF p = o THEN new ELSE row[p]
  BY <1>2, <1>3
<1>6. row'[o] = new
  BY <1>5
<1>7. \A p \in Orders \ {o} : row'[p] = row[p]
  BY <1>5
<1>8. row'[o].status = s /\ row'[o].hash = h
  BY <1>1, <1>6
<1>9. \A p \in Orders \ {o} : row'[p].status = row[p].status /\ row'[p].hash = row[p].hash
  BY <1>7
<1> QED
  BY <1>4, <1>8, <1>9 DEF Rows

-----------------------------------------------------------------------------
(* Each variable keeps its type: in particular a job never counts more than *)
(* MaxAttempts attempts and a verdict is only ever a settled status.        *)
LEMMA TypeStep == TypeOK /\ [Next]_vars => TypeOK'
<1> SUFFICES ASSUME TypeOK, [Next]_vars PROVE TypeOK'
  OBVIOUS
<1> USE OrderOfAssumption, NoHashAssumption, BoundsAssumption
<1> USE DEF TypeOK, Hashes, Statuses, Settled, Locations, ChainStates, JobStates,
            callVars, queueVars, envVars
<1>1. ASSUME NEW c \in Calls, LoadGroup(c) PROVE TypeOK'
  BY <1>1 DEF LoadGroup, Goto
<1>2. ASSUME NEW c \in Calls, LoadRecipient(c) PROVE TypeOK'
  BY <1>2 DEF LoadRecipient, Goto
<1>3. ASSUME NEW c \in Calls, CountPenalties(c) PROVE TypeOK'
  BY <1>3 DEF CountPenalties, Goto
<1>4. ASSUME NEW c \in Calls, FindExisting(c) PROVE TypeOK'
  <2>1. job' \in [Orders -> JobRecords]
    <3>1. CASE row[OrderOf[c]].status = "SUBMITTED"
      BY <1>4, <3>1, AddJobFacts DEF FindExisting
    <3>2. CASE row[OrderOf[c]].status # "SUBMITTED"
      BY <1>4, <3>2 DEF FindExisting, JobRecords
    <3> QED
      BY <3>1, <3>2
  <2> QED
    BY <1>4, <2>1 DEF FindExisting, Goto, JobRecords
<1>5. ASSUME NEW c \in Calls, Insert(c) PROVE TypeOK'
  <2>1. CASE row[OrderOf[c]].status = "ABSENT"
    <3>1. row' \in [Orders -> [status : Statuses, hash : Hashes]]
      BY <1>5, <2>1, SetRowFacts DEF Insert, Hashes, Statuses
    <3> QED
      BY <1>5, <2>1, <3>1 DEF Insert, Goto
  <2>2. CASE row[OrderOf[c]].status # "ABSENT"
    BY <1>5, <2>2 DEF Insert, SetRow, Goto
  <2> QED
    BY <2>1, <2>2
<1>6. ASSUME NEW c \in Calls, RejectBeforeHash(c) PROVE TypeOK'
  BY <1>6 DEF RejectBeforeHash, SetRow, Goto
<1>7. ASSUME NEW c \in Calls, RecordHash(c) PROVE TypeOK'
  BY <1>7 DEF RecordHash, SetRow, Goto
<1>8. ASSUME NEW c \in Calls, MockHash(c) PROVE TypeOK'
  BY <1>8 DEF MockHash, Goto
<1>9. ASSUME NEW c \in Calls, Send(c) PROVE TypeOK'
  BY <1>9 DEF Send, Goto
<1>10. ASSUME NEW c \in Calls, SubmitPath(c) PROVE TypeOK'
  <2>1. PICK accepted, filled \in BOOLEAN :
          /\ Goto(c, "inserted", IF filled THEN "submitted" ELSE "done")
          /\ chain' = IF accepted THEN [chain EXCEPT ![c] = "pending"] ELSE chain
          /\ IF filled THEN UNCHANGED row ELSE SetRow(OrderOf[c], "FAILED", NoHash)
    BY <1>10 DEF SubmitPath
  <2>2. pc' \in [Calls -> Locations] /\ chain' \in [Calls -> ChainStates]
    BY <2>1 DEF Goto
  <2>3. row' \in [Orders -> [status : Statuses, hash : Hashes]]
    <3>1. CASE filled
      BY <2>1, <3>1
    <3>2. CASE ~filled
      BY <2>1, <3>2, SetRowFacts
    <3> QED
      BY <3>1, <3>2
  <2> QED
    BY <1>10, <2>2, <2>3 DEF SubmitPath
<1>11. ASSUME NEW c \in Calls, SaveSubmitted(c) PROVE TypeOK'
  BY <1>11 DEF SaveSubmitted, SetRow, Goto
<1>12. ASSUME NEW c \in Calls, Enqueue(c) PROVE TypeOK'
  BY <1>12 DEF Enqueue, AddJob, Goto
<1>13. ASSUME NEW c \in Calls, MarkReceived(c) PROVE TypeOK'
  BY <1>13 DEF MarkReceived, Goto
<1>14. ASSUME NEW c \in Calls, PersistenceFails(c) PROVE TypeOK'
  BY <1>14 DEF PersistenceFails, Goto
<1>15. ASSUME NEW c \in Calls, Close(c) PROVE TypeOK'
  BY <1>15 DEF Close
<1>16. ASSUME NEW o \in Orders, SweepAdd(o) PROVE TypeOK'
  BY <1>16 DEF SweepAdd, AddJob
<1>17. ASSUME NEW o \in Orders, TakeJob(o) PROVE TypeOK'
  <2>1. job' \in [Orders -> JobRecords] /\ work' \in [Orders -> WorkRecords]
    <3>1. CASE Unconfirmed(row[o])
      <4> DEFINE n == IF job[o].attempts < MaxAttempts
                      THEN job[o].attempts + 1 ELSE MaxAttempts
      <4>1. [state |-> "active", attempts |-> n] \in JobRecords
        BY DEF JobRecords
      <4>2. job' = [job EXCEPT ![o] = [state |-> "active", attempts |-> n]]
        BY <1>17, <3>1 DEF TakeJob
      <4> HIDE DEF n
      <4>3. job' \in [Orders -> JobRecords]
        BY <4>1, <4>2 DEF JobRecords
      <4>4. work' = [work EXCEPT ![o] = [hash |-> row[o].hash, verdict |-> "none"]]
        BY <1>17, <3>1 DEF TakeJob
      <4>5. [hash |-> row[o].hash, verdict |-> "none"] \in WorkRecords
        BY DEF WorkRecords
      <4>6. work' \in [Orders -> WorkRecords]
        BY <4>4, <4>5 DEF WorkRecords
      <4> QED
        BY <4>3, <4>6
    <3>2. CASE ~Unconfirmed(row[o])
      <4>1. FinishJob(o, "completed") /\ UNCHANGED work
        BY <1>17, <3>2 DEF TakeJob
      <4> QED
        BY <4>1, FinishJobFacts DEF WorkRecords
    <3> QED
      BY <3>1, <3>2
  <2> QED
    BY <1>17, <2>1 DEF TakeJob, JobRecords, WorkRecords
<1>18. ASSUME NEW o \in Orders, QueryChain(o) PROVE TypeOK'
  BY <1>18 DEF QueryChain
<1>19. ASSUME NEW o \in Orders, AttemptFails(o) PROVE TypeOK'
  BY <1>19 DEF AttemptFails, FinishJob, Idle
<1>20. ASSUME NEW o \in Orders, SaveVerdict(o) PROVE TypeOK'
  BY <1>20 DEF SaveVerdict, FinishJob, SetRow, Idle
<1>21. ASSUME NEW o \in Orders, ExpireJob(o) PROVE TypeOK'
  BY <1>21 DEF ExpireJob, NoJob
<1>22. ASSUME NEW o \in Orders, RetryFailedJob(o) PROVE TypeOK'
  BY <1>22, FinishJobFacts DEF RetryFailedJob, JobRecords
<1>23. ASSUME NEW o \in Orders, ChangePenalty(o) PROVE TypeOK'
  BY <1>23 DEF ChangePenalty
<1>24. CASE StartSweep
  BY <1>24 DEF StartSweep, Unconfirmed
<1>25. CASE CompleteGroup
  BY <1>25 DEF CompleteGroup
<1>26. CASE Crash
  <2>1. pc' \in [Calls -> Locations]
    BY <1>26 DEF Crash
  <2>2. job' \in [Orders -> [state : JobStates, attempts : 0 .. MaxAttempts]]
    <3> SUFFICES ASSUME NEW o \in Orders
                 PROVE  (IF job[o].state = "active"
                         THEN [job[o] EXCEPT !.state = "waiting"] ELSE job[o])
                        \in [state : JobStates, attempts : 0 .. MaxAttempts]
      BY <1>26 DEF Crash
    <3> QED
      OBVIOUS
  <2>3. work' \in [Orders -> [hash : Hashes, verdict : {"none"} \cup Settled]]
    BY <1>26 DEF Crash, Idle
  <2>4. crashes' \in 0 .. MaxCrashes
    BY <1>26 DEF Crash
  <2>5. sweep' \in SUBSET Orders
    BY <1>26 DEF Crash
  <2> QED
    BY <1>26, <2>1, <2>2, <2>3, <2>4, <2>5 DEF Crash
<1>27. CASE UNCHANGED vars
  BY <1>27 DEF vars
<1> QED
  BY <1>1, <1>2, <1>3, <1>4, <1>5, <1>6, <1>7, <1>8, <1>9, <1>10, <1>11,
     <1>12, <1>13, <1>14, <1>15, <1>16, <1>17, <1>18, <1>19, <1>20, <1>21,
     <1>22, <1>23, <1>24, <1>25, <1>26, <1>27 DEF Next, DistributePayout, Continue

-----------------------------------------------------------------------------
(* Every action preserves ownership and what follows from it.               *)
LEMMA InvStep == IInv /\ [Next]_vars => IInv'
<1> SUFFICES ASSUME IInv, [Next]_vars PROVE IInv'
  OBVIOUS
<1>0. TypeOK /\ TypeOK'
  BY TypeStep DEF IInv
<1> USE OrderOfAssumption, NoHashAssumption
<1> USE DEF IInv, Owns, OwnerIsUnique, OwnedRowExists, NothingSentBefore, OnlyOwnerSent,
            OwnerWroteHash, AbsentHasNoHash, WorkerHash, AtMostOneBroadcast,
            BroadcastIsRecorded, TypeOK, Hashes, Statuses, Settled, Locations,
            ChainStates, JobStates, callVars, queueVars, envVars
<1>1. ASSUME NEW c \in Calls, LoadGroup(c) PROVE IInv'
  BY <1>1, <1>0 DEF LoadGroup, Goto
<1>2. ASSUME NEW c \in Calls, LoadRecipient(c) PROVE IInv'
  BY <1>2, <1>0 DEF LoadRecipient, Goto
<1>3. ASSUME NEW c \in Calls, CountPenalties(c) PROVE IInv'
  BY <1>3, <1>0 DEF CountPenalties, Goto
<1>4. ASSUME NEW c \in Calls, FindExisting(c) PROVE IInv'
  <2>1. \A p \in Orders : job'[p].state = "active" => job[p].state = "active"
    <3>1. CASE row[OrderOf[c]].status = "SUBMITTED"
      BY <1>4, <1>0, <3>1, AddJobFacts DEF FindExisting
    <3>2. CASE row[OrderOf[c]].status # "SUBMITTED"
      BY <1>4, <3>2 DEF FindExisting
    <3> QED
      BY <3>1, <3>2
  <2>2. UNCHANGED <<row, chain, work, pathOrders>>
    BY <1>4 DEF FindExisting
  <2>3. /\ \A d \in Calls \ {c} : pc'[d] = pc[d]
        /\ pc'[c] \in {"fresh", "done"}
    BY <1>4, <1>0 DEF FindExisting, Goto
  <2>4. OwnerIsUnique'
    BY <1>0, <2>1, <2>2, <2>3
  <2>5. OwnedRowExists'
    BY <1>0, <2>1, <2>2, <2>3
  <2>6. NothingSentBefore'
    BY <1>0, <2>1, <2>2, <2>3
  <2>7. OnlyOwnerSent'
    BY <1>0, <2>1, <2>2, <2>3
  <2>8. OwnerWroteHash'
    BY <1>0, <2>1, <2>2, <2>3
  <2>9. AbsentHasNoHash'
    BY <1>0, <2>1, <2>2, <2>3
  <2>10. WorkerHash'
    BY <1>0, <2>1, <2>2, <2>3
  <2>11. AtMostOneBroadcast'
    BY <1>0, <2>1, <2>2, <2>3
  <2>12. BroadcastIsRecorded'
    BY <1>0, <2>1, <2>2, <2>3
  <2> QED
    BY <1>0, <2>4, <2>5, <2>6, <2>7, <2>8, <2>9, <2>10, <2>11, <2>12
<1>5. ASSUME NEW c \in Calls, Insert(c) PROVE IInv'
  <2>1. CASE row[OrderOf[c]].status = "ABSENT"
    <3> DEFINE o == OrderOf[c]
    <3>1. /\ row'[o].status = "PENDING_SUBMISSION"
          /\ row'[o].hash = NoHash
          /\ \A p \in Orders \ {o} : /\ row'[p].status = row[p].status
                                  /\ row'[p].hash = row[p].hash
      BY <1>5, <1>0, <2>1, SetRowFacts DEF Insert
    <3>2. /\ \A d \in Calls \ {c} : pc'[d] = pc[d]
          /\ pc[c] = "fresh" /\ pc'[c] = "inserted"
          /\ UNCHANGED <<chain, job, work, pathOrders>>
      BY <1>5, <1>0, <2>1 DEF Insert, Goto
    <3>3. /\ row[o].hash = NoHash /\ work[o].hash = NoHash /\ o \in Orders
          /\ \A d \in Calls : OrderOf[d] = o => ~Owns(d) /\ chain[d] = "none"
      BY <1>0, <2>1
    <3>4. \A d \in Calls \ {c} : Owns(d)' = Owns(d)
      BY <3>2
    <3>5. \A d \in Calls : OrderOf[d] \in Orders
      BY <1>0
    <3> HIDE DEF o
    <3>6. OwnerIsUnique' /\ NothingSentBefore' /\ OnlyOwnerSent' /\ AtMostOneBroadcast'
      BY <1>0, <3>2, <3>3, <3>4 DEF o
    <3>7. OwnedRowExists'
      <4> SUFFICES ASSUME NEW d \in Calls, Owns(d)' \/ chain'[d] # "none"
                   PROVE  row'[OrderOf[d]].status # "ABSENT"
        OBVIOUS
      <4>1. CASE OrderOf[d] = o
        BY <3>1, <4>1
      <4>2. CASE OrderOf[d] # o
        <5>1. d # c /\ (Owns(d) \/ chain[d] # "none")
          BY <3>2, <3>4, <4>2 DEF o
        <5>2. row'[OrderOf[d]].status = row[OrderOf[d]].status
          BY <3>1, <3>5, <4>2
        <5> QED
          BY <5>1, <5>2
      <4> QED
        BY <4>1, <4>2
    <3>8. OwnerWroteHash' /\ BroadcastIsRecorded'
      <4> SUFFICES ASSUME NEW d \in Calls
                   PROVE  /\ (Owns(d) => row[OrderOf[d]].hash \in {NoHash, d})'
                          /\ (pc[d] = "inserted" => row[OrderOf[d]].hash = NoHash)'
                          /\ (pc[d] = "hashed" => row[OrderOf[d]].hash = d)'
                          /\ (pc[d] \in {"saved", "enqueued"} => row[OrderOf[d]].hash = d)'
                          /\ (chain[d] # "none" /\ OrderOf[d] \notin pathOrders
                              => row[OrderOf[d]].hash = d)'
        OBVIOUS
      <4>1. CASE d = c
        BY <3>1, <3>2, <3>3, <4>1 DEF o
      <4>2. CASE d # c /\ OrderOf[d] = o
        BY <3>2, <3>3, <4>2
      <4>3. CASE d # c /\ OrderOf[d] # o
        <5>1. row'[OrderOf[d]].hash = row[OrderOf[d]].hash
          BY <3>1, <3>5, <4>3
        <5> QED
          BY <3>2, <4>3, <5>1
      <4> QED
        BY <4>1, <4>2, <4>3
    <3>9. AbsentHasNoHash' /\ WorkerHash'
      <4> SUFFICES ASSUME NEW p \in Orders
                   PROVE  /\ (row[p].status = "ABSENT" => row[p].hash = NoHash)'
                          /\ (job[p].state = "active" => work[p].hash # NoHash)'
                          /\ (work[p].hash # NoHash => row[p].hash = work[p].hash)'
        OBVIOUS
      <4>1. CASE p = o
        BY <3>1, <3>2, <3>3, <4>1
      <4>2. CASE p # o
        <5>1. row'[p].status = row[p].status /\ row'[p].hash = row[p].hash
          BY <3>1, <4>2
        <5> QED
          BY <3>2, <5>1
      <4> QED
        BY <4>1, <4>2
    <3> QED
      BY <1>0, <3>6, <3>7, <3>8, <3>9
  <2>2. CASE row[OrderOf[c]].status # "ABSENT"
    BY <1>5, <1>0, <2>2 DEF Insert, Goto
  <2> QED
    BY <2>1, <2>2
<1>6. ASSUME NEW c \in Calls, RejectBeforeHash(c) PROVE IInv'
  BY <1>6, <1>0 DEF RejectBeforeHash, SetRow, Goto
<1>7. ASSUME NEW c \in Calls, RecordHash(c) PROVE IInv'
  BY <1>7, <1>0 DEF RecordHash, SetRow, Goto
<1>8. ASSUME NEW c \in Calls, MockHash(c) PROVE IInv'
  BY <1>8, <1>0 DEF MockHash, Goto
<1>9. ASSUME NEW c \in Calls, Send(c) PROVE IInv'
  BY <1>9, <1>0 DEF Send, Goto
<1>10. ASSUME NEW c \in Calls, SubmitPath(c) PROVE IInv'
  <2>1. PICK accepted, filled \in BOOLEAN :
          /\ Goto(c, "inserted", IF filled THEN "submitted" ELSE "done")
          /\ chain' = IF accepted THEN [chain EXCEPT ![c] = "pending"] ELSE chain
          /\ IF filled THEN UNCHANGED row ELSE SetRow(OrderOf[c], "FAILED", NoHash)
    BY <1>10 DEF SubmitPath
  <2>2. CASE filled
    BY <1>10, <1>0, <2>1, <2>2 DEF SubmitPath, Goto
  <2>3. CASE ~filled
    <3>1. /\ row'[OrderOf[c]].status = "FAILED" /\ row'[OrderOf[c]].hash = NoHash
          /\ \A p \in Orders \ {OrderOf[c]} : /\ row'[p].status = row[p].status
                                              /\ row'[p].hash = row[p].hash
      BY <1>0, <2>1, <2>3, SetRowFacts
    <3>2. /\ \A d \in Calls \ {c} : pc'[d] = pc[d] /\ chain'[d] = chain[d]
          /\ pc[c] = "inserted" /\ pc'[c] = "done"
          /\ UNCHANGED <<job, work, pathOrders>> /\ OrderOf[c] \in pathOrders
      BY <1>10, <1>0, <2>1, <2>3 DEF SubmitPath, Goto
    <3> QED
      <4>1. OwnerIsUnique'
        BY <1>0, <3>1, <3>2
      <4>2. OwnedRowExists'
        <5> SUFFICES ASSUME NEW d \in Calls, Owns(d)' \/ chain'[d] # "none"
                     PROVE  row'[OrderOf[d]].status # "ABSENT"
          OBVIOUS
        <5>1. CASE OrderOf[d] = OrderOf[c]
          BY <3>1, <5>1
        <5>2. CASE OrderOf[d] # OrderOf[c]
          <6>1. d # c /\ (Owns(d) \/ chain[d] # "none")
            BY <3>2, <5>2
          <6>2. row'[OrderOf[d]].status = row[OrderOf[d]].status
            BY <1>0, <3>1, <5>2
          <6> QED
            BY <6>1, <6>2
        <5> QED
          BY <5>1, <5>2
      <4>3. NothingSentBefore'
        BY <1>0, <3>1, <3>2
      <4>4. OnlyOwnerSent'
        BY <1>0, <3>1, <3>2
      <4>5. OwnerWroteHash'
        BY <1>0, <3>1, <3>2
      <4>6. AbsentHasNoHash'
        BY <1>0, <3>1, <3>2
      <4>7. WorkerHash'
        BY <1>0, <3>1, <3>2
      <4>8. AtMostOneBroadcast'
        BY <1>0, <3>1, <3>2
      <4>9. BroadcastIsRecorded'
        BY <1>0, <3>1, <3>2
      <4> QED
        BY <1>0, <4>1, <4>2, <4>3, <4>4, <4>5, <4>6, <4>7, <4>8, <4>9
  <2> QED
    BY <2>2, <2>3
<1>11. ASSUME NEW c \in Calls, SaveSubmitted(c) PROVE IInv'
  BY <1>11, <1>0 DEF SaveSubmitted, SetRow, Goto
<1>12. ASSUME NEW c \in Calls, Enqueue(c) PROVE IInv'
  BY <1>12, <1>0 DEF Enqueue, AddJob, Goto
<1>13. ASSUME NEW c \in Calls, MarkReceived(c) PROVE IInv'
  BY <1>13, <1>0 DEF MarkReceived, Goto
<1>14. ASSUME NEW c \in Calls, PersistenceFails(c) PROVE IInv'
  <2>1. CASE Goto(c, "inserted", "done")
    BY <1>14, <1>0, <2>1 DEF PersistenceFails, Goto
  <2>2. ASSUME NEW from \in {"submitted", "saved", "enqueued"}, Goto(c, from, "done")
        PROVE  IInv'
    BY <1>14, <1>0, <2>2 DEF PersistenceFails, Goto
  <2> QED
    BY <1>14, <2>1, <2>2 DEF PersistenceFails
<1>15. ASSUME NEW c \in Calls, Close(c) PROVE IInv'
  BY <1>15, <1>0 DEF Close
<1>16. ASSUME NEW o \in Orders, SweepAdd(o) PROVE IInv'
  BY <1>16, <1>0 DEF SweepAdd, AddJob
<1>17. ASSUME NEW o \in Orders, TakeJob(o) PROVE IInv'
  <2>1. UNCHANGED <<row, pc, chain, pathOrders>>
    BY <1>17 DEF TakeJob
  <2>2. \A p \in Orders \ {o} : job'[p] = job[p] /\ work'[p] = work[p]
    BY <1>17, <1>0 DEF TakeJob, FinishJob
  <2>3. CASE Unconfirmed(row[o])
    <3>1. work'[o].hash = row[o].hash /\ row[o].hash # NoHash
      BY <1>17, <1>0, <2>3 DEF TakeJob, Unconfirmed
    <3> QED
      <4>1. OwnerIsUnique'
        BY <1>0, <2>1, <2>2, <3>1
      <4>2. OwnedRowExists'
        BY <1>0, <2>1, <2>2, <3>1
      <4>3. NothingSentBefore'
        BY <1>0, <2>1, <2>2, <3>1
      <4>4. OnlyOwnerSent'
        BY <1>0, <2>1, <2>2, <3>1
      <4>5. OwnerWroteHash'
        BY <1>0, <2>1, <2>2, <3>1
      <4>6. AbsentHasNoHash'
        BY <1>0, <2>1, <2>2, <3>1
      <4>7. WorkerHash'
        BY <1>0, <2>1, <2>2, <3>1
      <4>8. AtMostOneBroadcast'
        BY <1>0, <2>1, <2>2, <3>1
      <4>9. BroadcastIsRecorded'
        BY <1>0, <2>1, <2>2, <3>1
      <4> QED
        BY <1>0, <4>1, <4>2, <4>3, <4>4, <4>5, <4>6, <4>7, <4>8, <4>9
  <2>4. CASE ~Unconfirmed(row[o])
    <3>1. job'[o].state = "completed" /\ work' = work
      BY <1>17, <1>0, <2>4 DEF TakeJob, FinishJob
    <3> QED
      <4>1. OwnerIsUnique'
        BY <1>0, <2>1, <2>2, <3>1
      <4>2. OwnedRowExists'
        BY <1>0, <2>1, <2>2, <3>1
      <4>3. NothingSentBefore'
        BY <1>0, <2>1, <2>2, <3>1
      <4>4. OnlyOwnerSent'
        BY <1>0, <2>1, <2>2, <3>1
      <4>5. OwnerWroteHash'
        BY <1>0, <2>1, <2>2, <3>1
      <4>6. AbsentHasNoHash'
        BY <1>0, <2>1, <2>2, <3>1
      <4>7. WorkerHash'
        BY <1>0, <2>1, <2>2, <3>1
      <4>8. AtMostOneBroadcast'
        BY <1>0, <2>1, <2>2, <3>1
      <4>9. BroadcastIsRecorded'
        BY <1>0, <2>1, <2>2, <3>1
      <4> QED
        BY <1>0, <4>1, <4>2, <4>3, <4>4, <4>5, <4>6, <4>7, <4>8, <4>9
  <2> QED
    BY <2>3, <2>4
<1>18. ASSUME NEW o \in Orders, QueryChain(o) PROVE IInv'
  <2>1. job[o].state = "active" /\ work[o].hash # NoHash
    BY <1>18 DEF QueryChain
  <2>2. UNCHANGED <<row, pc, chain, job, pathOrders>>
    BY <1>18 DEF QueryChain
  <2>3. PICK v \in Settled : work' = [work EXCEPT ![o].verdict = v]
    BY <1>18 DEF QueryChain
  <2>4. \A p \in Orders : work'[p].hash = work[p].hash
    BY <1>0, <2>3
  <2> QED
    BY <1>0, <2>1, <2>2, <2>4
<1>19. ASSUME NEW o \in Orders, AttemptFails(o) PROVE IInv'
  BY <1>19, <1>0 DEF AttemptFails, FinishJob, Idle
<1>20. ASSUME NEW o \in Orders, SaveVerdict(o) PROVE IInv'
  BY <1>20, <1>0 DEF SaveVerdict, FinishJob, SetRow, Idle
<1>21. ASSUME NEW o \in Orders, ExpireJob(o) PROVE IInv'
  BY <1>21, <1>0 DEF ExpireJob, NoJob
<1>22. ASSUME NEW o \in Orders, RetryFailedJob(o) PROVE IInv'
  BY <1>22, <1>0 DEF RetryFailedJob, FinishJob, JobRecords
<1>23. ASSUME NEW o \in Orders, ChangePenalty(o) PROVE IInv'
  BY <1>23, <1>0 DEF ChangePenalty
<1>24. CASE StartSweep
  BY <1>24, <1>0 DEF StartSweep, Unconfirmed
<1>25. CASE CompleteGroup
  BY <1>25, <1>0 DEF CompleteGroup
<1>26. CASE Crash
  BY <1>26, <1>0 DEF Crash, Idle
<1>27. CASE UNCHANGED vars
  BY <1>27, <1>0 DEF vars
<1> QED
  BY <1>1, <1>2, <1>3, <1>4, <1>5, <1>6, <1>7, <1>8, <1>9, <1>10, <1>11,
     <1>12, <1>13, <1>14, <1>15, <1>16, <1>17, <1>18, <1>19, <1>20, <1>21,
     <1>22, <1>23, <1>24, <1>25, <1>26, <1>27 DEF Next, DistributePayout, Continue

-----------------------------------------------------------------------------
LEMMA InitInv == Init => IInv
  BY BoundsAssumption
  DEF Init, IInv, Owns, OwnerIsUnique, OwnedRowExists, NothingSentBefore, OnlyOwnerSent,
      OwnerWroteHash, AbsentHasNoHash, WorkerHash, AtMostOneBroadcast, BroadcastIsRecorded,
      TypeOK, Hashes, Statuses, Settled, Locations, ChainStates, JobStates,
      Absent, NoJob, Idle

LEMMA Invariance == Safety => []IInv
<1>1. Init => IInv
  BY InitInv
<1>2. IInv /\ [Next]_vars => IInv'
  BY InvStep
<1> QED
  BY <1>1, <1>2, PTL DEF Safety

\* Rows, jobs, calls and transactions only ever take the values the entities
\* and BullMQ have for them.
THEOREM TypeCorrect == Safety => []TypeOK
<1>1. IInv => TypeOK
  BY DEF IInv
<1> QED
  BY <1>1, Invariance, PTL

\* distributePayout never sends two transactions for one payoutOrderId,
\* whatever number of callers, retries and crashes.
THEOREM NoDoublePayout == Safety => []AtMostOneBroadcast
<1>1. IInv => AtMostOneBroadcast
  BY DEF IInv
<1> QED
  BY <1>1, Invariance, PTL

\* A direct payout is on record under its hash before the network can see it,
\* so that the sweep finds it after a crash.
THEOREM WriteAhead == Safety => []BroadcastIsRecorded
<1>1. IInv => BroadcastIsRecorded
  BY DEF IInv
<1> QED
  BY <1>1, Invariance, PTL

-----------------------------------------------------------------------------
(* What the tables say is true.  A row may be written by the owner or by    *)
(* the worker, and both may be under way at once: the worker's verdict is   *)
(* about a transaction the network has closed, so it never meets an owner   *)
(* that is still about to send, and the owner marks the recipient only      *)
(* after the row has left PENDING_SUBMISSION for good.                      *)
OwnerUnpaid ==
  \A c \in Calls : Owns(c) => received[OrderOf[c]] = NoHash

OwnerStatus ==
  \A c \in Calls :
    /\ pc[c] \in {"inserted", "hashed"} => row[OrderOf[c]].status = "PENDING_SUBMISSION"
    /\ pc[c] \in {"saved", "enqueued"} => row[OrderOf[c]].status \in Settled \cup {"SUBMITTED"}

HashOfOrder ==
  \A o \in Orders : row[o].hash # NoHash => OrderOf[row[o].hash] = o

VerdictOfChain ==
  \A o \in Orders :
    /\ work[o].verdict = "CONFIRMED" => work[o].hash # NoHash /\ chain[work[o].hash] = "success"
    /\ work[o].verdict = "FAILED" => work[o].hash # NoHash /\ chain[work[o].hash] = "failed"

TruthInv ==
  /\ OwnerUnpaid
  /\ OwnerStatus
  /\ HashOfOrder
  /\ VerdictOfChain
  /\ VerdictIsTrue
  /\ ReceivedMatchesRow

LEMMA TruthStep == IInv /\ TruthInv /\ [Next]_vars => TruthInv'
<1> SUFFICES ASSUME IInv, TruthInv, [Next]_vars PROVE TruthInv'
  OBVIOUS
<1>0. TypeOK
  BY DEF IInv
<1> USE OrderOfAssumption, NoHashAssumption
<1> USE DEF IInv, TruthInv, Owns, OwnerIsUnique, OwnedRowExists, NothingSentBefore, OnlyOwnerSent,
            OwnerWroteHash, AbsentHasNoHash, WorkerHash, AtMostOneBroadcast,
            OwnerUnpaid, OwnerStatus, HashOfOrder, VerdictOfChain, VerdictIsTrue, ReceivedMatchesRow,
            Broadcast, CallsFor,
            TypeOK, Hashes, Statuses, Settled, Locations,
            ChainStates, JobStates, callVars, queueVars, envVars
<1>1. ASSUME NEW c \in Calls, LoadGroup(c) PROVE TruthInv'
  BY <1>1, <1>0 DEF LoadGroup, Goto
<1>2. ASSUME NEW c \in Calls, LoadRecipient(c) PROVE TruthInv'
  BY <1>2, <1>0 DEF LoadRecipient, Goto
<1>3. ASSUME NEW c \in Calls, CountPenalties(c) PROVE TruthInv'
  BY <1>3, <1>0 DEF CountPenalties, Goto
<1>4. ASSUME NEW c \in Calls, FindExisting(c) PROVE TruthInv'
  BY <1>4, <1>0 DEF FindExisting, Goto
<1>5. ASSUME NEW c \in Calls, Insert(c) PROVE TruthInv'
  <2>1. CASE row[OrderOf[c]].status = "ABSENT"
    <3>1. /\ row'[OrderOf[c]].status = "PENDING_SUBMISSION"
          /\ row'[OrderOf[c]].hash = NoHash
          /\ \A p \in Orders \ {OrderOf[c]} : /\ row'[p].status = row[p].status
                                              /\ row'[p].hash = row[p].hash
      BY <1>5, <1>0, <2>1, SetRowFacts DEF Insert
    <3>2. /\ \A d \in Calls \ {c} : pc'[d] = pc[d]
          /\ pc'[c] = "inserted" /\ OrderOf[c] \in Orders
          /\ UNCHANGED <<received, chain, work, pathOrders>>
      BY <1>5, <1>0, <2>1 DEF Insert, Goto
    <3>3. received[OrderOf[c]] = NoHash /\ work[OrderOf[c]].hash = NoHash
      BY <1>0, <2>1
    <3> QED
      <4>1. OwnerUnpaid'
        BY <1>0, <3>1, <3>2, <3>3, <2>1
      <4>2. OwnerStatus'
        <5> SUFFICES ASSUME NEW d \in Calls, Owns(d)'
                     PROVE  /\ (pc[d] \in {"inserted", "hashed"}
                                => row[OrderOf[d]].status = "PENDING_SUBMISSION")'
                            /\ (pc[d] \in {"saved", "enqueued"}
                                => row[OrderOf[d]].status \in Settled \cup {"SUBMITTED"})'
          OBVIOUS
        <5>1. CASE d = c
          BY <3>1, <3>2, <5>1
        <5>2. CASE d # c
          <6>1. OrderOf[d] \in Orders \ {OrderOf[c]}
            BY <1>0, <2>1, <3>2, <5>2
          <6>2. row'[OrderOf[d]].status = row[OrderOf[d]].status /\ pc'[d] = pc[d]
            BY <3>1, <3>2, <5>2, <6>1
          <6> QED
            BY <6>2
        <5> QED
          BY <5>1, <5>2
      <4>3. HashOfOrder'
        <5> SUFFICES ASSUME NEW p \in Orders, row'[p].hash # NoHash
                     PROVE  OrderOf[row'[p].hash] = p
          OBVIOUS
        <5>1. p # OrderOf[c]
          BY <3>1
        <5>2. row'[p].hash = row[p].hash
          BY <3>1, <5>1
        <5> QED
          BY <5>2
      <4>4. VerdictOfChain'
        BY <1>0, <3>1, <3>2, <3>3, <2>1
      <4>5. VerdictIsTrue'
        BY <1>0, <3>1, <3>2, <3>3, <2>1
      <4>6. ReceivedMatchesRow'
        BY <1>0, <3>1, <3>2, <3>3, <2>1
      <4> QED
        BY <4>1, <4>2, <4>3, <4>4, <4>5, <4>6
  <2>2. CASE row[OrderOf[c]].status # "ABSENT"
    BY <1>5, <1>0, <2>2 DEF Insert, Goto
  <2> QED
    BY <2>1, <2>2
<1>6. ASSUME NEW c \in Calls, RejectBeforeHash(c) PROVE TruthInv'
  BY <1>6, <1>0 DEF RejectBeforeHash, SetRow, Goto
<1>7. ASSUME NEW c \in Calls, RecordHash(c) PROVE TruthInv'
  BY <1>7, <1>0 DEF RecordHash, SetRow, Goto
<1>8. ASSUME NEW c \in Calls, MockHash(c) PROVE TruthInv'
  BY <1>8, <1>0 DEF MockHash, Goto
<1>9. ASSUME NEW c \in Calls, Send(c) PROVE TruthInv'
  BY <1>9, <1>0 DEF Send, Goto
<1>10. ASSUME NEW c \in Calls, SubmitPath(c) PROVE TruthInv'
  <2>1. PICK accepted, filled \in BOOLEAN :
          /\ Goto(c, "inserted", IF filled THEN "submitted" ELSE "done")
          /\ chain' = IF accepted THEN [chain EXCEPT ![c] = "pending"] ELSE chain
          /\ IF filled THEN UNCHANGED row ELSE SetRow(OrderOf[c], "FAILED", NoHash)
    BY <1>10 DEF SubmitPath
  <2>2. /\ \A d \in Calls \ {c} : pc'[d] = pc[d] /\ chain'[d] = chain[d]
        /\ pc[c] = "inserted" /\ pc'[c] \in {"submitted", "done"}
        /\ chain[c] = "none" /\ OrderOf[c] \in Orders
        /\ UNCHANGED <<received, work, pathOrders>> /\ OrderOf[c] \in pathOrders
    BY <1>10, <1>0, <2>1 DEF SubmitPath, Goto
  <2>3. received[OrderOf[c]] = NoHash
    BY <2>2
  <2>4. CASE filled
    <3>1. UNCHANGED row
      BY <2>1, <2>4
    <3> QED
      <4>1. OwnerUnpaid'
        BY <1>0, <2>2, <2>3, <3>1
      <4>2. OwnerStatus'
        BY <1>0, <2>2, <2>3, <3>1
      <4>3. HashOfOrder'
        BY <1>0, <2>2, <2>3, <3>1
      <4>4. VerdictOfChain'
        BY <1>0, <2>2, <2>3, <3>1
      <4>5. VerdictIsTrue'
        <5> SUFFICES ASSUME NEW p \in Orders
                     PROVE  /\ (row[p].status = "CONFIRMED"
                                => \E e \in Broadcast(p) : chain[e] = "success")'
                            /\ (row[p].status = "FAILED" /\ p \notin pathOrders
                                => \A e \in Broadcast(p) : chain[e] = "failed")'
          OBVIOUS
        <5>1. ASSUME row'[p].status = "CONFIRMED"
              PROVE  \E e \in Broadcast(p)' : chain'[e] = "success"
          <6>1. row[p].status = "CONFIRMED"
            BY <5>1, <3>1
          <6>2. PICK e \in Broadcast(p) : chain[e] = "success"
            BY <6>1
          <6>3. e # c /\ chain'[e] = chain[e]
            BY <2>2, <6>2
          <6> QED
            BY <6>2, <6>3
        <5>2. ASSUME row'[p].status = "FAILED", p \notin pathOrders'
              PROVE  \A e \in Broadcast(p)' : chain'[e] = "failed"
          <6>1. row[p].status = "FAILED" /\ p \notin pathOrders /\ p # OrderOf[c]
            BY <5>2, <2>2, <3>1
          <6>2. \A e \in Broadcast(p) : chain[e] = "failed"
            BY <6>1
          <6>3. \A e \in CallsFor(p) : chain'[e] = chain[e]
            BY <2>2, <6>1
          <6> QED
            BY <6>2, <6>3
        <5> QED
          BY <5>1, <5>2
      <4>6. ReceivedMatchesRow'
        BY <1>0, <2>2, <2>3, <3>1
      <4> QED
        BY <4>1, <4>2, <4>3, <4>4, <4>5, <4>6
  <2>5. CASE ~filled
    <3>1. /\ row'[OrderOf[c]].status = "FAILED" /\ row'[OrderOf[c]].hash = NoHash
          /\ \A p \in Orders \ {OrderOf[c]} : /\ row'[p].status = row[p].status
                                              /\ row'[p].hash = row[p].hash
      BY <1>0, <2>1, <2>5, SetRowFacts
    <3>2. pc'[c] = "done"
      BY <1>0, <2>1, <2>5 DEF Goto
    <3> QED
      <4>1. OwnerUnpaid'
        BY <1>0, <2>2, <2>3, <3>1, <3>2
      <4>2. OwnerStatus'
        BY <1>0, <2>2, <2>3, <3>1, <3>2
      <4>3. HashOfOrder'
        <5> SUFFICES ASSUME NEW p \in Orders, row'[p].hash # NoHash
                     PROVE  OrderOf[row'[p].hash] = p
          OBVIOUS
        <5>1. p # OrderOf[c]
          BY <3>1
        <5>2. row'[p].hash = row[p].hash
          BY <3>1, <5>1
        <5> QED
          BY <5>2
      <4>4. VerdictOfChain'
        BY <1>0, <2>2, <2>3, <3>1, <3>2
      <4>5. VerdictIsTrue'
        <5> SUFFICES ASSUME NEW p \in Orders
                     PROVE  /\ (row[p].status = "CONFIRMED"
                                => \E e \in Broadcast(p) : chain[e] = "success")'
                            /\ (row[p].status = "FAILED" /\ p \notin pathOrders
                                => \A e \in Broadcast(p) : chain[e] = "failed")'
          OBVIOUS
        <5>1. ASSUME row'[p].status = "CONFIRMED"
              PROVE  \E e \in Broadcast(p)' : chain'[e] = "success"
          <6>1. row[p].status = "CONFIRMED"
            BY <5>1, <3>1
          <6>2. PICK e \in Broadcast(p) : chain[e] = "success"
            BY <6>1
          <6>3. e # c /\ chain'[e] = chain[e]
            BY <2>2, <6>2
          <6> QED
            BY <6>2, <6>3
        <5>2. ASSUME row'[p].status = "FAILED", p \notin pathOrders'
              PROVE  \A e \in Broadcast(p)' : chain'[e] = "failed"
          <6>1. row[p].status = "FAILED" /\ p \notin pathOrders /\ p # OrderOf[c]
            BY <5>2, <2>2, <3>1
          <6>2. \A e \in Broadcast(p) : chain[e] = "failed"
            BY <6>1
          <6>3. \A e \in CallsFor(p) : chain'[e] = chain[e]
            BY <2>2, <6>1
          <6> QED
            BY <6>2, <6>3
        <5> QED
          BY <5>1, <5>2
      <4>6. ReceivedMatchesRow'
        BY <1>0, <2>2, <2>3, <3>1, <3>2
      <4> QED
        BY <4>1, <4>2, <4>3, <4>4, <4>5, <4>6
  <2> QED
    BY <2>4, <2>5
<1>11. ASSUME NEW c \in Calls, SaveSubmitted(c) PROVE TruthInv'
  BY <1>11, <1>0 DEF SaveSubmitted, SetRow, Goto
<1>12. ASSUME NEW c \in Calls, Enqueue(c) PROVE TruthInv'
  BY <1>12, <1>0 DEF Enqueue, Goto
<1>13. ASSUME NEW c \in Calls, MarkReceived(c) PROVE TruthInv'
  BY <1>13, <1>0 DEF MarkReceived, Goto
<1>14. ASSUME NEW c \in Calls, PersistenceFails(c) PROVE TruthInv'
  BY <1>14, <1>0 DEF PersistenceFails, Goto
<1>15. ASSUME NEW c \in Calls, Close(c) PROVE TruthInv'
  BY <1>15, <1>0 DEF Close
<1>16. ASSUME NEW o \in Orders, SweepAdd(o) PROVE TruthInv'
  BY <1>16, <1>0 DEF SweepAdd
<1>17. ASSUME NEW o \in Orders, TakeJob(o) PROVE TruthInv'
  BY <1>17, <1>0 DEF TakeJob
<1>18. ASSUME NEW o \in Orders, QueryChain(o) PROVE TruthInv'
  <2>1. UNCHANGED <<received, row, pc, chain, pathOrders>> /\ work[o].hash \in Calls
    BY <1>18, <1>0 DEF QueryChain
  <2>2. PICK v \in Settled : /\ work' = [work EXCEPT ![o].verdict = v]
                            /\ chain[work[o].hash] = IF v = "CONFIRMED" THEN "success" ELSE "failed"
    BY <1>18 DEF QueryChain
  <2>3. /\ work'[o].hash = work[o].hash /\ work'[o].verdict = v
        /\ \A p \in Orders \ {o} : work'[p] = work[p]
    BY <1>0, <2>2
  <2>4. VerdictOfChain'
    BY <2>1, <2>2, <2>3
  <2> QED
    BY <2>1, <2>4
<1>19. ASSUME NEW o \in Orders, AttemptFails(o) PROVE TruthInv'
  BY <1>19, <1>0 DEF AttemptFails, Idle
<1>20. ASSUME NEW o \in Orders, SaveVerdict(o) PROVE TruthInv'
  <2> DEFINE v == work[o].verdict
             h == work[o].hash
  <2>1. v \in Settled /\ h \in Calls /\ h = row[o].hash /\ OrderOf[h] = o
    BY <1>20, <1>0 DEF SaveVerdict
  <2>2. chain[h] = IF v = "CONFIRMED" THEN "success" ELSE "failed"
    BY <2>1
  <2>3. /\ row'[o].status = v /\ row'[o].hash = h
        /\ \A p \in Orders \ {o} : row'[p].status = row[p].status /\ row'[p].hash = row[p].hash
    BY <1>20, <1>0, <2>1, SetRowFacts DEF SaveVerdict
  <2>4. /\ UNCHANGED <<received, pc, chain, pathOrders>>
        /\ \A p \in Orders \ {o} : work'[p] = work[p]
        /\ work'[o].verdict = "none" /\ work'[o].hash = NoHash
    BY <1>20, <1>0 DEF SaveVerdict, Idle
  <2>5. \A c \in Calls : OrderOf[c] = o /\ chain[c] # "none" => c = h
    BY <1>0, <2>1, <2>2
  <2>6. \A c \in Calls : OrderOf[c] = o => pc[c] \notin {"inserted", "hashed"}
    BY <1>0, <2>1, <2>2
  <2> HIDE DEF v, h
  <2> QED
    <3>1. OwnerUnpaid'
      BY <1>0, <2>1, <2>2, <2>3, <2>4, <2>5, <2>6
    <3>2. OwnerStatus'
      BY <1>0, <2>1, <2>2, <2>3, <2>4, <2>5, <2>6
    <3>3. HashOfOrder'
      <4> SUFFICES ASSUME NEW p \in Orders, row'[p].hash # NoHash
                   PROVE  OrderOf[row'[p].hash] = p
        OBVIOUS
      <4>1. CASE p = o
        BY <2>1, <2>3, <4>1
      <4>2. CASE p # o
        BY <2>3, <4>2
      <4> QED
        BY <4>1, <4>2
    <3>4. VerdictOfChain'
      <4> SUFFICES ASSUME NEW p \in Orders, work'[p].verdict # "none"
                   PROVE  /\ p # o /\ work'[p] = work[p] /\ UNCHANGED chain
        OBVIOUS
      <4> QED
        BY <2>4
    <3>5. VerdictIsTrue'
      BY <1>0, <2>1, <2>2, <2>3, <2>4, <2>5, <2>6
    <3>6. ReceivedMatchesRow'
      <4> SUFFICES ASSUME NEW p \in Orders, received'[p] # NoHash
                   PROVE  /\ row'[p].hash = received'[p]
                          /\ row'[p].status \in Settled \cup {"SUBMITTED"}
        OBVIOUS
      <4>1. row[p].hash = received[p] /\ row[p].status \in Settled \cup {"SUBMITTED"}
        BY <2>4
      <4>2. CASE p = o
        BY <2>1, <2>3, <2>4, <4>1, <4>2
      <4>3. CASE p # o
        BY <2>3, <2>4, <4>1, <4>3
      <4> QED
        BY <4>2, <4>3
    <3> QED
      BY <3>1, <3>2, <3>3, <3>4, <3>5, <3>6
<1>21. ASSUME NEW o \in Orders, ExpireJob(o) PROVE TruthInv'
  BY <1>21, <1>0 DEF ExpireJob
<1>22. ASSUME NEW o \in Orders, RetryFailedJob(o) PROVE TruthInv'
  BY <1>22, <1>0 DEF RetryFailedJob
<1>23. ASSUME NEW o \in Orders, ChangePenalty(o) PROVE TruthInv'
  BY <1>23, <1>0 DEF ChangePenalty
<1>24. CASE StartSweep
  BY <1>24, <1>0 DEF StartSweep, Unconfirmed
<1>25. CASE CompleteGroup
  BY <1>25, <1>0 DEF CompleteGroup
<1>26. CASE Crash
  BY <1>26, <1>0 DEF Crash, Idle
<1>27. CASE UNCHANGED vars
  BY <1>27, <1>0 DEF vars
<1> QED
  BY <1>1, <1>2, <1>3, <1>4, <1>5, <1>6, <1>7, <1>8, <1>9, <1>10, <1>11,
     <1>12, <1>13, <1>14, <1>15, <1>16, <1>17, <1>18, <1>19, <1>20, <1>21,
     <1>22, <1>23, <1>24, <1>25, <1>26, <1>27 DEF Next, DistributePayout, Continue

LEMMA TruthInit == Init => TruthInv
  BY DEF Init, TruthInv, Owns, OwnerUnpaid, OwnerStatus, HashOfOrder, VerdictOfChain,
         VerdictIsTrue, ReceivedMatchesRow, Absent, Idle

LEMMA TruthInvariance == Safety => [](IInv /\ TruthInv)
<1>1. Init => TruthInv
  BY TruthInit
<1>2. IInv /\ TruthInv /\ [Next]_vars => TruthInv'
  BY TruthStep
<1> QED
  BY <1>1, <1>2, Invariance, PTL DEF Safety

\* A verdict in payout_transactions is the ledger's, and a member marked as
\* paid has the row of that payment, however the calls, the processor, the
\* sweep and the crashes interleave.
THEOREM RowsAreTrue == Safety => []RowsTellTheTruth
<1>1. TruthInv => RowsTellTheTruth
  BY DEF TruthInv, RowsTellTheTruth
<1> QED
  BY <1>1, TruthInvariance, PTL

-----------------------------------------------------------------------------
(* What SettlesUnlessExhausted rests on: a row that the reconciliation is     *)
(* under way with is still unsettled, so a verdict replaces none, and a hash  *)
(* that is recorded is the one that stays.                                    *)

\* A recorded hash is never dropped or replaced.
HashesStay ==
  [][\A o \in Orders : row[o].hash # NoHash => row'[o].hash = row[o].hash]_vars

\* A settled row stays as it is, unless the call that made it comes back from
\* the network only now and saves that it is SUBMITTED.
VerdictsStand ==
  [][\A o \in Orders : row[o].status \in Settled =>
       row'[o] = row[o] \/ \E c \in CallsFor(o) : SaveSubmitted(c)]_vars

\* What a worker has taken is not settled yet.
WorkIsOpen == \A o \in Orders : work[o].hash # NoHash => row[o].status \notin Settled

\* All the ways a row changes.
LEMMA RowMoves ==
  ASSUME IInv, TruthInv, [Next]_vars, NEW o \in Orders, row'[o] # row[o]
  PROVE  \/ row[o].status = "ABSENT" /\ row[o].hash = NoHash /\ row'[o].status \notin Settled
         \/ row[o].status = "PENDING_SUBMISSION" /\ row[o].hash = NoHash
         \/ \E c \in CallsFor(o) :
              /\ SaveSubmitted(c) /\ row[o].hash \in {NoHash, c}
              /\ row'[o].status = "SUBMITTED" /\ row'[o].hash = c
         \/ /\ SaveVerdict(o) /\ work[o].hash # NoHash /\ row[o].hash = work[o].hash
            /\ row'[o].hash = work[o].hash /\ work'[o].hash = NoHash
<1>0. /\ row \in [Orders -> [status : Statuses, hash : Hashes]]
      /\ work \in [Orders -> [hash : Hashes, verdict : {"none"} \cup Settled]]
      /\ \A c \in Calls : OrderOf[c] \in Orders
  BY OrderOfAssumption DEF IInv, TypeOK
<1>1. ASSUME NEW c \in Calls, Insert(c)
      PROVE  row[o].status = "ABSENT" /\ row[o].hash = NoHash /\ row'[o].status \notin Settled
  <2>1. row[OrderOf[c]].status = "ABSENT"
        /\ row' = [row EXCEPT ![OrderOf[c]] = [status |-> "PENDING_SUBMISSION", hash |-> NoHash]]
    BY <1>1 DEF Insert, SetRow
  <2> QED
    BY <1>0, <2>1 DEF IInv, AbsentHasNoHash, Settled
<1>2. ASSUME NEW c \in Calls, RejectBeforeHash(c) \/ RecordHash(c) \/ SubmitPath(c)
      PROVE  row[o].status = "PENDING_SUBMISSION" /\ row[o].hash = NoHash
  <2>1. pc[c] = "inserted" /\ \A p \in Orders \ {OrderOf[c]} : row'[p] = row[p]
    BY <1>0, <1>2 DEF RejectBeforeHash, RecordHash, SubmitPath, Goto, SetRow
  <2>2. o = OrderOf[c]
    BY <2>1
  <2> QED
    BY <2>1, <2>2 DEF IInv, TruthInv, OwnerWroteHash, OwnerStatus
<1>3. ASSUME NEW c \in Calls, SaveSubmitted(c)
      PROVE  \E d \in CallsFor(o) :
               /\ SaveSubmitted(d) /\ row[o].hash \in {NoHash, d}
               /\ row'[o].status = "SUBMITTED" /\ row'[o].hash = d
  <2>1. pc[c] = "submitted"
        /\ row' = [row EXCEPT ![OrderOf[c]] = [status |-> "SUBMITTED", hash |-> c]]
    BY <1>3 DEF SaveSubmitted, Goto, SetRow
  <2>2. o = OrderOf[c]
    BY <1>0, <2>1
  <2>3. row[o].hash \in {NoHash, c} /\ row'[o].status = "SUBMITTED" /\ row'[o].hash = c
    BY <1>0, <2>1, <2>2 DEF IInv, OwnerWroteHash, Owns
  <2> QED
    BY <1>3, <2>2, <2>3 DEF CallsFor
<1>4. ASSUME NEW p \in Orders, SaveVerdict(p)
      PROVE  /\ SaveVerdict(o) /\ work[o].hash # NoHash /\ row[o].hash = work[o].hash
             /\ row'[o].hash = work[o].hash /\ work'[o].hash = NoHash
  <2>1. /\ job[p].state = "active"
        /\ row' = [row EXCEPT ![p] = [status |-> work[p].verdict, hash |-> work[p].hash]]
        /\ work' = [work EXCEPT ![p] = Idle]
    BY <1>4 DEF SaveVerdict, SetRow
  <2>2. p = o
    BY <1>0, <2>1
  <2>3. row'[o].hash = work[o].hash /\ work'[o] = Idle
    BY <1>0, <2>1, <2>2
  <2> QED
    BY <1>4, <2>1, <2>2, <2>3 DEF IInv, WorkerHash, Idle
<1>5. ASSUME NEW c \in Calls,
             \/ LoadGroup(c) \/ LoadRecipient(c) \/ CountPenalties(c) \/ FindExisting(c)
             \/ MockHash(c) \/ Send(c) \/ Enqueue(c) \/ MarkReceived(c) \/ PersistenceFails(c)
             \/ Close(c)
      PROVE  row' = row
  BY <1>5 DEF LoadGroup, LoadRecipient, CountPenalties, FindExisting, MockHash, Send, Enqueue,
     MarkReceived, PersistenceFails, Close
<1>6. ASSUME NEW p \in Orders,
             \/ SweepAdd(p) \/ TakeJob(p) \/ QueryChain(p) \/ AttemptFails(p) \/ ExpireJob(p)
             \/ RetryFailedJob(p) \/ ChangePenalty(p)
      PROVE  row' = row
  BY <1>6 DEF SweepAdd, TakeJob, QueryChain, AttemptFails, ExpireJob, RetryFailedJob, ChangePenalty,
     callVars
<1>7. StartSweep \/ CompleteGroup \/ Crash \/ UNCHANGED vars => row' = row
  BY DEF StartSweep, CompleteGroup, Crash, callVars, vars
<1> QED
  BY <1>1, <1>2, <1>3, <1>4, <1>5, <1>6, <1>7 DEF Next, DistributePayout, Continue

\* Only TakeJob hands a worker a row, and only one that is unconfirmed.
LEMMA WorkMoves ==
  ASSUME IInv, [Next]_vars, NEW o \in Orders, work'[o].hash # NoHash
  PROVE  work[o].hash # NoHash \/ (row' = row /\ row[o].status \notin Settled)
<1>0. work \in [Orders -> [hash : Hashes, verdict : {"none"} \cup Settled]]
  BY DEF IInv, TypeOK
<1>1. ASSUME NEW p \in Orders, TakeJob(p), work'[o] # work[o]
      PROVE  row' = row /\ row[o].status \notin Settled
  <2>1. row' = row
    BY <1>1 DEF TakeJob, callVars
  <2>2. Unconfirmed(row[p]) /\ o = p
    BY <1>0, <1>1 DEF TakeJob
  <2> QED
    BY <2>1, <2>2 DEF Unconfirmed, Settled
<1>2. ASSUME NEW p \in Orders, QueryChain(p)
      PROVE  work'[o].hash = work[o].hash
  BY <1>0, <1>2 DEF QueryChain
<1>3. ASSUME NEW p \in Orders, AttemptFails(p) \/ SaveVerdict(p)
      PROVE  work'[o] = work[o] \/ work'[o] = Idle
  BY <1>0, <1>3 DEF AttemptFails, SaveVerdict
<1>4. ASSUME NEW p \in Orders,
             SweepAdd(p) \/ ExpireJob(p) \/ RetryFailedJob(p) \/ ChangePenalty(p)
      PROVE  work' = work
  BY <1>4 DEF SweepAdd, ExpireJob, RetryFailedJob, ChangePenalty, queueVars
<1>5. ASSUME NEW c \in Calls, DistributePayout(c) \/ Close(c)
      PROVE  work' = work
  BY <1>5 DEF DistributePayout, Continue, LoadGroup, LoadRecipient, CountPenalties, FindExisting,
     Insert, RejectBeforeHash, RecordHash, MockHash, Send, SubmitPath, SaveSubmitted, Enqueue,
     MarkReceived, PersistenceFails, Close, queueVars
<1>6. StartSweep \/ CompleteGroup \/ UNCHANGED vars => work' = work
  BY DEF StartSweep, CompleteGroup, queueVars, vars
<1>7. Crash => work'[o] = Idle
  BY DEF Crash
<1>8. work'[o] # Idle
  BY DEF Idle
<1> QED
  BY <1>1, <1>2, <1>3, <1>4, <1>5, <1>6, <1>7, <1>8 DEF Next

LEMMA OpenStep ==
  ASSUME IInv, TruthInv, WorkIsOpen, [Next]_vars
  PROVE  WorkIsOpen'
<1> SUFFICES ASSUME NEW o \in Orders, work'[o].hash # NoHash
             PROVE  row'[o].status \notin Settled
  BY DEF WorkIsOpen
<1>1. CASE row' = row /\ row[o].status \notin Settled
  BY <1>1
<1>2. CASE work[o].hash # NoHash
  <2>1. row[o].hash = work[o].hash /\ row[o].status \notin Settled
    BY <1>2 DEF IInv, WorkerHash, WorkIsOpen
  <2>2. row'[o] = row[o] \/ row'[o].status = "SUBMITTED"
    BY <1>2, <2>1, RowMoves
  <2> QED
    BY <2>1, <2>2 DEF Settled
<1> QED
  BY <1>1, <1>2, WorkMoves

\* The safety half of SettlesUnlessExhausted, for any calls, orders, attempts
\* and crashes: the hash that onBeforeSubmit or the call has saved stays the
\* hash of the row, and what the processor, or the call's catch block, has
\* settled is not settled again or taken back, but by the call itself when it
\* saves what it has sent (distributePayout, PayoutReconciliationProcessor).
THEOREM VerdictsStandTheorem == Safety => HashesStay /\ VerdictsStand
<1> DEFINE Inv == IInv /\ TruthInv
           ActH == \A o \in Orders : row[o].hash # NoHash => row'[o].hash = row[o].hash
           ActV == \A o \in Orders : row[o].status \in Settled =>
                     row'[o] = row[o] \/ \E c \in CallsFor(o) : SaveSubmitted(c)
<1>1. Init => WorkIsOpen
  BY DEF Init, WorkIsOpen, Idle
<1>2. ASSUME Inv, WorkIsOpen, [Next]_vars
      PROVE  WorkIsOpen' /\ [ActH]_vars /\ [ActV]_vars
  <2>1. WorkIsOpen'
    BY <1>2, OpenStep
  <2>2. ActH
    <3> SUFFICES ASSUME NEW o \in Orders, row[o].hash # NoHash, row'[o] # row[o]
                 PROVE  row'[o].hash = row[o].hash
      OBVIOUS
    <3> QED
      BY <1>2, RowMoves
  <2>3. ActV
    <3> SUFFICES ASSUME NEW o \in Orders, row[o].status \in Settled, row'[o] # row[o]
                 PROVE  \E c \in CallsFor(o) : SaveSubmitted(c)
      OBVIOUS
    <3> QED
      BY <1>2, RowMoves DEF WorkIsOpen, Settled
  <2> QED
    BY <2>1, <2>2, <2>3
<1>3. Safety => [][ActH]_vars /\ [][ActV]_vars
  <2>1. Safety => []Inv
    BY TruthInvariance
  <2> HIDE DEF Inv, ActH, ActV
  <2> QED
    BY <1>1, <1>2, <2>1, PTL DEF Safety
<1> QED
  BY <1>3 DEF HashesStay, VerdictsStand

-----------------------------------------------------------------------------
(* Refinement: each step of distributePayout, of the queue or of the network *)
(* is one step of the promise or changes nothing it speaks of.              *)
LEMMA TheOneFacts ==
  /\ TheOne({}) = NoHash
  /\ \A c : TheOne({c}) = c
BY DEF TheOne

\* A step that neither adds a row, nor reaches the network for the first time,
\* nor marks a recipient is a stutter of the promise.
LEMMA StutterStep ==
  ASSUME \A o \in Orders : row'[o].status = "ABSENT" <=> row[o].status = "ABSENT",
         \A c \in Calls : chain'[c] = "none" <=> chain[c] = "none",
         \A o \in Orders : received'[o] = NoHash <=> received[o] = NoHash
  PROVE  UNCHANGED Promise!vars
<1>1. \A o \in Orders : Broadcast(o)' = Broadcast(o)
  BY DEF Broadcast, CallsFor
<1>2. \A o \in Orders : SentFor(o)' = SentFor(o)
  BY <1>1 DEF SentFor
<1> QED
  BY <1>2 DEF Promise!vars

\* The first transaction the network accepts for an order.
LEMMA SubmitStep ==
  ASSUME IInv, IInv', NEW c \in Calls, pc[c] \in {"inserted", "hashed"},
         chain' = [chain EXCEPT ![c] = "pending"],
         \A o \in Orders : row'[o].status = "ABSENT" <=> row[o].status = "ABSENT",
         UNCHANGED received
  PROVE  Promise!Submit(OrderOf[c], c)
<1> DEFINE o == OrderOf[c]
<1>0. o \in Orders /\ TypeOK /\ AtMostOneBroadcast /\ AtMostOneBroadcast'
  BY OrderOfAssumption DEF IInv
<1>1. Broadcast(o) = {} /\ row[o].status # "ABSENT"
  BY DEF IInv, NothingSentBefore, OwnedRowExists, Owns, Broadcast, CallsFor
<1>2. /\ chain'[c] = "pending"
      /\ \A d \in Calls \ {c} : chain'[d] = chain[d]
  BY <1>0 DEF TypeOK
<1>3. Broadcast(o)' = {c}
  BY <1>0, <1>1, <1>2 DEF Broadcast, CallsFor
<1>4. SentFor(o) = NoHash /\ SentFor(o)' = c
  BY <1>1, <1>3, TheOneFacts DEF SentFor
<1>5. \A p \in Orders \ {o} : Broadcast(p)' = Broadcast(p)
  BY <1>2 DEF Broadcast, CallsFor
<1>6. \A p \in Orders \ {o} : SentFor(p)' = SentFor(p)
  BY <1>5 DEF SentFor
<1>7. [p \in Orders |-> SentFor(p)]' = [[p \in Orders |-> SentFor(p)] EXCEPT ![o] = c]
  BY <1>4, <1>6
<1> QED
  BY <1>0, <1>1, <1>4, <1>7 DEF Promise!Submit

LEMMA PromiseStep ==
  ASSUME IInv, IInv', TruthInv, [Next]_vars
  PROVE  [Promise!Next]_(Promise!vars)
<1>0. TypeOK /\ \A c \in Calls : OrderOf[c] \in Orders
  BY OrderOfAssumption DEF IInv
<1> DEFINE SameRows == \A o \in Orders : row'[o].status = "ABSENT" <=> row[o].status = "ABSENT"
           SameChain == \A c \in Calls : chain'[c] = "none" <=> chain[c] = "none"
           SameMarks == UNCHANGED received
<1>1. ASSUME SameRows, SameChain, SameMarks PROVE UNCHANGED Promise!vars
  BY <1>1, StutterStep
<1>2. ASSUME NEW c \in Calls, pc[c] \in {"inserted", "hashed"}, SameRows, SameMarks,
             NEW accepted \in BOOLEAN,
             chain' = IF accepted THEN [chain EXCEPT ![c] = "pending"] ELSE chain
      PROVE  [Promise!Next]_(Promise!vars)
  <2>1. CASE accepted
    <3>1. Promise!Submit(OrderOf[c], c)
      BY <1>2, <2>1, SubmitStep
    <3> QED
      BY <1>0, <3>1 DEF Promise!Next
  <2>2. CASE ~accepted
    BY <1>1, <1>2, <2>2
  <2> QED
    BY <2>1, <2>2
<1>3. ASSUME NEW c \in Calls, Owns(c) PROVE row[OrderOf[c]].status # "ABSENT"
  BY <1>3 DEF IInv, OwnedRowExists
<1>4. ASSUME NEW o \in Orders, NEW s \in Statuses \ {"ABSENT"}, NEW h \in Hashes,
             row[o].status # "ABSENT", SetRow(o, s, h)
      PROVE  SameRows
  BY <1>0, <1>4, SetRowFacts
<1> HIDE DEF SameRows, SameChain, SameMarks
<1> USE DEF callVars, queueVars, envVars
<1>5. ASSUME UNCHANGED <<received, row, chain>> PROVE UNCHANGED Promise!vars
  BY <1>1, <1>5 DEF SameRows, SameChain, SameMarks
<1>6. ASSUME NEW c \in Calls, DistributePayout(c) PROVE [Promise!Next]_(Promise!vars)
  <2>1. CASE \/ LoadGroup(c) \/ LoadRecipient(c) \/ CountPenalties(c) \/ FindExisting(c)
             \/ MockHash(c) \/ Enqueue(c) \/ PersistenceFails(c)
    BY <1>5, <2>1 DEF LoadGroup, LoadRecipient, CountPenalties, FindExisting, MockHash,
                      Enqueue, PersistenceFails
  <2>2. CASE Insert(c)
    <3>1. CASE row[OrderOf[c]].status # "ABSENT"
      BY <1>5, <2>2, <3>1 DEF Insert
    <3>2. CASE row[OrderOf[c]].status = "ABSENT"
      <4>1. /\ row'[OrderOf[c]].status = "PENDING_SUBMISSION"
            /\ \A p \in Orders \ {OrderOf[c]} : row'[p].status = row[p].status
        BY <1>0, <2>2, <3>2, SetRowFacts DEF Insert, Statuses, Hashes
      <4>2. UNCHANGED <<received, chain>>
        BY <2>2 DEF Insert
      <4>3. \A o \in Orders : SentFor(o)' = SentFor(o)
        BY <4>2 DEF SentFor, Broadcast, CallsFor
      <4>4. Promise!Intend(OrderOf[c])
        BY <1>0, <3>2, <4>1, <4>2, <4>3 DEF Promise!Intend
      <4> QED
        BY <1>0, <4>4 DEF Promise!Next
    <3> QED
      BY <3>1, <3>2
  <2>3. CASE RejectBeforeHash(c) \/ RecordHash(c) \/ SaveSubmitted(c)
    <3>1. SameRows
      BY <1>0, <1>3, <1>4, <2>3
      DEF RejectBeforeHash, RecordHash, SaveSubmitted, Goto, Owns, Statuses, Hashes
    <3> QED
      BY <1>1, <2>3, <3>1 DEF RejectBeforeHash, RecordHash, SaveSubmitted, SameChain, SameMarks
  <2>4. CASE Send(c)
    <3>1. pc[c] = "hashed" /\ SameRows /\ SameMarks
      BY <2>4 DEF Send, Goto, SameRows, SameMarks
    <3>2. PICK accepted \in BOOLEAN :
            chain' = IF accepted THEN [chain EXCEPT ![c] = "pending"] ELSE chain
      BY <2>4 DEF Send
    <3> QED
      BY <1>2, <3>1, <3>2
  <2>5. CASE SubmitPath(c)
    <3>1. PICK accepted, filled \in BOOLEAN :
            /\ chain' = IF accepted THEN [chain EXCEPT ![c] = "pending"] ELSE chain
            /\ IF filled THEN UNCHANGED row ELSE SetRow(OrderOf[c], "FAILED", NoHash)
      BY <2>5 DEF SubmitPath
    <3>2. pc[c] = "inserted" /\ SameMarks
      BY <2>5 DEF SubmitPath, Goto, SameMarks
    <3>3. SameRows
      <4>1. CASE filled
        BY <3>1, <4>1 DEF SameRows
      <4>2. CASE ~filled
        BY <1>0, <1>3, <1>4, <3>1, <3>2, <4>2 DEF Owns, Statuses, Hashes
      <4> QED
        BY <4>1, <4>2
    <3> QED
      BY <1>2, <3>1, <3>2, <3>3
  <2>6. CASE MarkReceived(c)
    <3>1. /\ pc[c] = "enqueued" /\ UNCHANGED <<row, chain>>
          /\ received' = [received EXCEPT ![OrderOf[c]] = c]
      BY <2>6 DEF MarkReceived, Goto
    <3>2. row[OrderOf[c]].status # "ABSENT" /\ received[OrderOf[c]] = NoHash
      BY <1>3, <3>1 DEF TruthInv, OwnerUnpaid, Owns
    <3>3. \A o \in Orders : SentFor(o)' = SentFor(o)
      BY <3>1 DEF SentFor, Broadcast, CallsFor
    <3>4. {o \in Orders : received'[o] # NoHash}
          = {o \in Orders : received[o] # NoHash} \cup {OrderOf[c]}
      BY <1>0, <3>1, NoHashAssumption DEF TypeOK
    <3>5. Promise!Mark(OrderOf[c])
      BY <1>0, <3>1, <3>2, <3>3, <3>4 DEF Promise!Mark
    <3> QED
      BY <1>0, <3>5 DEF Promise!Next
  <2> QED
    BY <1>6, <2>1, <2>2, <2>3, <2>4, <2>5, <2>6 DEF DistributePayout, Continue
<1>7. ASSUME NEW c \in Calls, Close(c) PROVE UNCHANGED Promise!vars
  <2>1. SameChain
    BY <1>0, <1>7 DEF Close, SameChain, TypeOK
  <2> QED
    BY <1>1, <1>7, <2>1 DEF Close, SameRows, SameMarks
<1>8. ASSUME NEW o \in Orders, SaveVerdict(o) PROVE UNCHANGED Promise!vars
  <2>1. row[o].status # "ABSENT" /\ work[o].verdict \in Settled /\ work[o].hash \in Hashes
    BY <1>0, <1>8 DEF SaveVerdict, IInv, TypeOK, AbsentHasNoHash, WorkerHash
  <2>2. SameRows
    BY <1>4, <1>8, <2>1 DEF SaveVerdict, Settled, Statuses
  <2> QED
    BY <1>1, <1>8, <2>2 DEF SaveVerdict, SameChain, SameMarks
<1>9. ASSUME NEW o \in Orders,
             \/ SweepAdd(o) \/ TakeJob(o) \/ QueryChain(o) \/ AttemptFails(o)
             \/ ExpireJob(o) \/ RetryFailedJob(o) \/ ChangePenalty(o)
      PROVE  UNCHANGED Promise!vars
  BY <1>5, <1>9 DEF SweepAdd, TakeJob, QueryChain, AttemptFails, ExpireJob, RetryFailedJob,
                    ChangePenalty
<1>10. ASSUME StartSweep \/ CompleteGroup \/ Crash \/ UNCHANGED vars
       PROVE  UNCHANGED Promise!vars
  BY <1>5, <1>10 DEF StartSweep, CompleteGroup, Crash, vars
<1> QED
  BY <1>6, <1>7, <1>8, <1>9, <1>10 DEF Next

\* distributePayout, with its rows, queue, retries and crashes, implements the
\* promise of PayoutPromise: write-ahead, at most one submission, at most one
\* marking of the recipient.
THEOREM PromiseIsKept == Safety => KeepsPromise
<1>1. Init => Promise!Init
  BY TheOneFacts
  DEF Init, Promise!Init, Absent, SentFor, Broadcast, CallsFor
<1>2. IInv /\ IInv' /\ TruthInv /\ [Next]_vars => [Promise!Next]_(Promise!vars)
  BY PromiseStep
<1> QED
  BY <1>1, <1>2, TruthInvariance, PTL DEF Safety, KeepsPromise, Promise!Spec
=============================================================================
