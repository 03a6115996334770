------------------------------ MODULE EventSync ------------------------------
(***************************************************************************)
(* EventSyncProcessor: the jobs that record Transfer and Approval events   *)
(* of the chain against the membership of a wallet.  Up to three of them   *)
(* run at a time in each worker.  A delivery is a job: the same transfer   *)
(* may be delivered more than once, and a job that throws is tried again.  *)
(* One member of one group; a job reads the member, awaits, and saves the  *)
(* whole entity back as it has read and changed it.                        *)
(***************************************************************************)
EXTENDS Naturals, FiniteSets

CONSTANTS
  Transfers,    \* Transfer events of the member's wallet,
  Deliveries,   \* the jobs that deliver them,
  TransferOf,   \* which delivers which, and
  Approvals,    \* the jobs that deliver an Approval event of the wallet
  SyncAttempts,  \* attempts of a job, 3 in the code
  MaxRound,     \* bound: rounds of the group
  MaxFaults     \* bound: errors and crashes

ASSUME DeliveriesAssumption ==
  /\ IsFiniteSet(Transfers)
  /\ TransferOf \in [Deliveries -> Transfers]
  /\ Deliveries \cap Approvals = {}
ASSUME NumbersAssumption ==
  SyncAttempts \in Nat \ {0} /\ MaxRound \in Nat \ {0} /\ MaxFaults \in Nat

VARIABLES
  rounds,  \* roundNumber of the contribution stored for a transfer, 0 if none
  member,  \* the membership
  round,   \* group.currentRound
  active,  \* group.status = ACTIVE
  at,      \* where each job stands,
  seen,    \* the member and
  inRound, \* the round it has read, and
  tries,   \* the attempts it has begun
  faults

groupVars == <<round, active>>
jobVars == <<seen, inRound, tries>>
syncVars == <<rounds, member, round, active, at, seen, inRound, tries, faults>>

-----------------------------------------------------------------------------
Jobs == Deliveries \cup Approvals
Members == [paid : BOOLEAN, made : Nat, received : BOOLEAN]
Steps == {"waiting", "find", "resolve", "group", "insert", "save", "done", "dead"}
InHand == {"find", "resolve", "group", "insert", "save"}

SyncTypeOK ==
  /\ rounds \in [Transfers -> 0 .. MaxRound]
  /\ member \in Members
  /\ round \in 1 .. MaxRound
  /\ active \in BOOLEAN
  /\ at \in [Jobs -> Steps]
  /\ seen \in [Jobs -> Members]
  /\ inRound \in [Jobs -> 1 .. MaxRound]
  /\ tries \in [Jobs -> 0 .. SyncAttempts]
  /\ faults \in 0 .. MaxFaults

SyncInit ==
  /\ rounds = [t \in Transfers |-> 0]
  /\ member = [paid |-> FALSE, made |-> 0, received |-> FALSE]
  /\ round = 1
  /\ active = TRUE
  /\ at = [j \in Jobs |-> "waiting"]
  /\ seen = [j \in Jobs |-> member]
  /\ inRound = [j \in Jobs |-> 1]
  /\ tries = [j \in Jobs |-> 0]
  /\ faults = 0

-----------------------------------------------------------------------------
JobGoes(j, from, to) == at[j] = from /\ at' = [at EXCEPT ![j] = to]

Take(j) ==
  /\ JobGoes(j, "waiting", IF j \in Approvals THEN "resolve" ELSE "find")
  /\ tries' = [tries EXCEPT ![j] = @ + 1]
  /\ UNCHANGED <<rounds, member, groupVars, seen, inRound, faults>>

\* A transfer that has a contribution already is skipped.
FindExisting(j) ==
  /\ JobGoes(j, "find", IF rounds[TransferOf[j]] = 0 THEN "resolve" ELSE "done")
  /\ UNCHANGED <<rounds, member, groupVars, jobVars, faults>>

ResolveMember(j) ==
  /\ JobGoes(j, "resolve", "group")
  /\ seen' = [seen EXCEPT ![j] = member]
  /\ UNCHANGED <<rounds, member, groupVars, inRound, tries, faults>>

\* Nothing is done for a group that is not ACTIVE, nor for a second approval.
CheckGroup(j) ==
  /\ JobGoes(j, "group", IF ~active \/ (j \in Approvals /\ seen[j].received) THEN "done"
                      ELSE IF j \in Approvals THEN "save" ELSE "insert")
  /\ inRound' = [inRound EXCEPT ![j] = round]
  /\ UNCHANGED <<rounds, member, groupVars, seen, tries, faults>>

\* The job that throws is tried again, or moved to the dead-letter queue.
Fails(j) ==
  at' = [at EXCEPT ![j] = IF tries[j] < SyncAttempts THEN "waiting" ELSE "dead"]

\* Mutation of InsertRow: a row that is there already is ignored.
InsertOrIgnore(j) ==
  LET t == TransferOf[j] IN
  /\ JobGoes(j, "insert", "save")
  /\ rounds' = [rounds EXCEPT ![t] = IF @ = 0 THEN inRound[j] ELSE @]
  /\ UNCHANGED <<member, groupVars, jobVars, faults>>

\* transactionHash is unique: a second insert throws.
InsertRow(j) ==
  LET t == TransferOf[j] IN
  /\ \/ rounds[t] = 0 /\ JobGoes(j, "insert", "save") /\ rounds' = [rounds EXCEPT ![t] = inRound[j]]
     \/ rounds[t] # 0 /\ at[j] = "insert" /\ Fails(j) /\ UNCHANGED rounds
  /\ UNCHANGED <<member, groupVars, jobVars, faults>>

\* The entity goes back as it was read, with the changes made to it.
SaveMember(j) ==
  /\ JobGoes(j, "save", "done")
  /\ member' = IF j \in Approvals THEN [seen[j] EXCEPT !.received = TRUE]
               ELSE [seen[j] EXCEPT !.paid = TRUE, !.made = @ + 1]
  /\ UNCHANGED <<rounds, groupVars, jobVars, faults>>

\* The database fails under a job, or its worker dies.
JobFails(j) ==
  /\ faults < MaxFaults /\ faults' = faults + 1
  /\ at[j] \in InHand
  /\ Fails(j)
  /\ UNCHANGED <<rounds, member, groupVars, jobVars>>

\* Meanwhile, the payment closes the round: tryAdvanceRound resets the flag
\* and saves the next round, or completes the group after the last.
AdvanceRound ==
  /\ active /\ member.paid
  /\ \/ /\ round < MaxRound /\ round' = round + 1
        /\ member' = [member EXCEPT !.paid = FALSE]
        /\ UNCHANGED active
     \/ round = MaxRound /\ active' = FALSE /\ UNCHANGED <<round, member>>
  /\ UNCHANGED <<rounds, at, jobVars, faults>>

\* The payout service marks the member as the recipient of its round.
MarkReceived ==
  /\ ~member.received
  /\ member' = [member EXCEPT !.received = TRUE]
  /\ UNCHANGED <<rounds, groupVars, at, jobVars, faults>>

-----------------------------------------------------------------------------
ContinueJob(j) ==
  \/ Take(j) \/ ResolveMember(j) \/ CheckGroup(j) \/ SaveMember(j)
  \/ j \in Deliveries /\ (FindExisting(j) \/ InsertRow(j))

SyncNext ==
  \/ \E j \in Jobs : ContinueJob(j) \/ JobFails(j)
  \/ AdvanceRound
  \/ MarkReceived

\* Workers take the jobs that wait, and jobs go on.
SyncFairness == \A j \in Jobs : WF_syncVars(ContinueJob(j))

SyncSpec == SyncInit /\ [][SyncNext]_syncVars /\ SyncFairness

-----------------------------------------------------------------------------
Recorded == {t \in Transfers : rounds[t] # 0}

(* However often a transfer is delivered and its job tried, in whatever
   order with others, it is counted at most once. *)
CountedAtMostOnce == member.made <= Cardinality(Recorded)

(* A contribution is stored for a round the group has reached, and once
   stored is not moved to another round by a later delivery. *)
RecordedForGood ==
  [][\A t \in Recorded : rounds'[t] = rounds[t] /\ rounds'[t] <= round]_syncVars

(* Every job ends, in the dead-letter queue at the latest. *)
EveryJobSettles == \A j \in Jobs : <>(at[j] \in {"done", "dead"})

(* Once its jobs have ended, a recorded transfer has been counted ("Idempotency:
   skip if already recorded"). *)
CountedWhenSettled ==
  (\A j \in Jobs : at[j] = "done") => member.made = Cardinality(Recorded)
=============================================================================
