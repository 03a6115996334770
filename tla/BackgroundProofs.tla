-------------------------- MODULE BackgroundProofs --------------------------
(* What runs behind the API: the event listener and the sync jobs of          *)
(* MCEvents, and the scheduled tasks, trust scores, balance monitor and KYC   *)
(* review of MCBackground.                                                    *)
(*                                                                            *)
(* The listener's polls pass nothing over and write nothing twice, and the    *)
(* sync jobs count nothing twice. A poll is safe because whatever lies behind *)
(* the checkpoint, behind what a poll has read of it, and behind its place in *)
(* the page is processed or in a page: Behind below. A transfer is counted at *)
(* most once because the count a job writes back is one more than a count     *)
(* read before its transfer was on record, and a transfer on record stays     *)
(* there: CountHolds. A user marked as reminded was mailed because the run    *)
(* that is about to mark one has mailed that one: TasksInv. The breaker opens *)
(* on failures only because a closed one has counted no failed load more than *)
(* twice: BalanceInv.                                                         *)
EXTENDS MCEvents, MCBackground, FiniteSetTheorems, SequenceTheorems,
        WellFoundedInduction, TLAPS

-----------------------------------------------------------------------------
(* Sync jobs. *)

\* SyncTypeOK without the bounds of rounds and attempts.
SyncTypes ==
  /\ rounds \in [Transfers -> Nat]
  /\ member \in Members
  /\ round \in Nat \ {0}
  /\ at \in [Jobs -> Steps]
  /\ seen \in [Jobs -> Members]
  /\ inRound \in [Jobs -> Nat \ {0}]

\* What a job has read, or is about to write, does not exceed what is recorded.
CountHolds(j) ==
  /\ at[j] \in {"group", "insert"} => seen[j].made <= Cardinality(Recorded)
  /\ at[j] = "save" /\ j \in Approvals => seen[j].made <= Cardinality(Recorded)
  /\ at[j] = "save" /\ j \in Deliveries => seen[j].made + 1 <= Cardinality(Recorded)

CInv ==
  /\ SyncTypes
  /\ CountedAtMostOnce
  /\ \A j \in Jobs : CountHolds(j)

LEMMA RecordedFinite ==
  ASSUME SyncTypes
  PROVE  IsFiniteSet(Recorded) /\ Cardinality(Recorded) \in Nat
<1>1. Recorded \in SUBSET Transfers
  BY DEF Recorded
<1>2. IsFiniteSet(Recorded)
  BY <1>1, FS_Subset, DeliveriesAssumption
<1> QED
  BY <1>2, FS_CardinalityType

\* What the writes do to a member.
LEMMA Received ==
  ASSUME NEW m \in Members
  PROVE  [m EXCEPT !.received = TRUE] \in Members /\ [m EXCEPT !.received = TRUE].made = m.made
BY DEF Members

LEMMA Reset ==
  ASSUME NEW m \in Members
  PROVE  [m EXCEPT !.paid = FALSE] \in Members /\ [m EXCEPT !.paid = FALSE].made = m.made
BY DEF Members

LEMMA Paid ==
  ASSUME NEW m \in Members, NEW n \in Nat,
         NEW v, v = [m EXCEPT !.paid = TRUE], NEW w, w = [v EXCEPT !.made = n]
  PROVE  w \in Members /\ w.made = n
<1>1. v \in Members
  BY DEF Members
<1> QED
  BY <1>1 DEF Members

\* What a job saves.
LEMMA Saved ==
  ASSUME NEW j \in Jobs, seen[j] \in Members, SaveMember(j)
  PROVE  /\ member' \in Members
         /\ member'.made = IF j \in Approvals THEN seen[j].made ELSE seen[j].made + 1
<1>1. PICK m \in Members : m = seen[j]
  OBVIOUS
<1>2. PICK n \in Nat : n = m.made + 1
  BY DEF Members
<1>3. member' = IF j \in Approvals THEN [m EXCEPT !.received = TRUE]
                ELSE [m EXCEPT !.paid = TRUE, !.made = n]
  BY <1>1, <1>2 DEF SaveMember
<1>4. CASE j \in Approvals
  BY <1>1, <1>3, <1>4, Received
<1>5. CASE j \notin Approvals
  <2>1. member' = [m EXCEPT !.paid = TRUE, !.made = n]
    BY <1>3, <1>5
  <2>2. PICK v : v = [m EXCEPT !.paid = TRUE]
    OBVIOUS
  <2>3. member' = [v EXCEPT !.made = n]
    BY <2>1, <2>2
  <2>4. member' \in Members /\ member'.made = n
    BY <2>2, <2>3, Paid
  <2> QED
    BY <1>1, <1>2, <1>5, <2>4
<1> QED
  BY <1>4, <1>5

LEMMA CountsInit == SyncInit => CInv
<1> SUFFICES ASSUME SyncInit
             PROVE  CInv
  OBVIOUS
<1>1. SyncTypes
  BY DEF SyncInit, SyncTypes, Members, Steps
<1>2. Recorded = {}
  BY DEF SyncInit, Recorded
<1>3. Cardinality(Recorded) = 0
  BY <1>2, FS_EmptySet
<1> QED
  BY <1>1, <1>3 DEF CInv, SyncInit, CountedAtMostOnce, CountHolds

\* A job j moves on, and neither the record nor the member changes.
LEMMA MoveKeeps ==
  ASSUME CInv, NEW j \in Jobs, NEW s \in Steps, at' = [at EXCEPT ![j] = s],
         s \in {"group", "insert", "save"} => at[j] = "group" \/ seen'[j].made = member.made,
         s = "save" => j \in Approvals,
         \A i \in Jobs \ {j} : seen'[i] = seen[i],
         at[j] = "group" => seen'[j] = seen[j],
         SyncTypes', member' = member, rounds' = rounds
  PROVE  CInv'
<1>1. Recorded' = Recorded
  BY DEF Recorded
<1>2. CountedAtMostOnce'
  BY <1>1 DEF CInv, CountedAtMostOnce
<1>3. ASSUME NEW i \in Jobs
      PROVE  CountHolds(i)'
  <2>1. CASE i # j
    BY <1>1, <1>3, <2>1 DEF CInv, SyncTypes, CountHolds
  <2>2. CASE i = j
    BY <1>1, <2>2, DeliveriesAssumption DEF CInv, SyncTypes, CountHolds, CountedAtMostOnce
  <2> QED
    BY <2>1, <2>2
<1> QED
  BY <1>2, <1>3 DEF CInv

LEMMA InsertKeeps ==
  ASSUME CInv, NEW j \in Deliveries, InsertRow(j)
  PROVE  CInv'
<1> DEFINE t == TransferOf[j]
<1>1. t \in Transfers /\ j \in Jobs /\ at[j] = "insert"
  BY DeliveriesAssumption DEF InsertRow, JobGoes, Jobs
<1>2. CASE rounds[t] # 0
  <2>1. at' = [at EXCEPT ![j] = IF tries[j] < SyncAttempts THEN "waiting" ELSE "dead"]
    BY <1>2 DEF InsertRow, Fails, JobGoes
  <2>2. UNCHANGED <<rounds, member, round, seen, inRound>>
    BY <1>2 DEF InsertRow, groupVars, jobVars
  <2>3. SyncTypes'
    BY <2>1, <2>2 DEF CInv, SyncTypes, Steps
  <2> QED
    BY <1>1, <2>1, <2>2, <2>3, MoveKeeps DEF Steps
<1>3. CASE rounds[t] = 0
  <2>1. /\ at' = [at EXCEPT ![j] = "save"]
        /\ rounds' = [rounds EXCEPT ![t] = inRound[j]]
        /\ UNCHANGED <<member, round, seen, inRound>>
    BY <1>3 DEF InsertRow, JobGoes, groupVars, jobVars
  <2>2. SyncTypes'
    BY <1>1, <2>1 DEF CInv, SyncTypes, Steps
  <2>3. inRound[j] \in Nat \ {0}
    BY <1>1 DEF CInv, SyncTypes
  <2>4. Recorded' = Recorded \cup {t} /\ t \notin Recorded
    BY <1>1, <1>3, <2>1, <2>3 DEF CInv, SyncTypes, Recorded
  <2>5. Cardinality(Recorded) \in Nat /\ Cardinality(Recorded') = Cardinality(Recorded) + 1
    BY <2>4, RecordedFinite, FS_AddElement DEF CInv
  <2>6. CountedAtMostOnce'
    BY <2>1, <2>5 DEF CInv, CountedAtMostOnce, SyncTypes, Members
  <2>7. ASSUME NEW i \in Jobs
        PROVE  CountHolds(i)'
    <3>1. seen[i].made \in Nat /\ seen' = seen
      BY <2>1, <2>7 DEF CInv, SyncTypes, Members
    <3>2. CASE i # j
      <4>1. at'[i] = at[i] /\ CountHolds(i)
        BY <2>1, <2>7, <3>2 DEF CInv, SyncTypes
      <4> QED
        BY <2>5, <3>1, <4>1 DEF CountHolds
    <3>3. CASE i = j
      <4>1. at'[i] = "save" /\ seen[i].made <= Cardinality(Recorded)
        BY <1>1, <2>1, <3>3 DEF CInv, SyncTypes, CountHolds
      <4> QED
        BY <2>5, <3>1, <4>1 DEF CountHolds
    <3> QED
      BY <3>2, <3>3
  <2> QED
    BY <2>2, <2>6, <2>7 DEF CInv
<1> QED
  BY <1>2, <1>3

LEMMA SaveKeeps ==
  ASSUME CInv, NEW j \in Jobs, SaveMember(j)
  PROVE  CInv'
<1>1. /\ at[j] = "save"
      /\ at' = [at EXCEPT ![j] = "done"]
      /\ UNCHANGED <<rounds, round, seen, inRound>>
  BY DEF SaveMember, JobGoes, groupVars, jobVars
<1>2. Recorded' = Recorded
  BY <1>1 DEF Recorded
<1>3. seen[j] \in Members
  BY DEF CInv, SyncTypes
<1>4. /\ member' \in Members
      /\ member'.made = IF j \in Approvals THEN seen[j].made ELSE seen[j].made + 1
  BY <1>3, Saved
<1>5. SyncTypes'
  BY <1>1, <1>4 DEF CInv, SyncTypes, Steps
<1>6. CountedAtMostOnce'
  BY <1>1, <1>2, <1>4 DEF CInv, CountHolds, CountedAtMostOnce, Jobs
<1>7. ASSUME NEW i \in Jobs
      PROVE  CountHolds(i)'
  BY <1>1, <1>2, <1>7 DEF CInv, SyncTypes, CountHolds
<1> QED
  BY <1>5, <1>6, <1>7 DEF CInv

\* What the payout and the round do to the member leaves the count alone.
LEMMA OthersKeep ==
  ASSUME CInv, AdvanceRound \/ MarkReceived
  PROVE  CInv'
<1>1. member'.made = member.made /\ member' \in Members /\ round' \in Nat \ {0}
  <2>1. member \in Members /\ round \in Nat \ {0}
    BY DEF CInv, SyncTypes
  <2>2. CASE AdvanceRound
    <3>1. member' = member \/ member' = [member EXCEPT !.paid = FALSE]
      BY <2>2 DEF AdvanceRound
    <3>2. member'.made = member.made /\ member' \in Members
      BY <2>1, <3>1, Reset
    <3>3. round' = round \/ round' = round + 1
      BY <2>2 DEF AdvanceRound
    <3> QED
      BY <2>1, <3>2, <3>3
  <2>3. CASE MarkReceived
    BY <2>1, <2>3, Received DEF MarkReceived, groupVars
  <2> QED
    BY <2>2, <2>3
<1>2. UNCHANGED <<rounds, at, seen, inRound>>
  BY DEF AdvanceRound, MarkReceived, jobVars
<1>3. Recorded' = Recorded
  BY <1>2 DEF Recorded
<1> QED
  BY <1>1, <1>2, <1>3 DEF CInv, SyncTypes, CountedAtMostOnce, CountHolds

LEMMA CountsStep == CInv /\ [SyncNext]_syncVars => CInv'
<1> SUFFICES ASSUME CInv, [SyncNext]_syncVars
             PROVE  CInv'
  OBVIOUS
<1> USE DEF JobGoes, Steps
<1>1. ASSUME NEW j \in Jobs, Take(j)
      PROVE  CInv'
  <2>1. SyncTypes'
    BY <1>1 DEF Take, groupVars, CInv, SyncTypes
  <2> QED
    BY <1>1, <2>1, MoveKeeps DEF Take, groupVars
<1>2. ASSUME NEW j \in Jobs, FindExisting(j)
      PROVE  CInv'
  <2>1. SyncTypes'
    BY <1>2 DEF FindExisting, groupVars, jobVars, CInv, SyncTypes
  <2> QED
    BY <1>2, <2>1, MoveKeeps DEF FindExisting, groupVars, jobVars
<1>3. ASSUME NEW j \in Jobs, ResolveMember(j)
      PROVE  CInv'
  <2>1. SyncTypes'
    BY <1>3 DEF ResolveMember, groupVars, CInv, SyncTypes
  <2>2. seen'[j] = member /\ \A i \in Jobs \ {j} : seen'[i] = seen[i]
    BY <1>3 DEF ResolveMember, CInv, SyncTypes
  <2> QED
    BY <1>3, <2>1, <2>2, MoveKeeps DEF ResolveMember, groupVars
<1>4. ASSUME NEW j \in Jobs, CheckGroup(j)
      PROVE  CInv'
  <2>1. SyncTypes'
    BY <1>4 DEF CheckGroup, groupVars, CInv, SyncTypes
  <2> QED
    BY <1>4, <2>1, MoveKeeps DEF CheckGroup, groupVars
<1>5. ASSUME NEW j \in Jobs, JobFails(j)
      PROVE  CInv'
  <2>1. SyncTypes'
    BY <1>5 DEF JobFails, Fails, groupVars, jobVars, CInv, SyncTypes
  <2> QED
    BY <1>5, <2>1, MoveKeeps DEF JobFails, Fails, groupVars, jobVars
<1>6. CASE UNCHANGED syncVars
  BY <1>6 DEF syncVars, CInv, SyncTypes, CountedAtMostOnce, CountHolds, Recorded
<1> QED
  BY <1>1, <1>2, <1>3, <1>4, <1>5, <1>6, InsertKeeps, SaveKeeps, OthersKeep DEF SyncNext, ContinueJob

(* The number of contributions a membership counts never exceeds the number
   of transfers recorded for it: for any number of deliveries, retries and
   concurrent jobs, and whatever else writes the membership meanwhile. *)
THEOREM NeverCountedTwice == SyncSpec => []CountedAtMostOnce
<1>1. CInv => CountedAtMostOnce
  BY DEF CInv
<1> QED
  BY CountsInit, CountsStep, <1>1, PTL DEF SyncSpec

-----------------------------------------------------------------------------
(* Types of the sync jobs. *)

\* A job that waits has an attempt left.
SyncInv ==
  /\ SyncTypeOK
  /\ \A j \in Jobs : at[j] = "waiting" => tries[j] < SyncAttempts

LEMMA SomeSync ==
  /\ SyncAttempts \in Nat \ {0} /\ MaxRound \in Nat \ {0} /\ MaxFaults \in Nat
  /\ \A j \in Deliveries : TransferOf[j] \in Transfers
BY NumbersAssumption, DeliveriesAssumption

LEMMA SyncTypesInit == SyncInit => SyncInv
<1> SUFFICES ASSUME SyncInit
             PROVE  SyncInv
  OBVIOUS
<1>1. member \in Members
  BY DEF SyncInit, Members
<1>2. /\ rounds \in [Transfers -> 0 .. MaxRound] /\ round \in 1 .. MaxRound
      /\ inRound \in [Jobs -> 1 .. MaxRound] /\ tries \in [Jobs -> 0 .. SyncAttempts]
      /\ faults \in 0 .. MaxFaults /\ at \in [Jobs -> Steps]
  BY SomeSync DEF SyncInit, Steps
<1>3. seen \in [Jobs -> Members]
  BY <1>1 DEF SyncInit
<1>4. active \in BOOLEAN
  BY DEF SyncInit
<1>5. \A j \in Jobs : tries[j] < SyncAttempts
  BY SomeSync DEF SyncInit
<1> QED
  BY <1>1, <1>2, <1>3, <1>4, <1>5 DEF SyncInv, SyncTypeOK

LEMMA SyncTypesStep == SyncInv /\ [SyncNext]_syncVars => SyncInv'
<1> SUFFICES ASSUME SyncInv, [SyncNext]_syncVars
             PROVE  SyncInv'
  OBVIOUS
<1> USE SomeSync DEF SyncInv, SyncTypeOK, JobGoes, groupVars, jobVars
<1>1. ASSUME NEW j \in Jobs, Take(j)
      PROVE  SyncInv'
  BY <1>1 DEF Take, Steps
<1>2. ASSUME NEW j \in Jobs, FindExisting(j)
      PROVE  SyncInv'
  BY <1>2 DEF FindExisting, Steps
<1>3. ASSUME NEW j \in Jobs, ResolveMember(j)
      PROVE  SyncInv'
  BY <1>3 DEF ResolveMember, Steps
<1>4. ASSUME NEW j \in Jobs, CheckGroup(j)
      PROVE  SyncInv'
  BY <1>4 DEF CheckGroup, Steps
<1>5. ASSUME NEW j \in Deliveries, InsertRow(j)
      PROVE  SyncInv'
  <2>1. j \in Jobs
    BY <1>5 DEF Jobs
  <2>2. rounds' = rounds \/ rounds' = [rounds EXCEPT ![TransferOf[j]] = inRound[j]]
    BY <1>5 DEF InsertRow
  <2>3. rounds' \in [Transfers -> 0 .. MaxRound]
    BY <2>1, <2>2
  <2>4. at' \in [Jobs -> Steps] /\ \A i \in Jobs : at'[i] = "waiting" => tries[i] < SyncAttempts
    BY <1>5, <2>1 DEF InsertRow, Fails, Steps
  <2>5. UNCHANGED <<member, groupVars, jobVars, faults>>
    BY <1>5 DEF InsertRow
  <2> QED
    BY <2>3, <2>4, <2>5
<1>6. ASSUME NEW j \in Jobs, SaveMember(j)
      PROVE  SyncInv'
  <2>1. member' \in Members
    BY <1>6, Saved
  <2>2. at' \in [Jobs -> Steps] /\ \A i \in Jobs : at'[i] = "waiting" => tries[i] < SyncAttempts
    BY <1>6 DEF SaveMember, Steps
  <2>3. UNCHANGED <<rounds, groupVars, jobVars, faults>>
    BY <1>6 DEF SaveMember
  <2> QED
    BY <2>1, <2>2, <2>3
<1>7. ASSUME NEW j \in Jobs, JobFails(j)
      PROVE  SyncInv'
  BY <1>7 DEF JobFails, Fails, Steps
<1>8. CASE AdvanceRound
  <2>1. member' \in Members
    BY <1>8, Reset DEF AdvanceRound
  <2>2. round' \in 1 .. MaxRound
    <3>1. round' = round \/ (round < MaxRound /\ round' = round + 1)
      BY <1>8 DEF AdvanceRound
    <3> QED
      BY <3>1
  <2>3. active' \in BOOLEAN
    BY <1>8 DEF AdvanceRound
  <2>4. UNCHANGED <<rounds, at, jobVars, faults>>
    BY <1>8 DEF AdvanceRound
  <2> QED
    BY <2>1, <2>2, <2>3, <2>4
<1>9. CASE MarkReceived
  <2>1. member' \in Members
    BY <1>9, Received DEF MarkReceived
  <2> QED
    BY <1>9, <2>1 DEF MarkReceived
<1>10. CASE UNCHANGED syncVars
  BY <1>10 DEF syncVars
<1> QED
  BY <1>1, <1>2, <1>3, <1>4, <1>5, <1>6, <1>7, <1>8, <1>9, <1>10 DEF SyncNext, ContinueJob

\* No job has read, and no transfer is recorded for, a round yet to come.
RoundsReached ==
  /\ \A t \in Transfers : rounds[t] <= round
  /\ \A j \in Jobs : inRound[j] <= round

\* A step moves the group on, or has a job read its round or record it.
LEMMA RoundsMove ==
  ASSUME SyncInv, [SyncNext]_syncVars
  PROVE  /\ round' = round \/ round' = round + 1
         /\ \/ UNCHANGED <<rounds, inRound>>
            \/ /\ \E j \in Jobs : inRound' = [inRound EXCEPT ![j] = round]
               /\ UNCHANGED rounds
            \/ /\ \E j \in Deliveries :
                    /\ rounds[TransferOf[j]] = 0
                    /\ rounds' = [rounds EXCEPT ![TransferOf[j]] = inRound[j]]
               /\ UNCHANGED inRound
<1> USE DEF groupVars, jobVars
<1>1. ASSUME NEW j \in Jobs, Take(j) \/ FindExisting(j) \/ ResolveMember(j) \/ SaveMember(j) \/ JobFails(j)
      PROVE  UNCHANGED <<round, rounds, inRound>>
  BY <1>1 DEF Take, FindExisting, ResolveMember, SaveMember, JobFails
<1>2. ASSUME NEW j \in Jobs, CheckGroup(j)
      PROVE  inRound' = [inRound EXCEPT ![j] = round] /\ UNCHANGED <<round, rounds>>
  BY <1>2 DEF CheckGroup
<1>3. ASSUME NEW j \in Deliveries, InsertRow(j)
      PROVE  /\ \/ UNCHANGED rounds
                \/ /\ rounds[TransferOf[j]] = 0
                   /\ rounds' = [rounds EXCEPT ![TransferOf[j]] = inRound[j]]
             /\ UNCHANGED <<round, inRound>>
  BY <1>3 DEF InsertRow
<1>4. CASE AdvanceRound
  BY <1>4 DEF AdvanceRound
<1>5. ASSUME MarkReceived \/ UNCHANGED syncVars
      PROVE  UNCHANGED <<round, rounds, inRound>>
  BY <1>5 DEF MarkReceived, syncVars
<1> QED
  BY <1>1, <1>2, <1>3, <1>4, <1>5 DEF SyncNext, ContinueJob

LEMMA ReachedStep ==
  ASSUME SyncInv, RoundsReached, [SyncNext]_syncVars
  PROVE  RoundsReached'
<1>1. /\ round \in Nat /\ round' \in Nat /\ round <= round'
      /\ \A t \in Transfers : rounds[t] \in Nat /\ rounds[t] <= round
      /\ \A j \in Jobs : inRound[j] \in Nat /\ inRound[j] <= round
  BY RoundsMove DEF SyncInv, SyncTypeOK, RoundsReached
<1>2. /\ \A t \in Transfers : rounds'[t] = rounds[t] \/ \E j \in Jobs : rounds'[t] = inRound[j]
      /\ \A j \in Jobs : inRound'[j] \in {inRound[j], round}
  BY RoundsMove DEF SyncInv, SyncTypeOK, Jobs
<1>3. \A t \in Transfers : rounds'[t] <= round'
  BY <1>1, <1>2
<1>4. \A j \in Jobs : inRound'[j] <= round'
  BY <1>1, <1>2
<1> QED
  BY <1>3, <1>4 DEF RoundsReached

\* What is recorded stays so.
LEMMA RecordStays ==
  ASSUME SyncInv, RoundsReached, [SyncNext]_syncVars
  PROVE  \A t \in Recorded : rounds'[t] = rounds[t] /\ rounds'[t] <= round
<1> SUFFICES ASSUME NEW t \in Transfers, rounds[t] # 0
             PROVE  rounds'[t] = rounds[t]
  BY DEF Recorded, RoundsReached
<1> QED
  BY RoundsMove, SomeSync DEF SyncInv, SyncTypeOK

-----------------------------------------------------------------------------
(* Polls. *)

InTx == {"check", "handle", "mark", "advance"}
InPage == InTx \cup {"next"}

\* A transaction at hand is of the page, and marked before the poll goes on;
\* between the polls there is no page.
AtHand ==
  /\ \A p \in Pollers : poller[p] \in InTx => next[p] <= end[p]
  /\ \A p \in Pollers : poller[p] = "advance" => next[p] \in processed
  /\ \A p \in Pollers : poller[p] \in {"idle", "fetch"} => next[p] = 1 /\ end[p] = 0

\* What lies behind the checkpoint cp, behind the one a poll has read, and
\* behind its place in the page, is in S.
Behind(S, cp, doing, read, place) ==
  /\ UpTo(cp) \subseteq S
  /\ \A p \in Pollers : doing[p] = "fetch" => UpTo(read[p]) \subseteq S
  /\ \A p \in Pollers : doing[p] \in InPage => 1 .. place[p] - 1 \subseteq S

\* When each is alone in its ledger, all of it is processed.
AloneInv == Alone => Behind(processed, checkpoint, poller, last, next)

\* Until a poll dies, it is processed or in a page, which ends with a ledger.
Held == processed \cup UNION {Page(p) : p \in Pollers}
HeldInv ==
  crashes = 0 /\ PagesEndLedgers =>
    /\ Behind(Held, checkpoint, poller, last, next)
    /\ \A p \in Pollers : poller[p] \in InPage => EndsLedger(end[p])

\* Transactions that a poll has left written and not marked.
Loose ==
  {t \in Txs : /\ applied[t] > 0 /\ t \notin processed
               /\ ~ \E p \in Pollers : poller[p] = "mark" /\ next[p] = t}

\* One poll at a time: each crash leaves at most one transaction to be repeated.
OnceInv ==
  /\ IsFiniteSet(Repeats)
  /\ ~overlapped =>
       /\ \A p, q \in Pollers : poller[p] # "idle" /\ poller[q] # "idle" => p = q
       /\ \A p \in Pollers : poller[p] \in {"handle", "mark"} => next[p] \notin processed
       /\ Cardinality(Repeats) + Cardinality(Loose) <= crashes

ListenerInv == ListenerTypeOK /\ AtHand /\ AloneInv /\ HeldInv /\ OnceInv

LEMMA LedgersAre ==
  ASSUME ListenerTypeOK
  PROVE  /\ NumTxs \in Nat /\ PageSize \in Nat \ {0} /\ MaxCrashes \in Nat /\ MaxErrors \in Nat
         /\ ledgerOf \in [Txs -> Nat \ {0}]
         /\ \A s, t \in Txs : s <= t => ledgerOf[s] <= ledgerOf[t]
         /\ Ledgers \subseteq Nat \ {0} /\ Txs \subseteq Nat
<1>1. ledgerOf \in Layouts
  BY DEF ListenerTypeOK
<1>2. ledgerOf \in [Txs -> Nat \ {0}] /\ \A s, t \in Txs : s <= t => ledgerOf[s] <= ledgerOf[t]
  BY <1>1, LedgersAssumption
<1> QED
  BY <1>2, LedgersAssumption, BoundsAssumption DEF Ledgers, Txs

LEMMA LesserOf ==
  ASSUME NEW m \in Nat, NEW n \in Nat
  PROVE  Min({m, n}) \in {m, n} /\ Min({m, n}) <= m /\ Min({m, n}) <= n
<1>1. \E x \in {m, n} : \A y \in {m, n} : x <= y
  BY SMT
<1> QED
  BY <1>1 DEF Min

\* What a fetch finds.
LEMMA Fetched ==
  ASSUME ListenerTypeOK, NEW p \in Pollers, Fetch(p)
  PROVE  \E m, n \in 0 .. NumTxs, k \in 0 .. NumTxs :
           /\ UpTo(last[p]) = 1 .. m /\ UpTo(ledger) = 1 .. n
           /\ k \in {n, m + PageSize} /\ k <= n /\ k <= m + PageSize
           /\ poller[p] = "fetch" /\ poller' = [poller EXCEPT ![p] = "next"]
           /\ next' = [next EXCEPT ![p] = m + 1] /\ end' = [end EXCEPT ![p] = k]
           /\ UNCHANGED <<chainVars, storeVars, applied, last, crashes, errors, overlapped>>
<1>1. PICK m, n \in 0 .. NumTxs : Shows(p, m, n) /\ SetPage(p, m + 1, Min({n, m + PageSize}))
  BY DEF Fetch
<1>2. m \in Nat /\ n \in Nat /\ m + PageSize \in Nat /\ NumTxs \in Nat /\ n <= NumTxs
  BY LedgersAre
<1> DEFINE k == Min({n, m + PageSize})
<1>3. k \in {n, m + PageSize} /\ k <= n /\ k <= m + PageSize
  BY <1>2, LesserOf
<1>4. k \in 0 .. NumTxs
  BY <1>2, <1>3
<1> HIDE DEF k
<1>5. /\ poller[p] = "fetch" /\ poller' = [poller EXCEPT ![p] = "next"]
      /\ UNCHANGED <<chainVars, storeVars, applied, last, crashes, errors, overlapped>>
  BY DEF Fetch, PollGoes
<1>6. next' = [next EXCEPT ![p] = m + 1] /\ end' = [end EXCEPT ![p] = k]
  BY <1>1 DEF SetPage, k
<1> QED
  BY <1>1, <1>3, <1>4, <1>5, <1>6 DEF Shows

LEMMA PagesAre ==
  ASSUME ListenerTypeOK, NEW p \in Pollers, NEW m \in 1 .. NumTxs + 1, NEW k \in 0 .. NumTxs,
         k < m + PageSize, SetPage(p, m, k)
  PROVE  /\ next' \in [Pollers -> 1 .. NumTxs + 1] /\ end' \in [Pollers -> 0 .. NumTxs]
         /\ next'[p] = m /\ end'[p] = k
         /\ \A q \in Pollers \ {p} : next'[q] = next[q] /\ end'[q] = end[q]
         /\ \A q \in Pollers : end'[q] < next'[q] + PageSize
<1>1. next' = [next EXCEPT ![p] = m] /\ end' = [end EXCEPT ![p] = k]
  BY DEF SetPage
<1>2. /\ next' \in [Pollers -> 1 .. NumTxs + 1] /\ end' \in [Pollers -> 0 .. NumTxs]
      /\ next'[p] = m /\ end'[p] = k
      /\ \A q \in Pollers \ {p} : next'[q] = next[q] /\ end'[q] = end[q]
  BY <1>1 DEF ListenerTypeOK
<1>3. \A q \in Pollers : end'[q] < next'[q] + PageSize
  BY <1>2 DEF ListenerTypeOK
<1> QED
  BY <1>2, <1>3

LEMMA ListenerTypesInit == ListenerInit => ListenerTypeOK /\ AtHand
<1> SUFFICES ASSUME ListenerInit
             PROVE  ListenerTypeOK /\ AtHand
  OBVIOUS
<1>1. NumTxs \in Nat /\ PageSize \in Nat \ {0} /\ MaxCrashes \in Nat /\ MaxErrors \in Nat
  BY LedgersAssumption, BoundsAssumption
<1>2. overlapped \in BOOLEAN
  BY DEF ListenerInit
<1>3. ListenerTypeOK
  BY <1>1, <1>2 DEF ListenerInit, ListenerTypeOK, PollSteps
<1> QED
  BY <1>3 DEF ListenerInit, AtHand, InTx

LEMMA ListenerTypesStep ==
  ListenerTypeOK /\ AtHand /\ [ListenerNext]_listenerVars => ListenerTypeOK' /\ AtHand'
<1> SUFFICES ASSUME ListenerTypeOK, AtHand, [ListenerNext]_listenerVars
             PROVE  ListenerTypeOK' /\ AtHand'
  OBVIOUS
<1>0. /\ NumTxs \in Nat /\ PageSize \in Nat \ {0} /\ MaxCrashes \in Nat /\ MaxErrors \in Nat
      /\ Txs = 1 .. NumTxs /\ \A t \in Txs : ledgerOf[t] \in Ledgers
  BY LedgersAre DEF Txs, Ledgers
<1> USE DEF ListenerTypeOK, AtHand, InTx, PollSteps, PollGoes, SetPage, chainVars, storeVars, pageVars
<1>1. ASSUME NEW p \in Pollers, ReadCheckpoint(p)
      PROVE  ListenerTypeOK' /\ AtHand'
  <2>1. overlapped' \in BOOLEAN
    BY <1>1 DEF ReadCheckpoint
  <2> QED
    BY <1>0, <1>1, <2>1 DEF ReadCheckpoint, Ledgers
<1>2. ASSUME NEW p \in Pollers, Fetch(p)
      PROVE  ListenerTypeOK' /\ AtHand'
  <2>1. PICK m \in 0 .. NumTxs, k \in 0 .. NumTxs :
           /\ k <= m + PageSize
           /\ poller' = [poller EXCEPT ![p] = "next"]
           /\ next' = [next EXCEPT ![p] = m + 1] /\ end' = [end EXCEPT ![p] = k]
           /\ UNCHANGED <<chainVars, storeVars, applied, last, crashes, errors, overlapped>>
    BY <1>2, Fetched
  <2>2. m + 1 \in 1 .. NumTxs + 1 /\ k < m + 1 + PageSize
    BY <1>0, <2>1
  <2>3. /\ next' \in [Pollers -> 1 .. NumTxs + 1] /\ end' \in [Pollers -> 0 .. NumTxs]
        /\ \A q \in Pollers \ {p} : next'[q] = next[q] /\ end'[q] = end[q]
        /\ \A q \in Pollers : end'[q] < next'[q] + PageSize
    BY <2>1, <2>2, PagesAre
  <2>4. ListenerTypeOK'
    BY <2>1, <2>3 DEF Ledgers
  <2> QED
    BY <2>1, <2>3, <2>4
<1>3. ASSUME NEW p \in Pollers, FetchFails(p)
      PROVE  ListenerTypeOK' /\ AtHand'
  BY <1>0, <1>3 DEF FetchFails, Ledgers
<1>4. ASSUME NEW p \in Pollers, NextTx(p)
      PROVE  ListenerTypeOK' /\ AtHand'
  <2>1. UNCHANGED <<chainVars, storeVars, applied, last, crashes, errors, overlapped>>
    BY <1>4 DEF NextTx
  <2>2. CASE next[p] <= end[p]
    <3>1. poller[p] = "next" /\ poller' = [poller EXCEPT ![p] = "check"] /\ UNCHANGED pageVars
      BY <1>0, <1>4, <2>2 DEF NextTx
    <3>2. ListenerTypeOK'
      BY <2>1, <3>1 DEF Ledgers
    <3>3. AtHand'
      BY <2>1, <2>2, <3>1
    <3> QED
      BY <3>2, <3>3
  <2>3. CASE next[p] > end[p]
    <3>1. poller[p] = "next" /\ poller' = [poller EXCEPT ![p] = "idle"] /\ SetPage(p, 1, 0)
      BY <1>0, <1>4, <2>3 DEF NextTx
    <3>2. /\ next' \in [Pollers -> 1 .. NumTxs + 1] /\ end' \in [Pollers -> 0 .. NumTxs]
          /\ \A q \in Pollers \ {p} : next'[q] = next[q] /\ end'[q] = end[q]
          /\ \A q \in Pollers : end'[q] < next'[q] + PageSize
      BY <1>0, <3>1, PagesAre
    <3>3. ListenerTypeOK'
      BY <2>1, <3>1, <3>2 DEF Ledgers
    <3> QED
      BY <2>1, <3>1, <3>2, <3>3
  <2>4. next[p] \in Nat /\ end[p] \in Nat
    BY <1>0
  <2> QED
    BY <2>2, <2>3, <2>4
<1>5. ASSUME NEW p \in Pollers, CheckProcessed(p)
      PROVE  ListenerTypeOK' /\ AtHand'
  BY <1>0, <1>5 DEF CheckProcessed, Ledgers
<1>6. ASSUME NEW p \in Pollers, Handle(p) \/ HandleFails(p)
      PROVE  ListenerTypeOK' /\ AtHand'
  <2>1. applied' \in [Txs -> Nat]
    BY <1>6 DEF Handle, HandleFails
  <2>2. errors' \in 0 .. MaxErrors
    BY <1>0, <1>6 DEF Handle, HandleFails
  <2>3. /\ poller[p] = "handle" /\ poller' = [poller EXCEPT ![p] = "mark"]
        /\ UNCHANGED <<chainVars, storeVars, last, pageVars, crashes, overlapped>>
    BY <1>6 DEF Handle, HandleFails
  <2> QED
    BY <1>0, <2>1, <2>2, <2>3 DEF Ledgers
<1>7. ASSUME NEW p \in Pollers, MarkProcessed(p)
      PROVE  ListenerTypeOK' /\ AtHand'
  <2>1. /\ poller[p] = "mark" /\ poller' = [poller EXCEPT ![p] = "advance"]
        /\ processed' = processed \cup {next[p]}
        /\ UNCHANGED <<chainVars, checkpoint, applied, last, pageVars, crashes, errors, overlapped>>
    BY <1>7 DEF MarkProcessed
  <2>2. next[p] \in Txs
    BY <1>0, <2>1
  <2>3. ListenerTypeOK'
    BY <2>1, <2>2 DEF Ledgers
  <2>4. AtHand'
    BY <2>1
  <2> QED
    BY <2>3, <2>4
<1>8. ASSUME NEW p \in Pollers, Advance(p)
      PROVE  ListenerTypeOK' /\ AtHand'
  <2>1. /\ poller[p] = "advance" /\ poller' = [poller EXCEPT ![p] = "next"]
        /\ checkpoint' = ledgerOf[next[p]] /\ SetPage(p, next[p] + 1, end[p])
        /\ UNCHANGED <<chainVars, processed, applied, last, crashes, errors, overlapped>>
    BY <1>8 DEF Advance
  <2>2. next[p] \in Txs /\ next[p] + 1 \in 1 .. NumTxs + 1 /\ end[p] < next[p] + 1 + PageSize
    BY <1>0, <2>1
  <2>3. /\ next' \in [Pollers -> 1 .. NumTxs + 1] /\ end' \in [Pollers -> 0 .. NumTxs]
        /\ \A q \in Pollers \ {p} : next'[q] = next[q] /\ end'[q] = end[q]
        /\ \A q \in Pollers : end'[q] < next'[q] + PageSize
    BY <2>1, <2>2, PagesAre
  <2>4. checkpoint' \in Ledgers \cup {0}
    BY <1>0, <2>1, <2>2
  <2>5. ListenerTypeOK'
    BY <2>1, <2>3, <2>4 DEF Ledgers
  <2> QED
    BY <2>1, <2>3, <2>5
<1>9. ASSUME NEW p \in Pollers, PollerCrashes(p)
      PROVE  ListenerTypeOK' /\ AtHand'
  BY <1>0, <1>9 DEF PollerCrashes, Ledgers
<1>10. CASE Close
  BY <1>0, <1>10 DEF Close, Ledgers, pollVars
<1>11. CASE UNCHANGED listenerVars
  BY <1>0, <1>11 DEF listenerVars, Ledgers, pollVars
<1> QED
  BY <1>1, <1>2, <1>3, <1>4, <1>5, <1>6, <1>7, <1>8, <1>9, <1>10, <1>11 DEF ListenerNext, ContinuePoll

\* A poll goes on within the page, or ends.
LEMMA BehindMoves ==
  ASSUME ListenerTypeOK, NEW S, NEW T, S \subseteq T, Behind(S, checkpoint, poller, last, next),
         NEW p \in Pollers, NEW to \in PollSteps,
         to \in InPage => poller[p] \in InPage /\ next'[p] = next[p], to # "fetch",
         poller' = [poller EXCEPT ![p] = to], UNCHANGED <<checkpoint, last>>,
         \A q \in Pollers \ {p} : next'[q] = next[q]
  PROVE  Behind(T, checkpoint', poller', last', next')
<1>1. \A q \in Pollers : poller'[q] = IF q = p THEN to ELSE poller[q]
  BY DEF ListenerTypeOK
<1> QED
  BY <1>1 DEF Behind

LEMMA BehindStep ==
  ASSUME ListenerTypeOK, AtHand, [ListenerNext]_listenerVars, NEW S, NEW T, S \subseteq T,
         Behind(S, checkpoint, poller, last, next),
         \A p \in Pollers : Advance(p) => next[p] \in T /\ UpTo(ledgerOf[next[p]]) \subseteq T
  PROVE  Behind(T, checkpoint', poller', last', next')
<1> USE DEF PollGoes, pageVars, pollVars, storeVars
<1>1. ASSUME NEW p \in Pollers, ReadCheckpoint(p)
      PROVE  Behind(T, checkpoint', poller', last', next')
  <2>1. /\ poller'[p] = "fetch" /\ last'[p] = checkpoint
        /\ \A q \in Pollers \ {p} : poller'[q] = poller[q] /\ last'[q] = last[q]
        /\ UNCHANGED <<checkpoint, next>>
    BY <1>1 DEF ReadCheckpoint, ListenerTypeOK
  <2> QED
    BY <2>1 DEF Behind, InPage, InTx
<1>2. ASSUME NEW p \in Pollers, Fetch(p)
      PROVE  Behind(T, checkpoint', poller', last', next')
  <2>1. PICK m \in 0 .. NumTxs :
           /\ UpTo(last[p]) = 1 .. m /\ poller[p] = "fetch"
           /\ poller' = [poller EXCEPT ![p] = "next"] /\ next' = [next EXCEPT ![p] = m + 1]
           /\ UNCHANGED <<checkpoint, last>>
    BY <1>2, Fetched
  <2>2. /\ poller'[p] = "next" /\ next'[p] = m + 1
        /\ \A q \in Pollers \ {p} : poller'[q] = poller[q] /\ next'[q] = next[q]
    BY <2>1 DEF ListenerTypeOK
  <2>3. 1 .. m \subseteq S /\ 1 .. next'[p] - 1 = 1 .. m
    BY <2>1, <2>2, LedgersAre DEF Behind
  <2> QED
    BY <2>1, <2>2, <2>3 DEF Behind
<1>3. ASSUME NEW p \in Pollers,
             FetchFails(p) \/ CheckProcessed(p) \/ Handle(p) \/ HandleFails(p) \/ MarkProcessed(p)
      PROVE  Behind(T, checkpoint', poller', last', next')
  <2>1. \E to \in {"idle", "handle", "mark", "advance"} :
          /\ poller' = [poller EXCEPT ![p] = to]
          /\ to # "idle" => poller[p] \in InPage
    BY <1>3 DEF FetchFails, CheckProcessed, Handle, HandleFails, MarkProcessed, InPage, InTx
  <2>2. UNCHANGED <<checkpoint, last, next>>
    BY <1>3 DEF FetchFails, CheckProcessed, Handle, HandleFails, MarkProcessed
  <2> QED
    BY <2>1, <2>2, BehindMoves DEF PollSteps, InPage, InTx
<1>4. ASSUME NEW p \in Pollers, NextTx(p) \/ PollerCrashes(p)
      PROVE  Behind(T, checkpoint', poller', last', next')
  <2>1. UNCHANGED <<checkpoint, last>> /\ \A q \in Pollers \ {p} : next'[q] = next[q]
    BY <1>4 DEF NextTx, PollerCrashes, SetPage, ListenerTypeOK
  <2>2. \/ poller' = [poller EXCEPT ![p] = "idle"]
        \/ poller[p] = "next" /\ poller' = [poller EXCEPT ![p] = "check"] /\ next' = next
    BY <1>4 DEF NextTx, PollerCrashes
  <2> QED
    BY <2>1, <2>2, BehindMoves DEF PollSteps, InPage, InTx
<1>5. ASSUME NEW p \in Pollers, Advance(p)
      PROVE  Behind(T, checkpoint', poller', last', next')
  <2>1. /\ poller[p] = "advance" /\ checkpoint' = ledgerOf[next[p]] /\ last' = last
        /\ poller'[p] = "next" /\ next'[p] = next[p] + 1 /\ next[p] \in Nat
        /\ \A q \in Pollers \ {p} : poller'[q] = poller[q] /\ next'[q] = next[q]
    BY <1>5 DEF Advance, SetPage, ListenerTypeOK
  <2>2. 1 .. next[p] - 1 \subseteq S /\ next[p] \in T
    BY <1>5, <2>1 DEF Behind, InPage, InTx
  <2>3. 1 .. next'[p] - 1 \subseteq T
    <3>1. \A t \in 1 .. next[p] + 1 - 1 : t \in 1 .. next[p] - 1 \/ t = next[p]
      BY <2>1
    <3> QED
      BY <2>1, <2>2, <3>1
  <2> QED
    BY <1>5, <2>1, <2>3 DEF Behind
<1>6. CASE Close \/ UNCHANGED listenerVars
  <2>1. UNCHANGED <<checkpoint, poller, last, next>>
    BY <1>6 DEF Close, listenerVars
  <2> QED
    BY <2>1 DEF Behind
<1> QED
  BY <1>1, <1>2, <1>3, <1>4, <1>5, <1>6 DEF ListenerNext, ContinuePoll

LEMMA SameLedgers ==
  ASSUME [ListenerNext]_listenerVars
  PROVE  ledgerOf' = ledgerOf
BY DEF ListenerNext, ContinuePoll, ReadCheckpoint, Fetch, FetchFails, NextTx, CheckProcessed, Handle,
   HandleFails, MarkProcessed, Advance, PollerCrashes, Close, chainVars, listenerVars

\* Nothing is unmarked, and an advance has marked.
LEMMA MarksStay ==
  ASSUME [ListenerNext]_listenerVars
  PROVE  processed \subseteq processed'
BY DEF ListenerNext, ContinuePoll, ReadCheckpoint, Fetch, FetchFails, NextTx, CheckProcessed, Handle,
   HandleFails, MarkProcessed, Advance, PollerCrashes, Close, storeVars, listenerVars

LEMMA AloneStep ==
  ASSUME ListenerTypeOK, AtHand, AloneInv, [ListenerNext]_listenerVars
  PROVE  AloneInv'
<1> SUFFICES ASSUME Alone'
             PROVE  Behind(processed, checkpoint, poller, last, next)'
  BY DEF AloneInv
<1>1. ledgerOf' = ledgerOf /\ processed \subseteq processed'
  BY SameLedgers, MarksStay
<1>2. Alone /\ Behind(processed, checkpoint, poller, last, next)
  BY <1>1 DEF AloneInv, Alone
<1>3. ASSUME NEW p \in Pollers, Advance(p)
      PROVE  next[p] \in processed' /\ UpTo(ledgerOf[next[p]]) \subseteq processed'
  <2>1. poller[p] = "advance" /\ next[p] \in processed /\ next[p] \in Txs
    BY <1>3 DEF Advance, PollGoes, AtHand, ListenerTypeOK
  <2>2. 1 .. next[p] - 1 \subseteq processed
    BY <1>2, <2>1 DEF Behind, InPage, InTx
  <2>3. ASSUME NEW t \in Txs, ledgerOf[t] <= ledgerOf[next[p]]
        PROVE  t \in processed
    <3>1. t <= next[p]
      <4>1. CASE t > next[p]
        <5>1. ledgerOf[t] # ledgerOf[next[p]] /\ ledgerOf[next[p]] <= ledgerOf[t]
              /\ ledgerOf[t] \in Nat /\ ledgerOf[next[p]] \in Nat
          BY <1>2, <2>1, <4>1, LedgersAre DEF Alone
        <5> QED
          BY <2>3, <5>1
      <4> QED
        BY <2>1, <4>1, LedgersAre
    <3>2. t \in 1 .. next[p] - 1 \/ t = next[p]
      BY <2>1, <3>1, LedgersAre DEF Txs
    <3> QED
      BY <2>1, <2>2, <3>2
  <2> QED
    BY <1>1, <2>1, <2>3 DEF UpTo
<1>4. Behind(processed', checkpoint', poller', last', next')
  BY <1>1, <1>2, <1>3, BehindStep
<1> QED
  BY <1>1, <1>4 DEF Behind, UpTo

LEMMA HeldIs ==
  ASSUME NEW t
  PROVE  t \in Held <=> t \in processed \/ \E p \in Pollers : t \in next[p] .. end[p]
BY DEF Held, Page

\* What a step other than a crash does to pages and marks.
LEMMA PageMoves ==
  ASSUME ListenerTypeOK, AtHand, [ListenerNext]_listenerVars, crashes' = 0
  PROVE  \A p \in Pollers : \A t \in next[p] .. end[p] : t \in next'[p] .. end'[p] \/ t \in processed
<1> SUFFICES ASSUME NEW p \in Pollers, NEW t \in next[p] .. end[p],
                    ~ (next'[p] = next[p] /\ end'[p] = end[p])
             PROVE  t \in next'[p] .. end'[p] \/ t \in processed
  OBVIOUS
<1> USE DEF PollGoes, pageVars, pollVars
<1>1. next[p] \in Nat /\ end[p] \in Nat /\ next[p] <= end[p] /\ t \in Nat
  BY LedgersAre DEF ListenerTypeOK
<1>2. Fetch(p) \/ NextTx(p) \/ Advance(p)
  <2>1. ASSUME NEW q \in Pollers, q # p, Fetch(q) \/ NextTx(q) \/ Advance(q)
        PROVE  FALSE
    BY <2>1 DEF Fetch, NextTx, Advance, SetPage, ListenerTypeOK
  <2>2. ASSUME NEW q \in Pollers, PollerCrashes(q)
        PROVE  FALSE
    BY <2>2, LedgersAre DEF PollerCrashes, ListenerTypeOK
  <2> QED
    BY <2>1, <2>2 DEF ListenerNext, ContinuePoll, ReadCheckpoint, FetchFails, CheckProcessed, Handle,
       HandleFails, MarkProcessed, Close, listenerVars
<1>3. CASE Fetch(p)
  BY <1>1, <1>3 DEF Fetch, AtHand
<1>4. CASE NextTx(p)
  BY <1>1, <1>4 DEF NextTx
<1>5. CASE Advance(p)
  <2>1. next'[p] = next[p] + 1 /\ end'[p] = end[p] /\ next[p] \in processed
    BY <1>5 DEF Advance, SetPage, ListenerTypeOK, AtHand
  <2> QED
    BY <1>1, <2>1
<1> QED
  BY <1>2, <1>3, <1>4, <1>5

LEMMA HeldStays ==
  ASSUME ListenerTypeOK, AtHand, [ListenerNext]_listenerVars, crashes' = 0
  PROVE  Held \subseteq Held'
<1>1. processed \subseteq processed'
  BY MarksStay
<1>2. ASSUME NEW t \in Held
      PROVE  t \in processed' \/ \E p \in Pollers : t \in next'[p] .. end'[p]
  BY <1>1, <1>2, HeldIs, PageMoves
<1> QED
  BY <1>2 DEF Held, Page

\* The end of a page is the end of a ledger.
LEMMA FetchEndsLedger ==
  ASSUME ListenerTypeOK, PagesEndLedgers, NEW p \in Pollers, Fetch(p)
  PROVE  EndsLedger(end'[p])
<1>1. PICK m, n \in 0 .. NumTxs, k \in 0 .. NumTxs :
           /\ UpTo(last[p]) = 1 .. m /\ UpTo(ledger) = 1 .. n
           /\ k \in {n, m + PageSize} /\ k <= n
           /\ end' = [end EXCEPT ![p] = k]
  BY Fetched
<1>2. end'[p] = k /\ ledger \in Nat /\ last[p] \in Nat /\ NumTxs \in Nat
      /\ \A t \in 1 .. NumTxs : ledgerOf[t] \in Nat
  <2>1. end'[p] = k
    BY <1>1 DEF ListenerTypeOK
  <2>2. ledger \in Nat /\ last[p] \in Nat
    BY LedgersAre DEF ListenerTypeOK
  <2> QED
    BY <2>1, <2>2, LedgersAre DEF Txs
<1>3. ASSUME NEW l \in Nat, NEW i \in 0 .. NumTxs, UpTo(l) = 1 .. i
      PROVE  EndsLedger(i)
  <2> SUFFICES ASSUME i \in 1 .. NumTxs - 1
               PROVE  ledgerOf[i] # ledgerOf[i + 1]
    BY DEF EndsLedger
  <2>1. i \in 1 .. NumTxs /\ i + 1 \in 1 .. NumTxs /\ i + 1 \notin 1 .. i /\ i \in 1 .. i
    BY <1>2
  <2>2. ledgerOf[i] <= l /\ ~(ledgerOf[i + 1] <= l)
    BY <1>3, <2>1 DEF UpTo, Txs
  <2> QED
    BY <2>2
<1>4. CASE k = n
  BY <1>1, <1>2, <1>3, <1>4
<1>5. CASE k = m + PageSize
  BY <1>1, <1>2, <1>3, <1>5 DEF PagesEndLedgers
<1> QED
  BY <1>1, <1>4, <1>5

LEMMA HeldStep ==
  ASSUME ListenerTypeOK, AtHand, HeldInv, [ListenerNext]_listenerVars
  PROVE  HeldInv'
<1> SUFFICES ASSUME (crashes = 0)', PagesEndLedgers'
             PROVE  /\ Behind(Held, checkpoint, poller, last, next)'
                    /\ \A p \in Pollers : poller'[p] \in InPage => EndsLedger(end[p])'
  BY DEF HeldInv
<1>1. ledgerOf' = ledgerOf /\ Held \subseteq Held' /\ processed \subseteq processed'
  BY SameLedgers, HeldStays, MarksStay
<1>2. crashes = 0 /\ \A p \in Pollers : ~PollerCrashes(p)
  <2>1. ASSUME NEW p \in Pollers, PollerCrashes(p)
        PROVE  FALSE
    BY <2>1, LedgersAre DEF PollerCrashes, ListenerTypeOK
  <2>2. crashes' = crashes
    BY <2>1 DEF ListenerNext, ContinuePoll, ReadCheckpoint, Fetch, FetchFails, NextTx, CheckProcessed,
       Handle, HandleFails, MarkProcessed, Advance, Close, listenerVars
  <2> QED
    BY <2>1, <2>2
<1>3. PagesEndLedgers /\ Behind(Held, checkpoint, poller, last, next)
      /\ \A p \in Pollers : poller[p] \in InPage => EndsLedger(end[p])
  BY <1>1, <1>2 DEF HeldInv, PagesEndLedgers, EndsLedger
<1>4. ASSUME NEW p \in Pollers, Advance(p)
      PROVE  next[p] \in Held' /\ UpTo(ledgerOf[next[p]]) \subseteq Held'
  <2>1. /\ poller[p] = "advance" /\ next[p] \in processed /\ next[p] <= end[p]
        /\ next[p] \in Nat \ {0} /\ end[p] \in Nat /\ NumTxs \in Nat /\ end[p] <= NumTxs
    BY <1>4, LedgersAre DEF Advance, PollGoes, AtHand, InTx, ListenerTypeOK
  <2>2. 1 .. next[p] - 1 \subseteq Held /\ next[p] \in Held
    BY <1>3, <2>1, HeldIs DEF Behind, InPage, InTx
  <2>3. ASSUME NEW t \in Txs, ledgerOf[t] <= ledgerOf[next[p]]
        PROVE  t \in Held
    <3>1. t <= end[p]
      <4>1. CASE t > end[p]
        <5>1. /\ end[p] \in 1 .. NumTxs - 1 /\ end[p] \in Txs /\ end[p] + 1 \in Txs /\ next[p] \in Txs
              /\ end[p] + 1 <= t /\ t \in Nat
          BY <2>1, <4>1 DEF Txs
        <5>2. /\ ledgerOf[next[p]] <= ledgerOf[end[p]] /\ ledgerOf[end[p]] <= ledgerOf[end[p] + 1]
              /\ ledgerOf[end[p] + 1] <= ledgerOf[t]
          BY <2>1, <5>1, LedgersAre
        <5>3. ledgerOf[end[p]] # ledgerOf[end[p] + 1]
          BY <1>3, <2>1, <5>1 DEF EndsLedger, InPage, InTx
        <5>4. /\ ledgerOf[next[p]] \in Nat /\ ledgerOf[end[p]] \in Nat
              /\ ledgerOf[end[p] + 1] \in Nat /\ ledgerOf[t] \in Nat
          BY <5>1, LedgersAre
        <5> QED
          BY <2>3, <5>2, <5>3, <5>4
      <4> QED
        BY <2>1, <4>1 DEF Txs
    <3>2. t \in 1 .. next[p] - 1 \/ t \in next[p] .. end[p]
      BY <2>1, <3>1 DEF Txs
    <3> QED
      BY <2>2, <3>2, HeldIs
  <2> QED
    BY <1>1, <2>2, <2>3 DEF UpTo
<1>5. Behind(Held', checkpoint', poller', last', next')
  BY <1>1, <1>3, <1>4, BehindStep
<1>6. Behind(Held, checkpoint, poller, last, next)'
  BY <1>1, <1>5 DEF Behind, UpTo
<1>7. ASSUME NEW p \in Pollers, poller'[p] \in InPage
      PROVE  EndsLedger(end'[p])
  <2>1. CASE Fetch(p)
    BY <1>3, <2>1, FetchEndsLedger
  <2>2. CASE ~Fetch(p)
    <3>1. poller[p] \in InPage /\ end'[p] = end[p]
      <4>1. ASSUME NEW q \in Pollers \ {p}, ReadCheckpoint(q) \/ ContinuePoll(q)
            PROVE  poller'[p] = poller[p] /\ end'[p] = end[p]
        <5>1. \E to \in PollSteps : poller' = [poller EXCEPT ![q] = to]
          BY <4>1 DEF PollSteps, PollGoes, ContinuePoll, ReadCheckpoint, Fetch, FetchFails, NextTx,
             CheckProcessed, Handle, HandleFails, MarkProcessed, Advance
        <5>2. end' = end \/ \E k : end' = [end EXCEPT ![q] = k]
          BY <4>1 DEF SetPage, pageVars, ContinuePoll, ReadCheckpoint, Fetch, FetchFails, NextTx,
             CheckProcessed, Handle, HandleFails, MarkProcessed, Advance
        <5> QED
          BY <5>1, <5>2 DEF ListenerTypeOK
      <4>2. ASSUME ReadCheckpoint(p) \/ ContinuePoll(p)
            PROVE  poller[p] \in InPage /\ end'[p] = end[p]
        BY <1>7, <2>2, <4>2 DEF InPage, InTx, PollGoes, ContinuePoll, ReadCheckpoint, FetchFails, NextTx,
           CheckProcessed, Handle, HandleFails, MarkProcessed, Advance, SetPage, pageVars, ListenerTypeOK
      <4>3. CASE Close \/ UNCHANGED listenerVars
        BY <1>7, <4>3 DEF Close, listenerVars, pollVars, pageVars
      <4> QED
        BY <1>2, <1>7, <4>1, <4>2, <4>3 DEF ListenerNext
    <3> QED
      BY <1>3, <3>1
  <2> QED
    BY <2>1, <2>2
<1>8. \A p \in Pollers : poller'[p] \in InPage => EndsLedger(end[p])'
  BY <1>1, <1>7 DEF EndsLedger
<1> QED
  BY <1>6, <1>8

\* Sets of transactions.
LEMMA TxsFinite ==
  ASSUME NEW S, S \subseteq Txs
  PROVE  IsFiniteSet(S) /\ Cardinality(S) \in Nat
<1>1. IsFiniteSet(Txs)
  BY LedgersAssumption, FS_Interval DEF Txs
<1> QED
  BY <1>1, FS_Subset, FS_CardinalityType

LEMMA NoMore ==
  ASSUME NEW S, S \subseteq Txs, NEW T, T \subseteq S
  PROVE  Cardinality(T) <= Cardinality(S)
BY TxsFinite, FS_Subset

LEMMA LooseIs ==
  /\ Loose \subseteq Txs
  /\ \A t \in Txs : t \in Loose <=> /\ applied[t] > 0 /\ t \notin processed
                                    /\ \A p \in Pollers : poller[p] = "mark" => next[p] # t
BY DEF Loose

LEMMA RepeatsAre ==
  ASSUME ListenerTypeOK
  PROVE  \A t, n : <<t, n>> \in Repeats <=> t \in Txs /\ n \in 2 .. applied[t]
BY DEF Repeats

\* No effect is written: nothing more is loose, if who was to mark still is.
LEMMA NothingWritten ==
  ASSUME OnceInv, ListenerTypeOK, ListenerTypeOK', applied' = applied, crashes' = crashes,
         processed \subseteq processed',
         \A p \in Pollers : poller[p] = "mark" =>
           next[p] \in processed' \/ (poller'[p] = "mark" /\ next'[p] = next[p]),
         ~overlapped' =>
           /\ ~overlapped
           /\ \A p, q \in Pollers : poller'[p] # "idle" /\ poller'[q] # "idle" => p = q
           /\ \A p \in Pollers : poller'[p] \in {"handle", "mark"} => next'[p] \notin processed'
  PROVE  OnceInv'
<1>1. Repeats' = Repeats
  BY DEF Repeats
<1>2. Loose' \subseteq Loose
  BY LooseIs DEF Loose
<1>3. Cardinality(Loose') <= Cardinality(Loose) /\ Cardinality(Loose) \in Nat /\ Cardinality(Loose') \in Nat
  BY <1>2, LooseIs, NoMore, TxsFinite
<1>4. Cardinality(Repeats) \in Nat /\ crashes \in Nat
  BY LedgersAre, FS_CardinalityType DEF OnceInv, ListenerTypeOK
<1> QED
  BY <1>1, <1>3, <1>4 DEF OnceInv

\* A poll goes on or ends, and writes nothing.
LEMMA QuietStep ==
  ASSUME OnceInv, ListenerTypeOK, ListenerTypeOK', NEW p \in Pollers,
         \/ Fetch(p) \/ FetchFails(p) \/ NextTx(p) \/ CheckProcessed(p) \/ MarkProcessed(p) \/ Advance(p)
  PROVE  OnceInv'
<1> USE DEF PollGoes, storeVars, pageVars
<1>1. UNCHANGED <<applied, crashes, overlapped>> /\ processed \subseteq processed'
  BY DEF Fetch, FetchFails, NextTx, CheckProcessed, MarkProcessed, Advance
<1>2. \A q \in Pollers \ {p} : poller'[q] = poller[q] /\ next'[q] = next[q]
  BY DEF Fetch, FetchFails, NextTx, CheckProcessed, MarkProcessed, Advance, SetPage, ListenerTypeOK
<1>3. poller[p] # "idle" /\ (poller[p] = "mark" => next[p] \in processed')
  BY DEF Fetch, FetchFails, NextTx, CheckProcessed, MarkProcessed, Advance
<1>4. poller'[p] \in {"handle", "mark"} => next'[p] \notin processed'
  BY DEF Fetch, FetchFails, NextTx, CheckProcessed, MarkProcessed, Advance, ListenerTypeOK
<1>5. ASSUME ~overlapped'
      PROVE  /\ ~overlapped
             /\ \A q, r \in Pollers : poller'[q] # "idle" /\ poller'[r] # "idle" => q = r
             /\ \A q \in Pollers : poller'[q] \in {"handle", "mark"} => next'[q] \notin processed'
  <2>1. ~overlapped /\ \A q, r \in Pollers : poller[q] # "idle" /\ poller[r] # "idle" => q = r
    BY <1>1, <1>5 DEF OnceInv
  <2>2. \A q \in Pollers \ {p} : poller[q] = "idle" /\ poller'[q] = "idle"
    BY <1>2, <1>3, <2>1
  <2> QED
    BY <1>4, <2>1, <2>2
<1> QED
  BY <1>1, <1>2, <1>3, <1>5, NothingWritten

LEMMA HandleStep ==
  ASSUME OnceInv, ListenerTypeOK, ListenerTypeOK', AtHand, NEW p \in Pollers, Handle(p) \/ HandleFails(p)
  PROVE  OnceInv'
<1> DEFINE t == next[p]
<1>1. /\ poller[p] = "handle" /\ poller'[p] = "mark"
      /\ \A q \in Pollers \ {p} : poller'[q] = poller[q]
      /\ UNCHANGED <<processed, next, crashes, overlapped>>
      /\ applied' = applied \/ applied' = [applied EXCEPT ![t] = @ + 1]
  BY DEF Handle, HandleFails, PollGoes, storeVars, pageVars, ListenerTypeOK
<1>2. t \in Txs /\ applied[t] \in Nat
  BY <1>1, LedgersAre DEF AtHand, InTx, ListenerTypeOK, Txs
<1> HIDE DEF t
<1>3. CASE applied' = applied
  <2>1. ~overlapped' =>
           /\ ~overlapped
           /\ \A q, r \in Pollers : poller'[q] # "idle" /\ poller'[r] # "idle" => q = r
           /\ \A q \in Pollers : poller'[q] \in {"handle", "mark"} => next'[q] \notin processed'
    BY <1>1 DEF OnceInv
  <2> QED
    BY <1>1, <1>3, <2>1, NothingWritten
<1>4. CASE applied' = [applied EXCEPT ![t] = @ + 1]
  <2>1. /\ applied'[t] = applied[t] + 1
        /\ \A s \in Txs \ {t} : applied'[s] = applied[s]
    BY <1>2, <1>4 DEF ListenerTypeOK
  <2>2. Repeats' = IF applied[t] = 0 THEN Repeats ELSE Repeats \cup {<<t, applied[t] + 1>>}
    <3>1. \A s \in Txs \ {t} : {s} \X (2 .. applied'[s]) = {s} \X (2 .. applied[s])
      BY <2>1
    <3>2. {t} \X (2 .. applied'[t]) = IF applied[t] = 0 THEN {t} \X (2 .. applied[t])
                                      ELSE ({t} \X (2 .. applied[t])) \cup {<<t, applied[t] + 1>>}
      BY <1>2, <2>1
    <3> QED
      BY <1>2, <3>1, <3>2 DEF Repeats
  <2>3. <<t, applied[t] + 1>> \notin Repeats
    BY <1>2, RepeatsAre
  <2>4. IsFiniteSet(Repeats') /\ Cardinality(Repeats) \in Nat
        /\ Cardinality(Repeats') = IF applied[t] = 0 THEN Cardinality(Repeats) ELSE Cardinality(Repeats) + 1
    BY <2>2, <2>3, FS_AddElement, FS_CardinalityType DEF OnceInv
  <2>5. ASSUME ~overlapped'
        PROVE  /\ \A q, r \in Pollers : poller'[q] # "idle" /\ poller'[r] # "idle" => q = r
               /\ \A q \in Pollers : poller'[q] \in {"handle", "mark"} => next'[q] \notin processed'
               /\ Cardinality(Repeats') + Cardinality(Loose') <= crashes'
    <3>1. /\ \A q, r \in Pollers : poller[q] # "idle" /\ poller[r] # "idle" => q = r
          /\ \A q \in Pollers : poller[q] \in {"handle", "mark"} => next[q] \notin processed
          /\ Cardinality(Repeats) + Cardinality(Loose) <= crashes
      BY <1>1, <2>5 DEF OnceInv
    <3>2. \A q \in Pollers \ {p} : poller[q] = "idle" /\ poller'[q] = "idle"
      BY <1>1, <3>1
    <3>3. t \in Loose <=> applied[t] > 0
      <4>1. t \notin processed /\ \A q \in Pollers : poller[q] # "mark"
        BY <1>1, <3>1, <3>2 DEF t
      <4> QED
        BY <1>2, <4>1, LooseIs
    <3>4. Loose' = Loose \ {t}
      <4>1. \A s \in Txs : s \in Loose' <=> /\ applied'[s] > 0 /\ s \notin processed' 
                                            /\ \A q \in Pollers : poller'[q] = "mark" => next'[q] # s
        BY DEF Loose
      <4>2. t \notin Loose'
        BY <1>1, <1>2, <4>1 DEF t
      <4>3. ASSUME NEW s \in Txs \ {t}
            PROVE  s \in Loose' <=> s \in Loose
        BY <1>1, <2>1, <3>2, <4>1, LooseIs DEF t
      <4> QED
        BY <4>2, <4>3 DEF Loose
    <3>5. Cardinality(Loose') = IF applied[t] = 0 THEN Cardinality(Loose) ELSE Cardinality(Loose) - 1
      <4>1. IsFiniteSet(Loose) /\ Cardinality(Loose) \in Nat
        BY LooseIs, TxsFinite
      <4>2. CASE applied[t] = 0
        BY <1>2, <3>3, <3>4, <4>2
      <4>3. CASE applied[t] # 0
        <5>1. t \in Loose
          BY <1>2, <3>3, <4>3
        <5>2. Cardinality(Loose \ {t}) = Cardinality(Loose) - 1
          <6> HIDE DEF Loose, t
          <6> QED
            BY <4>1, <5>1, FS_RemoveElement
        <5> QED
          BY <3>4, <4>3, <5>2
      <4> QED
        BY <4>2, <4>3
    <3>6. Cardinality(Loose) \in Nat /\ crashes' = crashes /\ crashes \in Nat
      BY <1>1, LooseIs, TxsFinite, LedgersAre DEF ListenerTypeOK
    <3> QED
      BY <1>1, <2>4, <3>1, <3>2, <3>5, <3>6
  <2> QED
    BY <2>4, <2>5 DEF OnceInv
<1> QED
  BY <1>1, <1>3, <1>4

LEMMA CrashStep ==
  ASSUME OnceInv, ListenerTypeOK, ListenerTypeOK', NEW p \in Pollers, PollerCrashes(p)
  PROVE  OnceInv'
<1>1. /\ poller[p] # "idle" /\ poller'[p] = "idle"
      /\ \A q \in Pollers \ {p} : poller'[q] = poller[q] /\ next'[q] = next[q]
      /\ UNCHANGED <<processed, applied, overlapped>> /\ crashes' = crashes + 1
  BY DEF PollerCrashes, SetPage, storeVars, ListenerTypeOK
<1>2. Repeats' = Repeats
  BY <1>1 DEF Repeats
<1>3. Cardinality(Repeats) \in Nat /\ crashes \in Nat
  BY LedgersAre, FS_CardinalityType DEF OnceInv, ListenerTypeOK
<1>4. Cardinality(Loose') \in Nat /\ Cardinality(Loose) \in Nat
      /\ Cardinality(Loose') <= Cardinality(Loose) + 1
  <2>1. Loose' \subseteq Loose \cup {next[p]} /\ Loose' \subseteq Txs /\ Loose \subseteq Txs
    BY <1>1 DEF Loose
  <2>2. IsFiniteSet(Loose) /\ Cardinality(Loose) \in Nat /\ Cardinality(Loose') \in Nat
    BY <2>1, TxsFinite
  <2>3. IsFiniteSet(Loose \cup {next[p]})
        /\ (Cardinality(Loose \cup {next[p]}) = Cardinality(Loose)
            \/ Cardinality(Loose \cup {next[p]}) = Cardinality(Loose) + 1)
    BY <2>2, FS_AddElement
  <2>4. Cardinality(Loose') <= Cardinality(Loose \cup {next[p]})
    BY <2>1, <2>3, FS_Subset
  <2> QED
    BY <2>2, <2>3, <2>4
<1>5. ASSUME ~overlapped'
      PROVE  /\ \A q, r \in Pollers : poller'[q] # "idle" /\ poller'[r] # "idle" => q = r
             /\ \A q \in Pollers : poller'[q] \in {"handle", "mark"} => next'[q] \notin processed'
             /\ Cardinality(Repeats) + Cardinality(Loose) <= crashes
  BY <1>1, <1>5 DEF OnceInv
<1> QED
  BY <1>1, <1>2, <1>3, <1>4, <1>5 DEF OnceInv

LEMMA OnceStep ==
  ASSUME OnceInv, ListenerTypeOK, ListenerTypeOK', AtHand, [ListenerNext]_listenerVars
  PROVE  OnceInv'
<1>1. ASSUME NEW p \in Pollers, ReadCheckpoint(p)
      PROVE  OnceInv'
  <2>1. /\ poller[p] = "idle" /\ poller'[p] = "fetch"
        /\ \A q \in Pollers \ {p} : poller'[q] = poller[q]
        /\ UNCHANGED <<processed, applied, next, crashes>>
    BY <1>1 DEF ReadCheckpoint, PollGoes, storeVars, pageVars, ListenerTypeOK
  <2>2. ASSUME ~overlapped'
        PROVE  ~overlapped /\ \A q \in Pollers \ {p} : poller[q] = "idle"
    BY <1>1, <2>2 DEF ReadCheckpoint
  <2>3. ~overlapped' =>
           /\ ~overlapped
           /\ \A q, r \in Pollers : poller'[q] # "idle" /\ poller'[r] # "idle" => q = r
           /\ \A q \in Pollers : poller'[q] \in {"handle", "mark"} => next'[q] \notin processed'
    BY <2>1, <2>2
  <2> QED
    BY <2>1, <2>3, NothingWritten
<1>2. CASE Close \/ UNCHANGED listenerVars
  <2>1. UNCHANGED <<processed, applied, poller, next, crashes, overlapped>>
    BY <1>2 DEF Close, listenerVars, storeVars, pollVars, pageVars
  <2>2. ~overlapped' =>
           /\ ~overlapped
           /\ \A q, r \in Pollers : poller'[q] # "idle" /\ poller'[r] # "idle" => q = r
           /\ \A q \in Pollers : poller'[q] \in {"handle", "mark"} => next'[q] \notin processed'
    BY <2>1 DEF OnceInv
  <2> QED
    BY <2>1, <2>2, NothingWritten
<1> QED
  BY <1>1, <1>2, QuietStep, HandleStep, CrashStep DEF ListenerNext, ContinuePoll

-----------------------------------------------------------------------------
(* The order of the transactions. *)

\* Nothing behind the place of a poll is beyond the checkpoint, nothing beyond
\* that place is written, nor does the checkpoint lie beyond it.
InPlace(p) ==
  \A t \in Txs :
    /\ applied[t] > 0 => t <= next[p]
    /\ ledgerOf[t] > checkpoint => next[p] <= t
    /\ next[p] <= t => checkpoint <= ledgerOf[t]

\* One poll at a time begins at the checkpoint, beyond which at most the effects
\* of the first transaction are written.
OrderInv ==
  ~overlapped =>
    /\ \A s, t \in Txs : applied[t] > 0 /\ ledgerOf[s] > checkpoint => t <= s
    /\ \A p \in Pollers : poller[p] = "fetch" => last[p] = checkpoint
    /\ \A p \in Pollers : poller[p] \in InPage => InPlace(p)

LEMMA OthersIdle ==
  ASSUME OnceInv, ~overlapped, NEW p \in Pollers, poller[p] # "idle"
  PROVE  \A q \in Pollers \ {p} : poller[q] = "idle"
BY DEF OnceInv

\* A poll goes on at its place, or ends.
LEMMA PlaceKept ==
  ASSUME ListenerTypeOK, OrderInv, ~overlapped, NEW p \in Pollers,
         poller'[p] \in InPage => poller[p] \in InPage /\ next'[p] = next[p],
         poller'[p] # "fetch",
         \A q \in Pollers \ {p} : poller'[q] = poller[q] /\ next'[q] = next[q],
         UNCHANGED <<ledgerOf, checkpoint, applied, last>>
  PROVE  OrderInv'
<1>1. ASSUME NEW q \in Pollers, poller'[q] \in InPage
      PROVE  InPlace(q)'
  <2>1. poller[q] \in InPage /\ next'[q] = next[q]
    BY <1>1
  <2> QED
    BY <2>1 DEF OrderInv, InPlace
<1>2. \A q \in Pollers : poller'[q] = "fetch" => last'[q] = checkpoint'
  BY DEF OrderInv
<1> QED
  BY <1>1, <1>2 DEF OrderInv

LEMMA OrderStep ==
  ASSUME ListenerTypeOK, AtHand, OnceInv, OrderInv, [ListenerNext]_listenerVars
  PROVE  OrderInv'
<1> SUFFICES ASSUME ~overlapped'
             PROVE  OrderInv'
  BY DEF OrderInv
<1>0. ledgerOf' = ledgerOf
  BY SameLedgers
<1> USE DEF PollGoes, storeVars, pageVars, SetPage
<1>1. ASSUME NEW p \in Pollers, ReadCheckpoint(p)
      PROVE  OrderInv'
  <2>1. /\ last'[p] = checkpoint /\ poller'[p] = "fetch" /\ ~overlapped
        /\ \A q \in Pollers \ {p} : poller'[q] = "idle"
        /\ UNCHANGED <<checkpoint, applied>>
    BY <1>1 DEF ReadCheckpoint, ListenerTypeOK
  <2> QED
    BY <1>0, <2>1 DEF OrderInv, InPage, InTx
<1>2. ASSUME NEW p \in Pollers, Fetch(p)
      PROVE  OrderInv'
  <2>1. PICK m \in 0 .. NumTxs :
           /\ UpTo(last[p]) = 1 .. m /\ poller[p] = "fetch"
           /\ poller' = [poller EXCEPT ![p] = "next"] /\ next' = [next EXCEPT ![p] = m + 1]
           /\ UNCHANGED <<checkpoint, applied, last, overlapped>>
    BY <1>2, Fetched
  <2>2. /\ poller'[p] = "next" /\ next'[p] = m + 1 /\ last[p] = checkpoint
        /\ \A q \in Pollers \ {p} : poller'[q] = "idle"
    BY <2>1, OthersIdle DEF ListenerTypeOK, OrderInv
  <2>3. ASSUME NEW t \in Txs
        PROVE  (t <= m <=> ledgerOf[t] <= checkpoint) /\ t \in Nat /\ ledgerOf[t] \in Nat
               /\ checkpoint \in Nat
    <3>1. t \in UpTo(last[p]) <=> ledgerOf[t] <= checkpoint
      BY <2>2 DEF UpTo
    <3>2. ledgerOf[t] \in Nat /\ checkpoint \in Nat
      BY LedgersAre DEF ListenerTypeOK
    <3>3. t \in 1 .. NumTxs /\ NumTxs \in Nat
      BY LedgersAre DEF Txs
    <3> QED
      BY <2>1, <3>1, <3>2, <3>3
  <2>4. ASSUME NEW t \in Txs, applied[t] > 0
        PROVE  t <= m + 1
    <3>1. CASE t > m + 1
      <4>1. m + 1 \in Txs
        <5>1. t \in 1 .. NumTxs /\ NumTxs \in Nat /\ m \in Nat
          BY LedgersAre DEF Txs
        <5>2. m + 1 \in 1 .. NumTxs
          BY <3>1, <5>1
        <5> QED
          BY <5>2 DEF Txs
      <4>2. ~ (ledgerOf[m + 1] <= checkpoint) /\ ledgerOf[m + 1] \in Nat /\ checkpoint \in Nat
        BY <2>3, <4>1
      <4>3. t <= m + 1
        BY <2>1, <2>4, <4>1, <4>2 DEF OrderInv
      <4> QED
        BY <4>3
    <3> QED
      BY <2>3, <3>1
  <2>5. InPlace(p)'
    <3>1. ASSUME NEW t \in Txs
          PROVE  /\ applied[t] > 0 => t <= m + 1
                 /\ ledgerOf[t] > checkpoint => m + 1 <= t
                 /\ m + 1 <= t => checkpoint <= ledgerOf[t]
      BY <2>3, <2>4
    <3> QED
      BY <1>0, <2>1, <2>2, <3>1 DEF InPlace
  <2> QED
    BY <1>0, <2>1, <2>2, <2>5 DEF OrderInv, InPage, InTx
<1>3. ASSUME NEW p \in Pollers,
             \/ FetchFails(p) \/ NextTx(p) \/ CheckProcessed(p) \/ MarkProcessed(p)
             \/ PollerCrashes(p)
      PROVE  OrderInv'
  <2>1. UNCHANGED <<checkpoint, applied, last, overlapped>>
    BY <1>3 DEF FetchFails, NextTx, CheckProcessed, MarkProcessed, PollerCrashes
  <2>2. \A q \in Pollers \ {p} : poller'[q] = poller[q] /\ next'[q] = next[q]
    BY <1>3 DEF FetchFails, NextTx, CheckProcessed, MarkProcessed, PollerCrashes, ListenerTypeOK
  <2>3. /\ poller'[p] # "fetch"
        /\ poller'[p] \in InPage => poller[p] \in InPage /\ next'[p] = next[p]
    BY <1>3 DEF FetchFails, NextTx, CheckProcessed, MarkProcessed, PollerCrashes, ListenerTypeOK,
       InPage, InTx
  <2> QED
    BY <1>0, <2>1, <2>2, <2>3, PlaceKept
<1>4. ASSUME NEW p \in Pollers, Handle(p) \/ HandleFails(p)
      PROVE  OrderInv'
  <2>1. /\ poller[p] = "handle" /\ poller'[p] = "mark"
        /\ \A q \in Pollers \ {p} : poller'[q] = poller[q]
        /\ UNCHANGED <<checkpoint, last, next, overlapped>>
        /\ applied' = applied \/ applied' = [applied EXCEPT ![next[p]] = @ + 1]
    BY <1>4 DEF Handle, HandleFails, ListenerTypeOK
  <2>2. \A q \in Pollers \ {p} : poller'[q] = "idle"
    BY <2>1, OthersIdle
  <2>3. InPlace(p) /\ \A s, t \in Txs : applied[t] > 0 /\ ledgerOf[s] > checkpoint => t <= s
    BY <2>1 DEF OrderInv, InPage, InTx
  <2>4. \A t \in Txs : t # next[p] => applied'[t] = applied[t]
    BY <2>1 DEF ListenerTypeOK
  <2>5. next[p] \in Nat
    BY DEF ListenerTypeOK
  <2>6. InPlace(p)'
    <3>1. ASSUME NEW t \in Txs
          PROVE  /\ applied'[t] > 0 => t <= next[p]
                 /\ ledgerOf[t] > checkpoint => next[p] <= t
                 /\ next[p] <= t => checkpoint <= ledgerOf[t]
      BY <2>3, <2>4, <2>5 DEF InPlace
    <3> QED
      BY <1>0, <2>1, <3>1 DEF InPlace
  <2>7. \A s, t \in Txs : applied'[t] > 0 /\ ledgerOf[s] > checkpoint => t <= s
    BY <2>3, <2>4 DEF InPlace
  <2> QED
    BY <1>0, <2>1, <2>2, <2>6, <2>7 DEF OrderInv, InPage, InTx
<1>5. ASSUME NEW p \in Pollers, Advance(p)
      PROVE  OrderInv'
  <2>1. /\ poller[p] = "advance" /\ poller'[p] = "next" /\ next'[p] = next[p] + 1
        /\ checkpoint' = ledgerOf[next[p]] /\ UNCHANGED <<applied, overlapped>>
        /\ \A q \in Pollers \ {p} : poller'[q] = poller[q]
    BY <1>5 DEF Advance, ListenerTypeOK
  <2>2. \A q \in Pollers \ {p} : poller'[q] = "idle"
    BY <2>1, OthersIdle
  <2>3. next[p] \in Txs /\ next[p] \in Nat
    BY <2>1, LedgersAre DEF AtHand, InTx, ListenerTypeOK, Txs
  <2>4. \A t \in Txs : applied[t] > 0 => t <= next[p]
    BY <2>1 DEF OrderInv, InPlace, InPage, InTx
  <2>5. ASSUME NEW t \in Txs
        PROVE  /\ t \in Nat
               /\ ledgerOf[t] > ledgerOf[next[p]] => next[p] + 1 <= t
               /\ next[p] <= t => ledgerOf[next[p]] <= ledgerOf[t]
    <3>1. /\ t \in Nat /\ ledgerOf[t] \in Nat /\ ledgerOf[next[p]] \in Nat
          /\ t <= next[p] => ledgerOf[t] <= ledgerOf[next[p]]
          /\ next[p] <= t => ledgerOf[next[p]] <= ledgerOf[t]
      BY <2>3, LedgersAre
    <3> QED
      BY <2>3, <3>1
  <2>6. InPlace(p)'
    <3>1. ASSUME NEW t \in Txs
          PROVE  /\ applied[t] > 0 => t <= next[p] + 1
                 /\ ledgerOf[t] > ledgerOf[next[p]] => next[p] + 1 <= t
                 /\ next[p] + 1 <= t => ledgerOf[next[p]] <= ledgerOf[t]
      BY <2>3, <2>4, <2>5
    <3> QED
      BY <1>0, <2>1, <3>1 DEF InPlace
  <2>7. \A s, t \in Txs : applied[t] > 0 /\ ledgerOf[s] > ledgerOf[next[p]] => t <= s
    BY <2>3, <2>4, <2>5
  <2> QED
    BY <1>0, <2>1, <2>2, <2>6, <2>7 DEF OrderInv, InPage, InTx
<1>6. CASE Close \/ UNCHANGED listenerVars
  <2>1. UNCHANGED <<checkpoint, applied, poller, last, next, overlapped>>
    BY <1>6 DEF Close, listenerVars, pollVars
  <2> QED
    BY <1>0, <2>1 DEF OrderInv, InPlace
<1> QED
  BY <1>1, <1>2, <1>3, <1>4, <1>5, <1>6 DEF ListenerNext, ContinuePoll

\* In that order, effects are written, and the checkpoint moves, forwards only.
LEMMA InOrder ==
  ASSUME ListenerTypeOK, AtHand, OrderInv, [ListenerNext]_listenerVars, ~overlapped
  PROVE  /\ \A s, t \in Txs : s < t /\ applied[t] > 0 => applied'[s] = applied[s]
         /\ checkpoint' >= checkpoint
<1> USE DEF PollGoes, storeVars, pageVars
<1>0. checkpoint \in Nat
  BY LedgersAre DEF ListenerTypeOK
<1>1. ASSUME NEW p \in Pollers, Handle(p) \/ HandleFails(p)
      PROVE  /\ \A s, t \in Txs : s < t /\ applied[t] > 0 => applied'[s] = applied[s]
             /\ checkpoint' = checkpoint
  <2>1. /\ poller[p] = "handle" /\ checkpoint' = checkpoint
        /\ applied' = applied \/ applied' = [applied EXCEPT ![next[p]] = @ + 1]
    BY <1>1 DEF Handle, HandleFails
  <2>2. \A t \in Txs : applied[t] > 0 => t <= next[p]
    BY <2>1 DEF OrderInv, InPlace, InPage, InTx
  <2>3. next[p] \in Nat /\ Txs \subseteq Nat /\ \A s \in Txs : s # next[p] => applied'[s] = applied[s]
    BY <2>1, LedgersAre DEF ListenerTypeOK
  <2> QED
    BY <2>1, <2>2, <2>3
<1>2. ASSUME NEW p \in Pollers, Advance(p)
      PROVE  applied' = applied /\ checkpoint' >= checkpoint
  <2>1. poller[p] = "advance" /\ checkpoint' = ledgerOf[next[p]] /\ applied' = applied
    BY <1>2 DEF Advance
  <2>2. next[p] \in Txs /\ next[p] <= next[p] /\ ledgerOf[next[p]] \in Nat
    BY <2>1, LedgersAre DEF AtHand, InTx, ListenerTypeOK, Txs
  <2>3. checkpoint <= ledgerOf[next[p]]
    BY <2>1, <2>2 DEF OrderInv, InPlace, InPage, InTx
  <2> QED
    BY <1>0, <2>1, <2>2, <2>3
<1>3. ASSUME NEW p \in Pollers,
             \/ ReadCheckpoint(p) \/ Fetch(p) \/ FetchFails(p) \/ NextTx(p) \/ CheckProcessed(p)
             \/ MarkProcessed(p) \/ PollerCrashes(p)
      PROVE  applied' = applied /\ checkpoint' = checkpoint
  BY <1>3 DEF ReadCheckpoint, Fetch, FetchFails, NextTx, CheckProcessed, MarkProcessed, PollerCrashes
<1>4. ASSUME Close \/ UNCHANGED listenerVars
      PROVE  applied' = applied /\ checkpoint' = checkpoint
  BY <1>4 DEF Close, listenerVars
<1> QED
  <2>1. \/ \E p \in Pollers : Handle(p) \/ HandleFails(p)
        \/ \E p \in Pollers : Advance(p)
        \/ applied' = applied /\ checkpoint' = checkpoint
    BY <1>3, <1>4 DEF ListenerNext, ContinuePoll
  <2> QED
    BY <1>0, <1>1, <1>2, <2>1

-----------------------------------------------------------------------------
(* Both. *)

LEMMA ListenerInitHolds == ListenerInit => ListenerInv
<1> SUFFICES ASSUME ListenerInit
             PROVE  ListenerInv
  OBVIOUS
<1>1. ListenerTypeOK /\ AtHand
  BY ListenerTypesInit
<1>2. /\ checkpoint = 0 /\ processed = {} /\ crashes = 0 /\ \A t \in Txs : applied[t] = 0
      /\ \A p \in Pollers : poller[p] = "idle"
  BY DEF ListenerInit
<1>3. UpTo(checkpoint) = {}
  BY <1>1, <1>2, LedgersAre DEF UpTo
<1>4. AloneInv /\ HeldInv
  BY <1>2, <1>3 DEF AloneInv, HeldInv, Behind, InPage, InTx
<1>5. Repeats = {} /\ Loose = {}
  BY <1>2 DEF Repeats, Loose
<1>6. OnceInv
  BY <1>2, <1>5, FS_EmptySet DEF OnceInv
<1> QED
  BY <1>1, <1>4, <1>6 DEF ListenerInv

LEMMA ListenerStepHolds == ListenerInv /\ [ListenerNext]_listenerVars => ListenerInv'
BY ListenerTypesStep, AloneStep, HeldStep, OnceStep DEF ListenerInv

LEMMA EventsInvariant == EventsSpec => [](subject \in Subjects /\ ListenerInv /\ SyncInv)
<1> DEFINE Inv == subject \in Subjects /\ ListenerInv /\ SyncInv
<1>1. EventsInit => Inv
  BY ListenerInitHolds, SyncTypesInit DEF EventsInit
<1>2. Inv /\ [EventsNext]_eventsVars => Inv'
  <2> SUFFICES ASSUME Inv, [EventsNext]_eventsVars
               PROVE  Inv'
    OBVIOUS
  <2>1. subject' = subject /\ [ListenerNext]_listenerVars /\ [SyncNext]_syncVars
    BY DEF EventsNext, ListenerStep, SyncStep, eventsVars
  <2> QED
    BY <2>1, ListenerStepHolds, SyncTypesStep
<1> QED
  BY <1>1, <1>2, PTL DEF EventsSpec

(* The variables of the listener and of the sync jobs keep their types, for any
   chain, pollers, page size, deliveries and faults. *)
THEOREM EventsTypeTheorem == EventsSpec => []EventsTypeOK
<1>1. subject \in Subjects /\ ListenerInv /\ SyncInv => EventsTypeOK
  BY DEF EventsTypeOK, ListenerInv, SyncInv
<1> QED
  BY EventsInvariant, <1>1, PTL

(* For any chain, any polls that overlap and any page size: what the checkpoint
   lets the next poll skip is processed or in the hands of a poll, also after
   crashes when no ledger holds two transactions; and as long as polls do not
   overlap, a crash repeats the effects of one transaction at most (pollNow). *)
THEOREM PollsAreSafeTheorem == EventsSpec => []PollsAreSafe
<1>1. ASSUME ListenerInv, NothingCutShort
      PROVE  \A t \in Txs : ledgerOf[t] <= checkpoint =>
               t \in processed \/ \E p \in Pollers : t \in Page(p)
  <2>1. CASE Alone
    BY <1>1, <2>1 DEF ListenerInv, AloneInv, Behind, UpTo
  <2>2. CASE crashes = 0 /\ PagesEndLedgers
    BY <1>1, <2>2, HeldIs DEF ListenerInv, HeldInv, Behind, UpTo, Page
  <2> QED
    BY <1>1, <2>1, <2>2 DEF NothingCutShort
<1>2. ListenerInv => HandledOnce
  <2> SUFFICES ASSUME ListenerInv, ~overlapped
               PROVE  Cardinality(Repeats) <= crashes
    BY DEF HandledOnce
  <2>1. Cardinality(Repeats) + Cardinality(Loose) <= crashes /\ crashes \in Nat
        /\ Cardinality(Repeats) \in Nat
    BY LedgersAre, FS_CardinalityType DEF ListenerInv, OnceInv, ListenerTypeOK
  <2>2. Cardinality(Loose) \in Nat
    BY LooseIs, TxsFinite
  <2> QED
    BY <2>1, <2>2
<1>3. subject \in Subjects /\ ListenerInv /\ SyncInv => PollsAreSafe
  BY <1>1, <1>2 DEF PollsAreSafe, CheckpointIsSafe
<1> QED
  BY EventsInvariant, <1>3, PTL

(* The safety half of EventsSettle, for any chain, page size, pollers, jobs and
   faults. As long as polls do not overlap, the effects of transactions are
   written in the order of the chain, after crashes too, and the checkpoint never
   leads back (pollNow, setLastProcessedLedger); a contribution is recorded for a
   round the group has reached and never moved to another (EventSyncProcessor). *)
THEOREM EventsInOrderTheorem ==
  EventsSpec => HandledInOrder /\ CheckpointAdvances /\ RecordedForGood
<1> DEFINE Inv == ListenerInv /\ SyncInv
           InvO == OrderInv /\ RoundsReached
           ActO == \A s, t \in Txs : s < t /\ applied[t] > 0 /\ ~overlapped => applied'[s] = applied[s]
           ActC == ~overlapped => checkpoint' >= checkpoint
           ActR == \A t \in Recorded : rounds'[t] = rounds[t] /\ rounds'[t] <= round
<1>1. EventsInit => InvO
  <2>1. ListenerInit => OrderInv
    BY DEF ListenerInit, OrderInv, InPage, InTx
  <2>2. SyncInit => RoundsReached
    BY DEF SyncInit, RoundsReached
  <2> QED
    BY <2>1, <2>2 DEF EventsInit
<1>2. ASSUME Inv, InvO, [EventsNext]_eventsVars
      PROVE  InvO' /\ [ActO]_listenerVars /\ [ActC]_listenerVars /\ [ActR]_syncVars
  <2>1. [ListenerNext]_listenerVars /\ [SyncNext]_syncVars
    BY <1>2 DEF EventsNext, ListenerStep, SyncStep, eventsVars
  <2>2. OrderInv' /\ RoundsReached'
    BY <1>2, <2>1, OrderStep, ReachedStep DEF ListenerInv
  <2>3. ActO /\ ActC
    BY <1>2, <2>1, InOrder DEF ListenerInv
  <2>4. ActR
    BY <1>2, <2>1, RecordStays
  <2> QED
    BY <2>2, <2>3, <2>4
<1>3. EventsSpec => []Inv
  BY EventsInvariant, PTL
<1>4. EventsSpec => [][ActO]_listenerVars /\ [][ActC]_listenerVars /\ [][ActR]_syncVars
  <2> HIDE DEF Inv, InvO, ActO, ActC, ActR
  <2> QED
    BY <1>1, <1>2, <1>3, PTL DEF EventsSpec
<1> QED
  BY <1>4 DEF HandledInOrder, CheckpointAdvances, RecordedForGood

-----------------------------------------------------------------------------
(* Scheduled tasks. *)

\* The items of the reminders, and what the other steps rely on of a run: the
\* reminders go through users, and the one to be marked is one of them.
ToRemind == [user : Users, steps : 0 .. ProfileSteps]
RunOK(t) ==
  /\ t \in Runs \cup {NoTask}
  /\ t.name = Reminders => t.todo \subseteq ToRemind
  /\ t.at = "mark" => t.now \in ToRemind

\* A user who is about to be marked has been mailed, and so has who is marked.
TasksInv ==
  /\ TasksTypeOK
  /\ task \in [Servers -> Runs \cup {NoTask}]
  /\ \A s \in Servers : RunOK(task[s])
  /\ \A s \in Servers : task[s].at = "mark" => task[s].now.user \in mailed
  /\ MarkedWasMailed

\* What there is to read of a run.
LEMMA RunIs ==
  ASSUME NEW t \in Runs
  PROVE  /\ t # NoTask /\ t.name \in Tasks /\ t.attempt \in 1 .. MaxAttempts
         /\ t.at \in {"check", "body", "loop", "mark", "release"}
         /\ t.now \in Items \cup {NoItem} /\ t.todo \subseteq Items
BY DEF Runs, NoTask

\* A server that runs something: which is no empty run.
LEMMA NotIdle ==
  ASSUME NEW t, RunOK(t), t # NoTask \/ t.at # "idle" 
  PROVE  t \in Runs
BY DEF RunOK, NoTask

LEMMA IdleIsRun == RunOK(NoTask) /\ NoTask.at = "idle"
BY DEF RunOK, NoTask, Reminders

LEMMA UsersAreItems == ToRemind \subseteq Items
BY DEF Items, ToRemind

\* The rows that steps leave.
LEMMA RunStarts ==
  ASSUME NEW name \in Tasks
  PROVE  RunOK([name |-> name, at |-> "check", attempt |-> 1, now |-> NoItem,
                todo |-> {}])
BY TasksAssumption DEF RunOK, Runs

LEMMA RunGoes ==
  ASSUME NEW t \in Runs, RunOK(t), NEW where \in {"body", "loop", "release"}
  PROVE  RunOK([t EXCEPT !.at = where]) /\ [t EXCEPT !.at = where].at = where
BY DEF RunOK, Runs

LEMMA RunAgain ==
  ASSUME NEW t \in Runs, RunOK(t), t.attempt < MaxAttempts, t.at = "body"
  PROVE  /\ RunOK([t EXCEPT !.attempt = @ + 1])
         /\ [t EXCEPT !.attempt = @ + 1].at = "body"
BY TasksAssumption DEF RunOK, Runs

LEMMA RunListsGroups ==
  ASSUME NEW t \in Runs, t.name = Summaries, NEW S \in SUBSET Items,
         NEW where \in {"body", "loop"}
  PROVE  LET new == [t EXCEPT !.at = where, !.todo = S]
         IN  RunOK(new) /\ new.at = where
BY DEF RunOK, Runs, Summaries, Reminders

LEMMA RunListsUsers ==
  ASSUME NEW t \in Runs, NEW S \in SUBSET ToRemind
  PROVE  LET new == [t EXCEPT !.at = "loop", !.todo = S]
         IN  RunOK(new) /\ new.at = "loop"
BY UsersAreItems DEF RunOK, Runs

\* The row of a loop that goes on to an item.
Onward(t, where, item) ==
  [t EXCEPT !.at = where, !.now = item, !.todo = t.todo \ {item}]

LEMMA RunNext ==
  ASSUME NEW t \in Runs, RunOK(t), t.name = Reminders, NEW item \in t.todo,
         NEW where \in {"loop", "mark"}
  PROVE  /\ RunOK(Onward(t, where, item))
         /\ Onward(t, where, item).at = where
         /\ Onward(t, where, item).now = item
<1>1. item \in ToRemind /\ item \in Items /\ t.todo \subseteq Items
  BY UsersAreItems DEF RunOK
<1> QED
  BY <1>1 DEF RunOK, Runs, Onward

LEMMA TasksInitially == TasksInit => TasksInv
<1> SUFFICES ASSUME TasksInit PROVE TasksInv
  OBVIOUS
<1>1. \A s \in Servers : task[s] = NoTask
  BY DEF TasksInit
<1>2. steps \in [Users -> 0 .. ProfileSteps] /\ DOMAIN locks \subseteq Tasks
  BY DEF TasksInit, ProfileSteps
<1>3. task \in [Servers -> Runs \cup {NoTask}]
  BY DEF TasksInit
<1>4. \A s \in Servers : task[s] \in Runs \cup {NoTask}
  BY <1>1
<1>5. taskFaults \in 0 .. MaxTaskFaults
  BY TasksAssumption DEF TasksInit
<1>6. TasksTypeOK
  BY <1>2, <1>4, <1>5 DEF TasksInit, TasksTypeOK
<1> QED
  BY <1>1, <1>3, <1>6, IdleIsRun DEF TasksInv, TasksInit, MarkedWasMailed

\* A server goes on to a row that marks nobody who was not mailed.
LEMMA RunMoves ==
  ASSUME TasksInv, NEW s \in Servers, NEW new, RunOK(new),
         new.at = "mark" => new.now.user \in mailed',
         mailed \subseteq mailed', task' = [task EXCEPT ![s] = new]
  PROVE  /\ task' \in [Servers -> Runs \cup {NoTask}]
         /\ \A r \in Servers : RunOK(task'[r])
         /\ \A r \in Servers : task'[r].at = "mark" => task'[r].now.user \in mailed'
<1>1. new \in Runs \cup {NoTask}
  BY DEF RunOK
<1>2. \A r \in Servers : task'[r] = IF r = s THEN new ELSE task[r]
  BY DEF TasksInv
<1> QED
  BY <1>1, <1>2 DEF TasksInv

\* What Answered and the lock do.
LEMMA AnsweredTyped ==
  ASSUME TasksInv, NEW up, Answered(up) \/ Fault
  PROVE  taskFaults' \in 0 .. MaxTaskFaults
BY TasksAssumption DEF TasksInv, TasksTypeOK, Answered, Fault

\* Steps that leave the rows of the tables alone.
LEMMA RowsStay ==
  ASSUME TasksInv, NEW s \in Servers, NEW new, RunOK(new), new.at # "mark",
         task' = [task EXCEPT ![s] = new], UNCHANGED <<taskRows, cron>>,
         DOMAIN locks' \subseteq Tasks, taskFaults' \in 0 .. MaxTaskFaults
  PROVE  TasksInv'
<1>1. /\ task' \in [Servers -> Runs \cup {NoTask}]
      /\ \A r \in Servers : RunOK(task'[r])
      /\ \A r \in Servers : task'[r].at = "mark" => task'[r].now.user \in mailed'
  BY RunMoves DEF taskRows
<1>2. \A r \in Servers : task'[r] \in Runs \cup {NoTask}
  BY <1>1
<1>3. TasksTypeOK' /\ MarkedWasMailed'
  BY <1>2 DEF TasksInv, TasksTypeOK, taskRows, MarkedWasMailed
<1> QED
  BY <1>1, <1>3 DEF TasksInv

\* The lock: SET, EXISTS and DEL.
LEMMA LockSteps ==
  ASSUME TasksInv, NEW s \in Servers,
         CheckLock(s) \/ ReleaseLock(s) \/ \E name \in Tasks : SetLock(s, name)
  PROVE  TasksInv'
<1>1. RunOK(task[s]) /\ DOMAIN locks \subseteq Tasks
  BY DEF TasksInv, TasksTypeOK
<1>2. CASE CheckLock(s)
  <2>1. task[s] \in Runs
    BY <1>1, <1>2, NotIdle DEF CheckLock
  <2>2. PICK new : /\ new \in {[task[s] EXCEPT !.at = "body"], NoTask}
                   /\ task' = [task EXCEPT ![s] = new]
    BY <1>2 DEF CheckLock, Go
  <2>3. RunOK(new) /\ new.at # "mark"
    BY <1>1, <2>1, <2>2, RunGoes, IdleIsRun
  <2>4. taskFaults' \in 0 .. MaxTaskFaults
    BY <1>2, AnsweredTyped DEF CheckLock
  <2> QED
    BY <1>1, <1>2, <2>2, <2>3, <2>4, RowsStay DEF CheckLock
<1>3. CASE ReleaseLock(s)
  <2>1. DOMAIN locks' \subseteq Tasks
    BY <1>1, <1>3 DEF ReleaseLock, Del, Restrict
  <2>2. taskFaults' \in 0 .. MaxTaskFaults
    BY <1>3, AnsweredTyped DEF ReleaseLock
  <2> QED
    BY <1>3, <2>1, <2>2, RowsStay, IdleIsRun DEF ReleaseLock
<1>4. ASSUME NEW name \in Tasks, SetLock(s, name) PROVE TasksInv'
  <2>1. DOMAIN locks' \subseteq Tasks
    BY <1>1, <1>4 DEF SetLock, SetWithExpiry
  <2>2. taskFaults' \in 0 .. MaxTaskFaults
    BY <1>4, AnsweredTyped DEF SetLock
  <2>3. RunOK([name |-> name, at |-> "check", attempt |-> 1, now |-> NoItem,
               todo |-> {}])
    BY RunStarts
  <2> QED
    BY <1>4, <2>1, <2>2, <2>3, RowsStay DEF SetLock
<1> QED
  BY <1>2, <1>3, <1>4

LEMMA ExpiryStep ==
  ASSUME TasksInv, NEW name \in Tasks, LockExpires(name)
  PROVE  TasksInv'
<1>1. DOMAIN locks' \subseteq Tasks
  BY DEF TasksInv, TasksTypeOK, LockExpires, Del, Restrict
<1> QED
  BY <1>1 DEF TasksInv, TasksTypeOK, LockExpires, taskRows, MarkedWasMailed

\* executeWithRetry, and a crash.
LEMMA FailingSteps ==
  ASSUME TasksInv, NEW s \in Servers, ExecuteWithRetry(s) \/ ServerCrash(s)
  PROVE  TasksInv'
<1>1. RunOK(task[s]) /\ DOMAIN locks \subseteq Tasks
  BY DEF TasksInv, TasksTypeOK
<1>2. taskFaults' \in 0 .. MaxTaskFaults
  BY AnsweredTyped DEF ExecuteWithRetry, ServerCrash
<1>3. CASE ExecuteWithRetry(s)
  <2>1. task[s] \in Runs /\ task[s].at = "body"
    BY <1>1, <1>3, NotIdle DEF ExecuteWithRetry
  <2>2. PICK new :
          /\ task' = [task EXCEPT ![s] = new]
          /\ \/ /\ task[s].attempt < MaxAttempts
                /\ new = [task[s] EXCEPT !.attempt = @ + 1]
             \/ new = [task[s] EXCEPT !.at = "release"]
    BY <1>3 DEF ExecuteWithRetry, Go
  <2>3. RunOK(new) /\ new.at # "mark"
    BY <1>1, <2>1, <2>2, RunGoes, RunAgain
  <2> QED
    BY <1>1, <1>2, <1>3, <2>2, <2>3, RowsStay DEF ExecuteWithRetry
<1>4. CASE ServerCrash(s)
  BY <1>1, <1>2, <1>4, RowsStay, IdleIsRun DEF ServerCrash
<1> QED
  BY <1>3, <1>4

\* Bodies that only go on: those of other modules, and the end of a loop.
LEMMA DelegateSteps ==
  ASSUME TasksInv, NEW s \in Servers,
         EndLoop(s) \/ \E name \in Elsewhere : Delegate(s, name)
  PROVE  TasksInv'
<1>1. RunOK(task[s]) /\ DOMAIN locks \subseteq Tasks /\ taskFaults \in 0 .. MaxTaskFaults
  BY DEF TasksInv, TasksTypeOK
<1>2. task[s] \in Runs
  BY <1>1, NotIdle DEF EndLoop, Delegate, Running
<1>3. task' = [task EXCEPT ![s] = [task[s] EXCEPT !.at = "release"]]
  BY DEF EndLoop, Delegate, Go
<1>4. RunOK([task[s] EXCEPT !.at = "release"]) /\ [task[s] EXCEPT !.at = "release"].at # "mark"
  BY <1>1, <1>2, RunGoes
<1>5. UNCHANGED <<taskRows, cron>> /\ locks' = locks /\ taskFaults' = taskFaults
  BY DEF EndLoop, Delegate
<1> QED
  BY <1>1, <1>3, <1>4, <1>5, RowsStay

\* The sweeps and the request to recalculate: no more than that row.
LEMMA SweptSteps ==
  ASSUME TasksInv, NEW s \in Servers,
         RecalculateTrustScores(s) \/ \E name \in Sweeps : Sweep(s, name)
  PROVE  TasksInv'
<1>1. RunOK(task[s])
  BY DEF TasksInv
<1>2. task[s] \in Runs
  BY <1>1, NotIdle DEF RecalculateTrustScores, Sweep, Running
<1>3. task' = [task EXCEPT ![s] = [task[s] EXCEPT !.at = "release"]]
  BY DEF RecalculateTrustScores, Sweep, Go
<1>4. RunOK([task[s] EXCEPT !.at = "release"]) /\ [task[s] EXCEPT !.at = "release"].at # "mark"
  BY <1>1, <1>2, RunGoes
<1>5. /\ due' \subseteq Sweeps /\ recalculate' \in BOOLEAN
      /\ UNCHANGED <<locks, asked, steps, mailed, cron, taskFaults>>
  BY DEF RecalculateTrustScores, Sweep, TasksInv, TasksTypeOK
<1>6. /\ task' \in [Servers -> Runs \cup {NoTask}]
      /\ \A r \in Servers : RunOK(task'[r])
      /\ \A r \in Servers : task'[r].at = "mark" => task'[r].now.user \in mailed'
  BY <1>3, <1>4, <1>5, RunMoves
<1>7. \A r \in Servers : task'[r] \in Runs \cup {NoTask}
  BY <1>6
<1>8. TasksTypeOK' /\ MarkedWasMailed'
  BY <1>5, <1>7 DEF TasksInv, TasksTypeOK, MarkedWasMailed
<1> QED
  BY <1>6, <1>8 DEF TasksInv

\* The summaries list groups and go through them.
LEMMA SummarySteps ==
  ASSUME TasksInv, NEW s \in Servers, FindActiveGroups(s) \/ GenerateWeeklySummary(s)
  PROVE  TasksInv'
<1>1. RunOK(task[s]) /\ DOMAIN locks \subseteq Tasks /\ taskFaults \in 0 .. MaxTaskFaults
  BY DEF TasksInv, TasksTypeOK
<1>2. task[s] \in Runs /\ task[s].name = Summaries
  BY <1>1, NotIdle DEF FindActiveGroups, GenerateWeeklySummary, Running
<1>3. UNCHANGED <<taskRows, cron>> /\ locks' = locks /\ taskFaults' = taskFaults
  BY DEF FindActiveGroups, GenerateWeeklySummary
<1>4. PICK S \in SUBSET Items :
        task' = [task EXCEPT ![s] = [task[s] EXCEPT !.at = "loop", !.todo = S]]
  <2>1. CASE FindActiveGroups(s)
    <3>1. {[group |-> g] : g \in Groups} \in SUBSET Items
      BY DEF Items
    <3> QED
      BY <2>1, <3>1 DEF FindActiveGroups
  <2>2. CASE GenerateWeeklySummary(s)
    <3>1. PICK item \in task[s].todo, heapExceeded \in BOOLEAN :
            task' = [task EXCEPT ![s].todo =
                       IF heapExceeded THEN {} ELSE @ \ {item}]
      BY <2>2 DEF GenerateWeeklySummary
    <3>2. PICK S \in SUBSET Items :
            task' = [task EXCEPT ![s] = [task[s] EXCEPT !.todo = S]]
      BY <1>2, <3>1, RunIs
    <3>3. [task[s] EXCEPT !.todo = S] = [task[s] EXCEPT !.at = "loop", !.todo = S]
      BY <1>2, <2>2 DEF GenerateWeeklySummary, Running, Runs
    <3> QED
      BY <3>2, <3>3
  <2> QED
    BY <2>1, <2>2
<1>5. /\ RunOK([task[s] EXCEPT !.at = "loop", !.todo = S])
      /\ [task[s] EXCEPT !.at = "loop", !.todo = S].at = "loop"
  BY <1>2, RunListsGroups
<1> QED
  BY <1>1, <1>3, <1>4, <1>5, RowsStay

\* The reminders list users ...
LEMMA FindUsersStep ==
  ASSUME TasksInv, NEW s \in Servers, FindUsers(s)
  PROVE  TasksInv'
<1>1. RunOK(task[s]) /\ DOMAIN locks \subseteq Tasks /\ taskFaults \in 0 .. MaxTaskFaults
  BY DEF TasksInv, TasksTypeOK
<1>2. task[s] \in Runs
  BY <1>1, NotIdle DEF FindUsers, Running
<1> DEFINE Listed == {[user |-> u, steps |-> steps[u]] : u \in Users \ asked}
<1>3. Listed \in SUBSET ToRemind
  BY DEF ToRemind, TasksInv, TasksTypeOK
<1>4. task' = [task EXCEPT ![s] = [task[s] EXCEPT !.at = "loop", !.todo = Listed]]
  BY DEF FindUsers
<1>5. /\ RunOK([task[s] EXCEPT !.at = "loop", !.todo = Listed])
      /\ [task[s] EXCEPT !.at = "loop", !.todo = Listed].at = "loop"
  BY <1>2, <1>3, RunListsUsers
<1> HIDE DEF Listed
<1> QED
  BY <1>1, <1>4, <1>5, RowsStay DEF FindUsers

\* ... mail them before they are marked ...
LEMMA RemindStep ==
  ASSUME TasksInv, NEW s \in Servers, Remind(s)
  PROVE  TasksInv'
<1>1. RunOK(task[s])
  BY DEF TasksInv
<1>2. task[s] \in Runs /\ task[s].name = Reminders
  BY <1>1, NotIdle DEF Remind, Running
<1>3. UNCHANGED <<locks, due, asked, steps, recalculate, cron>>
  BY DEF Remind
<1>4. PICK item \in task[s].todo :
        \/ /\ mailed' = mailed \cup {item.user}
           /\ NextItem(s, "mark", item)
           /\ UNCHANGED taskFaults
        \/ /\ NextItem(s, "loop", item) /\ mailed' = mailed
           /\ UNCHANGED taskFaults \/ Fault
  BY DEF Remind
<1>5. item.user \in Users
  BY <1>1, <1>2 DEF RunOK, ToRemind
<1>6. /\ taskFaults' \in 0 .. MaxTaskFaults
      /\ mailed \subseteq mailed' /\ mailed' \subseteq Users
  BY <1>4, <1>5, AnsweredTyped DEF TasksInv, TasksTypeOK
<1>7. PICK where \in {"loop", "mark"} :
        /\ NextItem(s, where, item)
        /\ where = "mark" => item.user \in mailed'
  BY <1>4
<1> DEFINE new == Onward(task[s], where, item)
<1>8. RunOK(new) /\ new.at = where /\ new.now = item
  BY <1>1, <1>2, RunNext
<1>9. task' = [task EXCEPT ![s] = new]
  BY <1>7 DEF NextItem, Onward
<1> HIDE DEF new
<1>10. /\ task' \in [Servers -> Runs \cup {NoTask}]
       /\ \A r \in Servers : RunOK(task'[r])
       /\ \A r \in Servers : task'[r].at = "mark" => task'[r].now.user \in mailed'
  BY <1>6, <1>7, <1>8, <1>9, RunMoves
<1>11. \A r \in Servers : task'[r] \in Runs \cup {NoTask}
  BY <1>10
<1>12. TasksTypeOK' /\ MarkedWasMailed'
  BY <1>3, <1>6, <1>11 DEF TasksInv, TasksTypeOK, MarkedWasMailed
<1> QED
  BY <1>10, <1>12 DEF TasksInv

\* ... and mark them.
LEMMA MarkStep ==
  ASSUME TasksInv, NEW s \in Servers, MarkReminded(s)
  PROVE  TasksInv'
<1>1. RunOK(task[s]) /\ task[s].at = "mark"
  BY DEF TasksInv, MarkReminded, Running
<1>2. task[s] \in Runs
  BY <1>1, NotIdle
<1>3. UNCHANGED <<locks, due, mailed, recalculate, cron>>
  BY DEF MarkReminded
<1>4. /\ task[s].now.user \in Users \cap mailed
      /\ task[s].now.steps \in 0 .. ProfileSteps
  BY <1>1 DEF RunOK, ToRemind, TasksInv
<1>5. /\ asked' \subseteq Users /\ asked' \subseteq mailed
      /\ steps' \in [Users -> 0 .. ProfileSteps]
      /\ taskFaults' \in 0 .. MaxTaskFaults
  <2>1. CASE Fault /\ UNCHANGED <<asked, steps>>
    BY <2>1, AnsweredTyped DEF TasksInv, TasksTypeOK, MarkedWasMailed
  <2>2. CASE /\ asked' = asked \cup {task[s].now.user}
             /\ steps' = [steps EXCEPT ![task[s].now.user] = task[s].now.steps]
             /\ UNCHANGED taskFaults
    BY <1>4, <2>2 DEF TasksInv, TasksTypeOK, MarkedWasMailed
  <2> QED
    BY <2>1, <2>2 DEF MarkReminded
<1>6. task' = [task EXCEPT ![s] = [task[s] EXCEPT !.at = "loop"]]
  BY DEF MarkReminded, Go
<1>7. RunOK([task[s] EXCEPT !.at = "loop"]) /\ [task[s] EXCEPT !.at = "loop"].at # "mark"
  BY <1>1, <1>2, RunGoes
<1>8. /\ task' \in [Servers -> Runs \cup {NoTask}]
      /\ \A r \in Servers : RunOK(task'[r])
      /\ \A r \in Servers : task'[r].at = "mark" => task'[r].now.user \in mailed'
  BY <1>3, <1>6, <1>7, RunMoves
<1>9. \A r \in Servers : task'[r] \in Runs \cup {NoTask}
  BY <1>8
<1>10. TasksTypeOK' /\ MarkedWasMailed'
  BY <1>3, <1>5, <1>9 DEF TasksInv, TasksTypeOK, MarkedWasMailed
<1> QED
  BY <1>8, <1>10 DEF TasksInv

\* What happens around the tasks leaves the runs and the mails alone.
LEMMA AroundSteps ==
  ASSUME TasksInv,
         \/ \E name \in Tasks : RowsExpire(name)
         \/ \E u \in Users : CompleteStep(u)
         \/ ProcessTrustScores
         \/ UNCHANGED tasksVars
  PROVE  TasksInv'
<1>1. UNCHANGED <<locks, task, asked, mailed, cron, taskFaults>>
  BY DEF RowsExpire, CompleteStep, ProcessTrustScores, tasksVars, taskRows
<1>2. due' \subseteq Sweeps /\ recalculate' \in BOOLEAN
  BY DEF RowsExpire, CompleteStep, ProcessTrustScores, tasksVars, taskRows,
         TasksInv, TasksTypeOK
<1>3. steps' \in [Users -> 0 .. ProfileSteps]
  BY DEF RowsExpire, CompleteStep, ProcessTrustScores, tasksVars, taskRows,
         TasksInv, TasksTypeOK, ProfileSteps
<1> QED
  BY <1>1, <1>2, <1>3 DEF TasksInv, TasksTypeOK, MarkedWasMailed

LEMMA TasksStepHolds == TasksInv /\ [TasksNext]_tasksVars => TasksInv'
<1> SUFFICES ASSUME TasksInv, [TasksNext]_tasksVars PROVE TasksInv'
  OBVIOUS
<1>1. ASSUME NEW s \in Servers, TaskStep(s) PROVE TasksInv'
  <2>1. \/ CheckLock(s) \/ ReleaseLock(s) \/ EndLoop(s)
        \/ RecalculateTrustScores(s) \/ FindActiveGroups(s)
        \/ GenerateWeeklySummary(s) \/ FindUsers(s) \/ Remind(s) \/ MarkReminded(s)
        \/ \E name \in Sweeps : Sweep(s, name)
        \/ \E name \in Elsewhere : Delegate(s, name)
    BY <1>1 DEF TaskStep, ArchiveAuditLogs, CleanupExpiredRefreshTokens,
         ExpireGroupInvites, GroupStatusUpdates, StaleGroupDetection,
         AutoAdvanceRounds, PenaltyAssessment, StuckKycDetection, Sweeps, Elsewhere
  <2> QED
    BY <2>1, LockSteps, DelegateSteps, SweptSteps, SummarySteps, FindUsersStep,
       RemindStep, MarkStep
<1>2. ASSUME NEW s \in Servers,
             \/ ExecuteWithRetry(s) \/ ServerCrash(s)
             \/ \E name \in Tasks : SetLock(s, name)
      PROVE  TasksInv'
  BY <1>2, FailingSteps, LockSteps
<1>3. ASSUME NEW name \in Tasks, LockExpires(name) \/ RowsExpire(name)
      PROVE  TasksInv'
  BY <1>3, ExpiryStep, AroundSteps
<1> QED
  BY <1>1, <1>2, <1>3, AroundSteps DEF TasksNext

-----------------------------------------------------------------------------
(* Trust scores. *)

\* What scores are made of after n changes: no count is above n.
CountsTo(n) == [onTime : 0 .. n, late : 0 .. n, missed : 0 .. n,
            incurred : 0 .. n, paid : 0 .. n, completed : 0 .. n]
Made == MaxFacts + 1 - factsLeft

ScoresInv ==
  /\ ScoresTypeOK
  /\ facts \in [Scored -> CountsTo(Made)]
  /\ scoreRow \in [Scored -> {NoScore} \cup MemberTrustScore]
  /\ scorer \in [ScoreWorkers -> Scorers \cup {Resting}]

LEMMA ScoreNumbers ==
  /\ MaxScored \in Nat /\ ScoreBatch \in Nat /\ MaxFacts \in Nat /\ MaxScoreFaults \in Nat
  /\ MaxScored > 0
BY ScoresAssumption

\* A change adds at most one to each count.
LEMMA OneChange ==
  ASSUME NEW n \in Nat, NEW c \in CountsTo(n)
  PROVE  /\ [c EXCEPT !.late = @ + 1] \in CountsTo(n + 1)
         /\ [c EXCEPT !.onTime = @ + 1] \in CountsTo(n + 1)
         /\ [c EXCEPT !.incurred = @ + 1] \in CountsTo(n + 1)
         /\ [c EXCEPT !.paid = @ + 1] \in CountsTo(n + 1)
         /\ [c EXCEPT !.completed = @ + 1] \in CountsTo(n + 1)
         /\ c.late > 0 =>
              /\ [c EXCEPT !.late = @ - 1, !.onTime = @ + 1] \in CountsTo(n + 1)
              /\ [c EXCEPT !.late = @ - 1, !.missed = @ + 1] \in CountsTo(n + 1)
<1> DEFINE T == 0 .. n + 1
           S == 0 .. n
<1>1. \A i \in S : i \in T /\ i + 1 \in T /\ (i > 0 => i - 1 \in T)
  OBVIOUS
<1>2. /\ c.onTime \in S /\ c.late \in S /\ c.missed \in S
      /\ c.incurred \in S /\ c.paid \in S /\ c.completed \in S
  BY DEF CountsTo
<1>3. /\ c.onTime + 1 \in T /\ c.late + 1 \in T /\ c.missed + 1 \in T
      /\ c.incurred + 1 \in T /\ c.paid + 1 \in T /\ c.completed + 1 \in T
      /\ c.late > 0 => c.late - 1 \in T
  BY <1>1, <1>2
<1>4. S \subseteq T
  BY <1>1
<1>5. /\ CountsTo(n + 1) = [onTime : T, late : T, missed : T, incurred : T, paid : T,
                        completed : T]
      /\ c \in [onTime : S, late : S, missed : S, incurred : S, paid : S,
                completed : S]
  BY DEF CountsTo
<1> DEFINE Wider == [onTime : T, late : T, missed : T, incurred : T, paid : T,
                     completed : T]
<1> HIDE DEF S, T
<1>6. [c EXCEPT !.late = @ + 1] \in Wider /\ [c EXCEPT !.onTime = @ + 1] \in Wider
  BY <1>3, <1>4, <1>5
<1>7. /\ [c EXCEPT !.incurred = @ + 1] \in Wider /\ [c EXCEPT !.paid = @ + 1] \in Wider
      /\ [c EXCEPT !.completed = @ + 1] \in Wider
  BY <1>3, <1>4, <1>5
<1>8. ASSUME c.late > 0
      PROVE  /\ [c EXCEPT !.late = @ - 1, !.onTime = @ + 1] \in Wider
             /\ [c EXCEPT !.late = @ - 1, !.missed = @ + 1] \in Wider
  BY <1>3, <1>4, <1>5, <1>8
<1> QED
  BY <1>5, <1>6, <1>7, <1>8

LEMMA MoreAllowed ==
  ASSUME NEW n \in Nat, NEW m \in Nat, n <= m
  PROVE  CountsTo(n) \subseteq CountsTo(m)
<1>1. 0 .. n \subseteq 0 .. m
  OBVIOUS
<1> QED
  BY <1>1 DEF CountsTo

LEMMA ComponentsAre == Components = CountsTo(MaxFacts + 1)
BY DEF Components, Counts, CountsTo

LEMMA NothingMade == ASSUME NEW n \in Nat PROVE NoFacts \in CountsTo(n)
BY DEF NoFacts, CountsTo

\* The formula stays within its bounds.
Marks == 0 .. 10000

LEMMA ScoreBounded ==
  ASSUME NEW c \in Components
  PROVE  ComputeTrustScore(c) \in Marks
<1>1. /\ c.onTime \in Nat /\ c.late \in Nat /\ c.missed \in Nat
      /\ c.incurred \in Nat /\ c.paid \in Nat /\ c.completed \in Nat
  BY ScoreNumbers DEF Components, Counts
<1> DEFINE total == c.onTime + c.late + c.missed
           weighted == 6000 * c.onTime
           base == IF total = 0 THEN 0 ELSE (2 * weighted + total) \div (2 * total)
           adj == Greatest(0, c.incurred - c.paid) * 500
           bonus == Least(c.completed * 400, 2000)
<1>2. ComputeTrustScore(c) = Least(10000, Greatest(0, base - adj + bonus))
  BY DEF ComputeTrustScore, TRUST_SCORE_FORMULA
<1>3. total \in Nat /\ weighted \in Nat
  BY <1>1
<1>4. base \in Int
  <2> HIDE DEF total, weighted
  <2>1. total # 0 => 2 * total > 0 /\ 2 * total \in Int /\ 2 * weighted + total \in Int
    BY <1>3
  <2>2. \A a, b \in Int : b > 0 => a \div b \in Int
    OBVIOUS
  <2> QED
    BY <2>1, <2>2
<1>5. adj \in Int /\ bonus \in Int
  BY <1>1 DEF Greatest, Least
<1> HIDE DEF base, adj, bonus
<1> QED
  BY <1>2, <1>4, <1>5 DEF Greatest, Least, Marks

LEMMA ScoresInitially == ScoresInit => ScoresInv
<1> SUFFICES ASSUME ScoresInit PROVE ScoresInv
  OBVIOUS
<1>1. Made = 1 /\ factsLeft = MaxFacts
  BY ScoreNumbers DEF ScoresInit, Made
<1>2. NoFacts \in CountsTo(1) /\ SomeHistory \in CountsTo(1)
  <2>1. NoFacts \in CountsTo(0) /\ 0 .. 0 \subseteq 0 .. 1 /\ 1 \in 0 .. 1
    BY NothingMade
  <2>2. \A S, T : S \subseteq T /\ 1 \in T
          /\ NoFacts \in [onTime : S, late : S, missed : S, incurred : S, paid : S,
                          completed : S]
          => [NoFacts EXCEPT !.late = 1, !.incurred = 1]
               \in [onTime : T, late : T, missed : T, incurred : T, paid : T,
                   completed : T]
    OBVIOUS
  <2>3. SomeHistory \in CountsTo(1)
    BY <2>1, <2>2 DEF CountsTo, SomeHistory
  <2> QED
    BY <2>3, NothingMade
<1>3. facts \in [Scored -> CountsTo(1)]
  BY <1>2 DEF ScoresInit
<1>4. CountsTo(1) \subseteq Components
  BY ScoreNumbers, MoreAllowed, ComponentsAre
<1>5. facts \in [Scored -> Components]
  BY <1>3, <1>4
<1>6. /\ scoreRow \in [Scored -> {NoScore} \cup MemberTrustScore]
      /\ scorer \in [ScoreWorkers -> Scorers \cup {Resting}]
  BY DEF ScoresInit
<1>7. registered \in 0 .. MaxScored /\ factsLeft \in 0 .. MaxFacts
  BY ScoreNumbers DEF ScoresInit
<1>8. nightly \in BOOLEAN /\ scoreFaults \in 0 .. MaxScoreFaults
  <2>1. nightly = FALSE /\ scoreFaults = 0
    BY DEF ScoresInit
  <2>2. nightly \in BOOLEAN
    BY <2>1
  <2>3. scoreFaults \in 0 .. MaxScoreFaults
    BY <2>1, ScoreNumbers
  <2> QED
    BY <2>2, <2>3
<1> QED
  BY <1>1, <1>3, <1>5, <1>6, <1>7, <1>8 DEF ScoresInv, ScoresTypeOK

\* The tables change.
LEMMA FactsStep ==
  ASSUME ScoresInv, NEW u \in Scored,
         ContributionChanges(u) \/ PenaltyChanges(u) \/ GroupCompleted(u)
  PROVE  ScoresInv'
<1>1. Made \in Nat /\ factsLeft \in 0 .. MaxFacts
  BY ScoreNumbers DEF ScoresInv, ScoresTypeOK, Made
<1>2. facts[u] \in CountsTo(Made)
  BY DEF ScoresInv
<1>3. PICK new \in CountsTo(Made + 1) : Change(u, new)
  BY <1>1, <1>2, OneChange DEF ContributionChanges, PenaltyChanges, GroupCompleted
<1>4. /\ factsLeft > 0 /\ factsLeft' = factsLeft - 1
      /\ facts' = [facts EXCEPT ![u] = new]
      /\ UNCHANGED <<registered, scoreRow, nightly, scorer, scoreFaults>>
  BY <1>3 DEF Change
<1>5. factsLeft' \in 0 .. MaxFacts /\ Made' = Made + 1 /\ Made + 1 <= MaxFacts + 1
  BY <1>1, <1>4, ScoreNumbers DEF Made
<1>6. CountsTo(Made) \subseteq CountsTo(Made + 1) /\ CountsTo(Made + 1) \subseteq Components
  BY <1>1, <1>5, MoreAllowed, ComponentsAre, ScoreNumbers
<1>7. facts' \in [Scored -> CountsTo(Made + 1)]
  BY <1>3, <1>4, <1>6 DEF ScoresInv
<1>8. facts' \in [Scored -> Components]
  BY <1>6, <1>7
<1> QED
  BY <1>4, <1>5, <1>7, <1>8 DEF ScoresInv, ScoresTypeOK

\* Steps that leave the tables alone.
LEMMA ScorerMoves ==
  ASSUME ScoresInv, UNCHANGED <<facts, factsLeft>>,
         scorer' \in [ScoreWorkers -> Scorers \cup {Resting}],
         scoreRow' \in [Scored -> {NoScore} \cup MemberTrustScore],
         registered' \in 0 .. MaxScored, nightly' \in BOOLEAN,
         scoreFaults' \in 0 .. MaxScoreFaults
  PROVE  ScoresInv'
BY DEF ScoresInv, ScoresTypeOK, Made

LEMMA WorkTyped ==
  ASSUME ScoresInv, NEW w \in ScoreWorkers, NEW new \in Scorers \cup {Resting},
         Work(w, new)
  PROVE  scorer' \in [ScoreWorkers -> Scorers \cup {Resting}]
BY DEF ScoresInv, Work

\* The rows of a job that goes on.
LEMMA JobIs ==
  ASSUME ScoresInv, NEW w \in ScoreWorkers, scorer[w].at # "rest"
  PROVE  /\ scorer[w] \in Scorers
         /\ scorer[w].batch \subseteq Scored
         /\ scorer[w].read \in [Scored -> Components]
         /\ scorer[w].total \in 0 .. MaxScored
         /\ scorer[w].offset \in 0 .. MaxScored + ScoreBatch
<1>1. scorer[w] \in Scorers
  BY DEF ScoresInv, Resting
<1> QED
  BY <1>1 DEF Scorers

LEMMA ScorerGoes ==
  ASSUME NEW s \in Scorers,
         NEW where \in {"page", "contributions", "penalties", "groups", "upsert"},
         NEW S \in SUBSET Scored, NEW o \in 0 .. MaxScored + ScoreBatch,
         NEW f \in [Scored -> Components]
  PROVE  /\ [s EXCEPT !.at = where, !.batch = S, !.offset = o] \in Scorers
         /\ [s EXCEPT !.at = where, !.read = f] \in Scorers
         /\ [s EXCEPT !.batch = S, !.read = f, !.at = where] \in Scorers
BY DEF Scorers

\* Rows that mix what was read with what is.
LEMMA RowMixed ==
  ASSUME NEW c \in Components, NEW d \in Components
  PROVE  /\ [c EXCEPT !.onTime = d.onTime, !.late = d.late, !.missed = d.missed]
              \in Components
         /\ [c EXCEPT !.incurred = d.incurred, !.paid = d.paid] \in Components
         /\ [c EXCEPT !.completed = d.completed] \in Components
<1>1. /\ d.onTime \in Counts /\ d.late \in Counts /\ d.missed \in Counts
      /\ d.incurred \in Counts /\ d.paid \in Counts /\ d.completed \in Counts
  BY DEF Components
<1>2. \A x, y, z \in Counts : [c EXCEPT !.onTime = x, !.late = y, !.missed = z] \in Components
  BY DEF Components
<1>3. \A x, y \in Counts : [c EXCEPT !.incurred = x, !.paid = y] \in Components
  BY DEF Components
<1>4. \A x \in Counts : [c EXCEPT !.completed = x] \in Components
  BY DEF Components
<1> QED
  BY <1>1, <1>2, <1>3, <1>4

LEMMA JobSteps ==
  ASSUME ScoresInv, NEW w \in ScoreWorkers,
         \/ RecalculateAll(w) \/ FindPage(w) \/ ReadContributions(w)
         \/ ReadPenalties(w) \/ ReadGroups(w) \/ ScoreJobFails(w)
  PROVE  ScoresInv'
<1>1. UNCHANGED <<facts, factsLeft, registered, scoreRow>>
  BY DEF RecalculateAll, FindPage, ReadContributions, ReadPenalties, ReadGroups,
         ScoreJobFails
<1>2. /\ registered \in 0 .. MaxScored /\ facts \in [Scored -> Components]
      /\ scoreRow \in [Scored -> {NoScore} \cup MemberTrustScore]
  BY DEF ScoresInv, ScoresTypeOK
<1>3. nightly' \in BOOLEAN
  <2>1. nightly \in BOOLEAN
    BY DEF ScoresInv, ScoresTypeOK
  <2>2. nightly' = nightly \/ nightly' = FALSE \/ nightly' = TRUE
    BY DEF RecalculateAll, FindPage, ReadContributions, ReadPenalties, ReadGroups,
           ScoreJobFails
  <2> QED
    BY <2>1, <2>2
<1>4. scoreFaults' \in 0 .. MaxScoreFaults
  <2>1. \/ scoreFaults' = scoreFaults
        \/ scoreFaults < MaxScoreFaults /\ scoreFaults' = scoreFaults + 1
    BY DEF RecalculateAll, FindPage, ReadContributions, ReadPenalties,
           ReadGroups, ScoreJobFails
  <2> QED
    BY <2>1, ScoreNumbers DEF ScoresInv, ScoresTypeOK
<1>5. \E new \in Scorers \cup {Resting} : Work(w, new)
  <2>1. CASE RecalculateAll(w)
    <3>1. NoFacts \in Components
      BY NothingMade, ComponentsAre, ScoreNumbers
    <3>2. [at |-> "page", total |-> registered, offset |-> 0, batch |-> {},
           read |-> [u \in Scored |-> NoFacts]] \in Scorers
      BY <1>2, <3>1, ScoreNumbers DEF Scorers
    <3> QED
      BY <2>1, <3>2 DEF RecalculateAll
  <2>2. CASE ScoreJobFails(w)
    BY <2>2 DEF ScoreJobFails
  <2>3. CASE FindPage(w)
    <3> DEFINE s == scorer[w]
               page == {u \in Scored : s.offset < u /\ u <= s.offset + ScoreBatch
                                       /\ u <= registered}
    <3>1. /\ s \in Scorers /\ s.offset \in 0 .. MaxScored + ScoreBatch
          /\ s.total \in 0 .. MaxScored /\ s.read \in [Scored -> Components]
      BY <2>3, JobIs DEF FindPage
    <3>2. CASE ~PagesLeft(s) \/ page = {}
      BY <2>3, <3>2 DEF FindPage
    <3>3. CASE PagesLeft(s) /\ page # {}
      <4>1. Work(w, [s EXCEPT !.at = "contributions", !.batch = page,
                              !.offset = s.offset + ScoreBatch])
        BY <2>3, <3>3 DEF FindPage
      <4>2. s.offset + ScoreBatch \in 0 .. MaxScored + ScoreBatch
        BY <3>1, <3>3, ScoreNumbers DEF PagesLeft
      <4>3. page \in SUBSET Scored
        OBVIOUS
      <4>4. [s EXCEPT !.at = "contributions", !.batch = page,
                      !.offset = s.offset + ScoreBatch] \in Scorers
        <5> HIDE DEF s, page
        <5> QED
          BY <3>1, <4>2, <4>3, ScorerGoes
      <4> QED
        BY <4>1, <4>4
    <3> QED
      BY <3>2, <3>3
  <2>4. ASSUME ReadContributions(w) \/ ReadPenalties(w) \/ ReadGroups(w)
        PROVE  \E new \in Scorers \cup {Resting} : Work(w, new)
    <3> DEFINE s == scorer[w]
    <3>1. s \in Scorers /\ s.read \in [Scored -> Components]
      BY <2>4, JobIs DEF ReadContributions, ReadPenalties, ReadGroups
    <3>2. PICK where \in {"penalties", "groups", "upsert"}, f \in [Scored -> Components] :
            Work(w, [s EXCEPT !.at = where, !.read = f])
      <4>1. CASE ReadContributions(w)
        <5> DEFINE f == [u \in Scored |-> IF u \in scorer[w].batch
                         THEN [NoFacts EXCEPT !.onTime = facts[u].onTime,
                                              !.late = facts[u].late,
                                              !.missed = facts[u].missed]
                         ELSE NoFacts]
        <5>1. f \in [Scored -> Components]
          <6>1. NoFacts \in Components
            BY NothingMade, ComponentsAre, ScoreNumbers
          <6>2. \A u \in Scored : [NoFacts EXCEPT !.onTime = facts[u].onTime,
                                                 !.late = facts[u].late,
                                                 !.missed = facts[u].missed]
                                  \in Components
            BY <1>2, <6>1, RowMixed
          <6> QED
            BY <6>1, <6>2
        <5>2. Work(w, [s EXCEPT !.at = "penalties", !.read = f])
          BY <4>1 DEF ReadContributions
        <5> QED
          BY <5>1, <5>2
      <4>2. CASE ReadPenalties(w)
        <5> DEFINE f == [u \in Scored |-> IF u \in scorer[w].batch
                         THEN [s.read[u] EXCEPT !.incurred = facts[u].incurred,
                                                !.paid = facts[u].paid]
                         ELSE s.read[u]]
        <5>1. f \in [Scored -> Components]
          <6>1. \A u \in Scored : s.read[u] \in Components /\ facts[u] \in Components
            BY <1>2, <3>1
          <6>2. \A u \in Scored : [s.read[u] EXCEPT !.incurred = facts[u].incurred,
                                                   !.paid = facts[u].paid]
                                  \in Components
            BY <6>1, RowMixed
          <6> HIDE DEF s
          <6> QED
            BY <6>1, <6>2
        <5>2. Work(w, [s EXCEPT !.at = "groups", !.read = f])
          BY <4>2 DEF ReadPenalties
        <5> QED
          BY <5>1, <5>2
      <4>3. CASE ReadGroups(w)
        <5> DEFINE f == [u \in Scored |-> IF u \in scorer[w].batch
                         THEN [s.read[u] EXCEPT !.completed = facts[u].completed]
                         ELSE s.read[u]]
        <5>1. f \in [Scored -> Components]
          <6>1. \A u \in Scored : s.read[u] \in Components /\ facts[u] \in Components
            BY <1>2, <3>1
          <6>2. \A u \in Scored : [s.read[u] EXCEPT !.completed = facts[u].completed]
                                  \in Components
            BY <6>1, RowMixed
          <6> HIDE DEF s
          <6> QED
            BY <6>1, <6>2
        <5>2. Work(w, [s EXCEPT !.at = "upsert", !.read = f])
          BY <4>3 DEF ReadGroups
        <5> QED
          BY <5>1, <5>2
      <4> QED
        BY <2>4, <4>1, <4>2, <4>3
    <3>3. [s EXCEPT !.at = where, !.read = f] \in Scorers
      <4> HIDE DEF s
      <4>1. {} \in SUBSET Scored /\ 0 \in 0 .. MaxScored + ScoreBatch
        BY ScoreNumbers
      <4> QED
        BY <3>1, <4>1, ScorerGoes
    <3> QED
      BY <3>2, <3>3
  <2> QED
    BY <2>1, <2>2, <2>3, <2>4
<1>6. scorer' \in [ScoreWorkers -> Scorers \cup {Resting}]
  BY <1>5, WorkTyped
<1> QED
  BY <1>1, <1>2, <1>3, <1>4, <1>6, ScorerMoves

LEMMA UpsertStep ==
  ASSUME ScoresInv, NEW w \in ScoreWorkers, NEW u \in Scored, UpsertScore(w, u)
  PROVE  ScoresInv'
<1> DEFINE s == scorer[w]
           left == s.batch \ {u}
           rest == [s.read EXCEPT ![u] = NoFacts]
           row == [score |-> ComputeTrustScore(s.read[u]), lastSeen |-> s.read[u]]
<1>1. s \in Scorers /\ s.batch \subseteq Scored /\ s.read \in [Scored -> Components]
  BY JobIs DEF UpsertScore
<1>2. NoFacts \in Components
  BY NothingMade, ComponentsAre, ScoreNumbers
<1>3. rest \in [Scored -> Components] /\ left \in SUBSET Scored
  BY <1>1, <1>2
<1>4. s.read[u] \in Components
  BY <1>1
<1>5. row \in MemberTrustScore
  <2>1. ComputeTrustScore(s.read[u]) \in Marks
    BY <1>4, ScoreBounded
  <2>2. \A m \in Marks, c \in Components :
          [score |-> m, lastSeen |-> c] \in MemberTrustScore
    BY DEF MemberTrustScore, Marks
  <2> QED
    BY <1>4, <2>1, <2>2
<1>6. /\ scoreRow' = [scoreRow EXCEPT ![u] = row]
      /\ UNCHANGED <<registered, facts, nightly, factsLeft, scoreFaults>>
  BY DEF UpsertScore
<1>7. PICK where \in {"page", "upsert"} :
        Work(w, [s EXCEPT !.batch = left, !.read = rest, !.at = where])
  <2>1. Work(w, [s EXCEPT !.batch = left, !.read[u] = NoFacts,
                          !.at = IF left = {} THEN "page" ELSE "upsert"])
    BY DEF UpsertScore
  <2>2. [s EXCEPT !.batch = left, !.read[u] = NoFacts,
                  !.at = IF left = {} THEN "page" ELSE "upsert"]
          = [s EXCEPT !.batch = left, !.read = rest,
                      !.at = IF left = {} THEN "page" ELSE "upsert"]
    BY <1>1 DEF Scorers
  <2> QED
    BY <2>1, <2>2
<1>8. scoreRow' \in [Scored -> {NoScore} \cup MemberTrustScore]
  <2> HIDE DEF row
  <2> QED
    BY <1>5, <1>6 DEF ScoresInv
<1>9. scorer' \in [ScoreWorkers -> Scorers \cup {Resting}]
  <2> HIDE DEF s, left, rest
  <2>1. 0 \in 0 .. MaxScored + ScoreBatch
    BY ScoreNumbers
  <2>2. [s EXCEPT !.batch = left, !.read = rest, !.at = where] \in Scorers
    BY <1>1, <1>3, <2>1, ScorerGoes
  <2> QED
    BY <1>7, <2>2, WorkTyped
<1> QED
  BY <1>6, <1>8, <1>9, ScorerMoves DEF ScoresInv, ScoresTypeOK

LEMMA ScoresStepHolds == ScoresInv /\ [ScoresNext]_scoreVars => ScoresInv'
<1> SUFFICES ASSUME ScoresInv, [ScoresNext]_scoreVars PROVE ScoresInv'
  OBVIOUS
<1>1. CASE UserRegisters
  <2>1. registered' \in 0 .. MaxScored
    BY <1>1, ScoreNumbers DEF UserRegisters, ScoresInv, ScoresTypeOK
  <2> QED
    BY <1>1, <2>1, ScorerMoves DEF UserRegisters, ScoresInv, ScoresTypeOK
<1>2. CASE HandleRecalculateTrustScores
  <2>1. nightly' \in BOOLEAN
    BY <1>2 DEF HandleRecalculateTrustScores
  <2> QED
    BY <1>2, <2>1, ScorerMoves DEF HandleRecalculateTrustScores, ScoresInv, ScoresTypeOK
<1>3. CASE UNCHANGED scoreVars
  BY <1>3, ScorerMoves DEF scoreVars, ScoresInv, ScoresTypeOK
<1> QED
  BY <1>1, <1>2, <1>3, FactsStep, JobSteps, UpsertStep DEF ScoresNext, RecalculateBatch

-----------------------------------------------------------------------------
(* The balance monitor. *)

\* A closed breaker has counted no load more than twice, and an open one has
\* seen enough of them fail.
BalanceInv ==
  /\ BalanceTypeOK
  /\ reader \in [Readers -> Reading \cup {NotReading}]
  /\ TripsOnRealFailures
  /\ ~breaker.open => breaker.failures <= 2 * streak

LEMMA BreakerNumbers ==
  /\ BreakerThreshold \in Nat /\ BaseTimeout \in Nat /\ ProbeInterval \in Nat
  /\ MaxSamples \in Nat /\ BreakerThreshold > 0 /\ MaxSamples > 0
  /\ BaseTimeout > 0 /\ ProbeInterval > 0
BY BalanceAssumption

LEMMA ClosedIs ==
  Closed \in CircuitState /\ ~Closed.open /\ Closed.failures = 0
BY BreakerNumbers DEF Closed, CircuitState

\* One failure more in the breaker.
LEMMA FailureCounts ==
  ASSUME NEW b \in CircuitState
  PROVE  /\ OnFailure(b) \in CircuitState
         /\ b.open => OnFailure(b).open
         /\ OnFailure(b).failures <= b.failures + 1
         /\ ~b.open /\ OnFailure(b).open => b.failures + 1 >= BreakerThreshold
<1> PICK failures \in 0 .. BreakerThreshold, open \in BOOLEAN,
         sinceFailure \in 0 .. BaseTimeout, sinceProbe \in 0 .. ProbeInterval :
      b = [failures |-> failures, open |-> open, sinceFailure |-> sinceFailure,
           sinceProbe |-> sinceProbe]
  BY DEF CircuitState
<1> QED
  BY BreakerNumbers DEF OnFailure, CircuitState

LEMMA ProbeTyped ==
  ASSUME NEW b \in CircuitState
  PROVE  ProbeStarted(b) \in CircuitState /\ ProbeStarted(b).open = b.open
<1>1. [b EXCEPT !.sinceProbe = 0] \in CircuitState /\ [b EXCEPT !.sinceProbe = 0].open = b.open
  BY BreakerNumbers DEF CircuitState
<1> QED
  BY <1>1 DEF ProbeStarted

\* A sample more in the window.
LEMMA RecordTyped ==
  ASSUME NEW w \in LatencyWindow, NEW what \in {"slow", "fast", "failed"}
  PROVE  Record(w, what) \in LatencyWindow
<1> DEFINE empty == [slow |-> 0, fast |-> 0, failed |-> 0]
<1>1. empty \in LatencyWindow /\ Total(empty) = 0
  BY BreakerNumbers DEF LatencyWindow, Total
<1>2. ASSUME NEW k \in LatencyWindow, Total(k) < MaxSamples
      PROVE  [k EXCEPT ![what] = @ + 1] \in LatencyWindow
  <2>1. /\ k.slow + 1 \in 0 .. MaxSamples /\ k.fast + 1 \in 0 .. MaxSamples
        /\ k.failed + 1 \in 0 .. MaxSamples
    BY <1>2, BreakerNumbers DEF LatencyWindow, Total
  <2>2. CASE what = "slow"
    BY <2>1, <2>2 DEF LatencyWindow
  <2>3. CASE what = "fast"
    BY <2>1, <2>3 DEF LatencyWindow
  <2>4. CASE what = "failed"
    BY <2>1, <2>4 DEF LatencyWindow
  <2> QED
    BY <2>2, <2>3, <2>4
<1>3. \E k \in LatencyWindow :
        Total(k) < MaxSamples /\ Record(w, what) = [k EXCEPT ![what] = @ + 1]
  BY <1>1, BreakerNumbers DEF Record
<1> QED
  BY <1>2, <1>3

LEMMA BalanceInitially == BalanceInit => BalanceInv
BY ClosedIs, BreakerNumbers
DEF BalanceInit, BalanceInv, BalanceTypeOK, LatencyWindow, TripsOnRealFailures

\* The rows of a check that goes on.
LEMMA ReaderGoes ==
  ASSUME NEW c \in Reading, NEW S \in SUBSET AllAccounts, NEW a \in AllAccounts,
         NEW T \in SUBSET AllAccounts, NEW where \in {"pick", "load"}
  PROVE  /\ [c EXCEPT !.left = S, !.account = a] \in Reading
         /\ [c EXCEPT !.at = where] \in Reading
         /\ [c EXCEPT !.at = where, !.read = S, !.lowOnes = T] \in Reading
BY DEF Reading

LEMMA ReaderIs ==
  ASSUME BalanceInv, NEW r \in Readers, reader[r].at # "none"
  PROVE  /\ reader[r] \in Reading /\ reader[r].account \in AllAccounts
         /\ reader[r].left \subseteq AllAccounts
         /\ reader[r].read \subseteq AllAccounts
         /\ reader[r].lowOnes \subseteq AllAccounts
<1>1. reader[r] \in Reading
  BY DEF BalanceInv, BalanceTypeOK, NotReading
<1> QED
  BY <1>1 DEF Reading

\* Steps that leave breaker, window and streak alone.
LEMMA ReaderSteps ==
  ASSUME BalanceInv,
         \/ ProcessBalanceResults
         \/ \E r \in Readers : StartCheck(r) \/ AnswerBalances(r)
  PROVE  BalanceInv'
<1>1. /\ reader' \in [Readers -> Reading \cup {NotReading}]
      /\ UNCHANGED <<breaker, samples, streak, network, low>>
  <2>1. [at |-> "pick", left |-> AccountsToCheck, account |-> Issuer,
         lowOnes |-> {}, read |-> {}] \in Reading
    BY DEF Reading, AccountsToCheck, ActiveGroupsFound, AllAccounts
  <2>2. ASSUME NEW r \in Readers, StartCheck(r)
        PROVE  reader' \in [Readers -> Reading \cup {NotReading}]
    BY <2>1, <2>2 DEF StartCheck, BalanceInv
  <2>3. ASSUME NEW r \in Readers, reader' = [reader EXCEPT ![r] = NotReading]
        PROVE  reader' \in [Readers -> Reading \cup {NotReading}]
    BY <2>3 DEF BalanceInv
  <2> QED
    BY <2>2, <2>3, BalanceAssumption
    DEF StartCheck, AnswerBalances, ProcessBalanceResults
<1>2. /\ previous' \subseteq AllAccounts /\ unsent' \subseteq AllAccounts
      /\ told' \in [AllAccounts -> {"nothing", "low", "recovered"}]
  <2>1. CASE ProcessBalanceResults
    <3> DEFINE current == IF Congested(samples) THEN {} ELSE reader[Cron].lowOnes
               gone == (previous \ current) \cap reader[Cron].read
    <3>1. current \subseteq AllAccounts /\ gone \subseteq AllAccounts
      BY <2>1, ReaderIs, BalanceAssumption DEF ProcessBalanceResults, BalanceInv, BalanceTypeOK
    <3>2. Emit(current \ previous, gone) /\ previous' = current
      BY <2>1 DEF ProcessBalanceResults
    <3> HIDE DEF current, gone
    <3> QED
      BY <3>1, <3>2 DEF Emit, BalanceInv, BalanceTypeOK
  <2>2. CASE UNCHANGED <<previous, told, unsent>>
    BY <2>2 DEF BalanceInv, BalanceTypeOK
  <2> QED
    BY <2>1, <2>2 DEF StartCheck, AnswerBalances
<1>3. \A r \in Readers : reader'[r] \in Reading \cup {NotReading}
  BY <1>1
<1> QED
  BY <1>1, <1>2, <1>3 DEF BalanceInv, BalanceTypeOK, TripsOnRealFailures

\* The call that the breaker rejects, as a failure, while it is open.
LEMMA AskStep ==
  ASSUME BalanceInv, NEW r \in Readers, AskAccount(r)
  PROVE  BalanceInv'
<1>1. /\ reader[r] \in Reading /\ reader[r].left \subseteq AllAccounts
  BY ReaderIs DEF AskAccount
<1>2. PICK a \in reader[r].left :
        LET check  == [reader[r] EXCEPT !.left = @ \ {a}, !.account = a]
            outer  == ProbeStarted(breaker)
            passes == LetsThrough(breaker) /\ LetsThrough(outer)
        IN  /\ reader' = [reader EXCEPT ![r] =
                 IF passes THEN [check EXCEPT !.at = "load"] ELSE check]
            /\ IF LetsThrough(breaker) /\ ~passes
               THEN /\ breaker' = OnFailure(outer)
                    /\ samples' = Record(samples, "failed")
               ELSE UNCHANGED <<breaker, samples>>
  BY DEF AskAccount
<1> DEFINE check == [reader[r] EXCEPT !.left = reader[r].left \ {a}, !.account = a]
<1>3. check \in Reading /\ [check EXCEPT !.at = "load"] \in Reading
  BY <1>1, ReaderGoes
<1>4. PICK new \in Reading : reader' = [reader EXCEPT ![r] = new]
  <2>1. \/ reader' = [reader EXCEPT ![r] = [check EXCEPT !.at = "load"]]
        \/ reader' = [reader EXCEPT ![r] = check]
    BY <1>2
  <2> HIDE DEF check
  <2> QED
    BY <2>1, <1>3
<1>5. reader' \in [Readers -> Reading \cup {NotReading}]
  BY <1>4 DEF BalanceInv
<1>6. breaker \in CircuitState /\ samples \in LatencyWindow /\ streak \in Nat
  BY DEF BalanceInv, BalanceTypeOK
<1>7. \/ UNCHANGED <<breaker, samples>>
      \/ /\ breaker.open
         /\ breaker' = OnFailure(ProbeStarted(breaker))
         /\ samples' = Record(samples, "failed")
  BY <1>2 DEF LetsThrough, ProbeStarted
<1>8. /\ breaker' \in CircuitState /\ samples' \in LatencyWindow
      /\ \/ breaker' = breaker
         \/ breaker.open /\ breaker'.open
  BY <1>6, <1>7, FailureCounts, ProbeTyped, RecordTyped
<1>9. \A s \in Readers : reader'[s] \in Reading \cup {NotReading}
  BY <1>5
<1>10. UNCHANGED <<streak, network, low, previous, told, unsent>>
  BY DEF AskAccount
<1> QED
  BY <1>5, <1>8, <1>9, <1>10 DEF BalanceInv, BalanceTypeOK, TripsOnRealFailures

\* A load that succeeds closes the breaker, and one that fails counts twice.
LEMMA LoadSteps ==
  ASSUME BalanceInv, NEW r \in Readers, LoadAnswered(r)
  PROVE  BalanceInv'
<1>1. reader[r].at = "load"
  BY DEF LoadAnswered, LoadSucceeds, LoadFails
<1>2. /\ reader[r] \in Reading /\ reader[r].account \in AllAccounts
      /\ reader[r].read \subseteq AllAccounts /\ reader[r].lowOnes \subseteq AllAccounts
  BY <1>1, ReaderIs
<1>3. /\ breaker \in CircuitState /\ samples \in LatencyWindow
      /\ streak \in 0 .. BreakerThreshold /\ network \in {"fast", "slow", "down"}
  BY DEF BalanceInv, BalanceTypeOK
<1>4. UNCHANGED <<network, low, previous, told, unsent>>
  BY DEF LoadAnswered, LoadSucceeds, LoadFails
<1>5. reader' \in [Readers -> Reading \cup {NotReading}]
  <2>1. PICK new \in Reading : reader' = [reader EXCEPT ![r] = new]
    <3>1. CASE LoadFails(r)
      <4>1. [reader[r] EXCEPT !.at = "pick"] \in Reading
        BY <1>2, ReaderGoes
      <4> QED
        BY <3>1, <4>1 DEF LoadFails
    <3>2. CASE LoadSucceeds(r)
      <4> DEFINE a == reader[r].account
                 S == reader[r].read \cup {a}
                 T == IF low[a] THEN reader[r].lowOnes \cup {a} ELSE reader[r].lowOnes
      <4>1. S \in SUBSET AllAccounts /\ T \in SUBSET AllAccounts
        BY <1>2
      <4>2. reader' = [reader EXCEPT ![r] =
                         [reader[r] EXCEPT !.at = "pick", !.read = S, !.lowOnes = T]]
        BY <3>2 DEF LoadSucceeds
      <4> HIDE DEF S, T
      <4>3. [reader[r] EXCEPT !.at = "pick", !.read = S, !.lowOnes = T] \in Reading
        BY <1>2, <4>1, ReaderGoes
      <4> QED
        BY <4>2, <4>3
    <3> QED
      BY <3>1, <3>2 DEF LoadAnswered
  <2> QED
    BY <2>1 DEF BalanceInv
<1>6. \A s \in Readers : reader'[s] \in Reading \cup {NotReading}
  BY <1>5
<1>7. samples' \in LatencyWindow
  <2>1. PICK what \in {"slow", "fast", "failed"} :
          samples' = Record(Record(samples, what), what)
    BY <1>3 DEF LoadAnswered, LoadSucceeds, LoadFails
  <2> QED
    BY <1>3, <2>1, RecordTyped
<1>8. /\ breaker' \in CircuitState /\ streak' \in 0 .. BreakerThreshold
      /\ breaker'.open => 2 * streak' >= BreakerThreshold
      /\ ~breaker'.open => breaker'.failures <= 2 * streak'
  <2>1. CASE LoadSucceeds(r)
    BY <2>1, ClosedIs, BreakerNumbers DEF LoadSucceeds, OnSuccess
  <2>2. CASE LoadFails(r)
    <3> DEFINE once == OnFailure(breaker)
    <3>1. /\ once \in CircuitState
          /\ breaker.open => once.open
          /\ once.failures <= breaker.failures + 1
          /\ ~breaker.open /\ once.open => breaker.failures + 1 >= BreakerThreshold
      BY <1>3, FailureCounts
    <3>2. breaker' = OnFailure(once)
      BY <2>2 DEF LoadFails
    <3> HIDE DEF once
    <3>3. /\ breaker' \in CircuitState
          /\ once.open => breaker'.open
          /\ breaker'.failures <= once.failures + 1
          /\ ~once.open /\ breaker'.open => once.failures + 1 >= BreakerThreshold
      BY <3>1, <3>2, FailureCounts
    <3>4. /\ breaker.failures \in Nat /\ once.failures \in Nat
          /\ breaker'.failures \in 0 .. BreakerThreshold
      BY <1>3, <3>1, <3>3 DEF CircuitState
    <3>5. streak' = IF streak < BreakerThreshold THEN streak + 1 ELSE streak
      BY <2>2 DEF LoadFails
    <3>6. /\ breaker.open => 2 * streak >= BreakerThreshold
          /\ ~breaker.open => breaker.failures <= 2 * streak
      BY DEF BalanceInv, TripsOnRealFailures
    <3> QED
      BY <1>3, <3>1, <3>3, <3>4, <3>5, <3>6, BreakerNumbers
  <2> QED
    BY <2>1, <2>2 DEF LoadAnswered
<1> QED
  BY <1>4, <1>5, <1>6, <1>7, <1>8 DEF BalanceInv, BalanceTypeOK, TripsOnRealFailures

\* Time and the network.
LEMMA WorldSteps ==
  ASSUME BalanceInv,
         Tick \/ WindowEnds \/ NetworkChanges \/ BalanceChanges \/ UNCHANGED balanceVars
  PROVE  BalanceInv'
<1>1. UNCHANGED <<streak, reader, previous, told, unsent>>
  BY DEF Tick, WindowEnds, NetworkChanges, BalanceChanges, balanceVars
<1>2. network' \in {"fast", "slow", "down"}
  BY DEF Tick, WindowEnds, NetworkChanges, BalanceChanges, balanceVars, BalanceInv,
         BalanceTypeOK
<1>3. low' \in [AllAccounts -> BOOLEAN]
  BY DEF Tick, WindowEnds, NetworkChanges, BalanceChanges, balanceVars, BalanceInv,
         BalanceTypeOK
<1>4. samples' \in LatencyWindow
  BY BreakerNumbers
  DEF Tick, WindowEnds, NetworkChanges, BalanceChanges, balanceVars, BalanceInv,
      BalanceTypeOK, LatencyWindow
<1>5. /\ breaker' \in CircuitState /\ breaker'.open = breaker.open
      /\ breaker'.failures = breaker.failures
  <2>1. breaker \in CircuitState
    BY DEF BalanceInv, BalanceTypeOK
  <2>2. CASE Tick
    <3>1. PICK failures \in 0 .. BreakerThreshold, open \in BOOLEAN,
               sinceFailure \in 0 .. BaseTimeout, sinceProbe \in 0 .. ProbeInterval :
            breaker = [failures |-> failures, open |-> open,
                       sinceFailure |-> sinceFailure, sinceProbe |-> sinceProbe]
      BY <2>1 DEF CircuitState
    <3> DEFINE sf == IF sinceFailure < BaseTimeout THEN sinceFailure + 1 ELSE sinceFailure
               sp == IF sinceProbe < ProbeInterval THEN sinceProbe + 1 ELSE sinceProbe
    <3>2. breaker' = [failures |-> failures, open |-> open, sinceFailure |-> sf,
                      sinceProbe |-> sp]
      BY <2>2, <3>1 DEF Tick
    <3>3. sf \in 0 .. BaseTimeout /\ sp \in 0 .. ProbeInterval
      BY BreakerNumbers
    <3> HIDE DEF sf, sp
    <3> QED
      BY <3>1, <3>2, <3>3 DEF CircuitState
  <2>3. CASE breaker' = breaker
    BY <2>1, <2>3
  <2> QED
    BY <2>2, <2>3 DEF WindowEnds, NetworkChanges, BalanceChanges, balanceVars
<1> QED
  BY <1>1, <1>2, <1>3, <1>4, <1>5 DEF BalanceInv, BalanceTypeOK, TripsOnRealFailures

LEMMA BalanceStepHolds == BalanceInv /\ [BalanceNext]_balanceVars => BalanceInv'
BY ReaderSteps, AskStep, LoadSteps, WorldSteps, BalanceAssumption
DEF BalanceNext, HandleBalanceCheck, MonitoredBalances

-----------------------------------------------------------------------------
(* The review of documents. *)

UploadStates == Uploading \cup {NotUploading}
CallStates == Calling \cup {NotCalling}

\* KycTypeOK, with the rows as sequences and what runs as functions.
KycInv ==
  /\ docs \in Seq(KycDocument) /\ Len(docs) <= MaxDocs
  /\ userStatus \in KycStatus \cup {"none"}
  /\ cases \in Seq(CaseStates) /\ Len(cases) <= MaxCases
  /\ uploading \in [Uploads -> UploadStates]
  /\ calling \in [Callbacks -> CallStates]
  /\ DOMAIN detecting \subseteq DocNos
  /\ \A d \in DOMAIN detecting : detecting[d] \in KycDocument
  /\ reusedClosed \in BOOLEAN
  /\ kycFaults \in 0 .. MaxKycFaults

LEMMA KycNumbers ==
  /\ NumProviders \in Nat /\ MaxDocs \in Nat /\ MaxCases \in Nat
  /\ MaxKycFaults \in Nat /\ NumProviders > 0 /\ MaxDocs > 0 /\ MaxCases > 0
BY KycAssumption

\* Every set of row numbers has its latest.
LEMMA HasLatest ==
  ASSUME NEW m \in Nat, NEW S \in SUBSET (0 .. m), S # {}
  PROVE  Latest(S) \in S
<1> DEFINE R == OpToRel(<, Nat)
           T == {m - d : d \in S}
<1>1. IsWellFoundedOn(R, Nat)
  BY NatLessThanWellFounded
<1>2. \A d \in S : d \in Int /\ m - d \in Nat
  OBVIOUS
<1>3. T \subseteq Nat
  BY <1>2
<1>4. T # {}
  OBVIOUS
<1>5. \A x, y \in Nat : x < y => <<x, y>> \in R
  BY DEF OpToRel
<1> HIDE DEF R, T
<1>6. PICK x \in T : \A y \in T : ~ (<<y, x>> \in R)
  BY <1>1, <1>3, <1>4, WFMin
<1>7. x \in Nat /\ \A y \in T : y \in Nat /\ ~ (y < x)
  BY <1>3, <1>5, <1>6
<1>8. PICK d \in S : x = m - d
  BY <1>6 DEF T
<1>9. \A e \in S : e <= d
  <2> SUFFICES ASSUME NEW e \in S PROVE e <= d
    OBVIOUS
  <2>1. m - e \in T
    BY DEF T
  <2>2. ~ (m - e < m - d)
    BY <1>7, <1>8, <2>1
  <2> QED
    BY <1>2, <2>2
<1> QED
  BY <1>9 DEF Latest

LEMMA KycInitially == KycInit => KycInv
<1> SUFFICES ASSUME KycInit PROVE KycInv
  OBVIOUS
<1>1. docs = <<>> /\ cases = <<>> /\ userStatus = "none"
  BY DEF KycInit
<1>2. /\ docs \in Seq(KycDocument) /\ Len(docs) <= MaxDocs
      /\ cases \in Seq(CaseStates) /\ Len(cases) <= MaxCases
  BY <1>1, KycNumbers
<1>3. /\ uploading \in [Uploads -> UploadStates]
      /\ calling \in [Callbacks -> CallStates]
  BY DEF KycInit, UploadStates, CallStates
<1>4. DOMAIN detecting = {}
  BY DEF KycInit
<1>5. reusedClosed \in BOOLEAN
  BY DEF KycInit
<1>6. kycFaults \in 0 .. MaxKycFaults
  BY KycNumbers DEF KycInit
<1> QED
  BY <1>1, <1>2, <1>3, <1>4, <1>5, <1>6 DEF KycInv

LEMMA KycConclusion == KycInv => KycTypeOK
<1> SUFFICES ASSUME KycInv PROVE KycTypeOK
  OBVIOUS
<1>1. /\ docs \in [1 .. Len(docs) -> KycDocument] /\ Len(docs) \in 0 .. MaxDocs
      /\ cases \in [1 .. Len(cases) -> CaseStates] /\ Len(cases) \in 0 .. MaxCases
  BY KycNumbers DEF KycInv
<1>2. /\ docs \in UNION {[1 .. n -> KycDocument] : n \in 0 .. MaxDocs}
      /\ cases \in UNION {[1 .. n -> CaseStates] : n \in 0 .. MaxCases}
  BY <1>1
<1> QED
  BY <1>2 DEF KycInv, KycTypeOK, UploadStates, CallStates

\* What a request at a step carries, and what it goes on to.
LEMMA UploadByPlace ==
  ASSUME NEW a \in UploadStates
  PROVE  /\ a.at \in {"find", "review", "submit", "persist", "reuse"} =>
              a.doc \in DocNos
         /\ a.at = "reuse" => a.found \in KycDocument
         /\ a.at = "submit" => a.try \in 1 .. NumProviders
         /\ a.at = "persist" => a.case \in CaseNos
         /\ a.at = "user" => a.status \in KycStatus
BY DEF UploadStates, Uploading, NotUploading

LEMMA UploadBuilt ==
  /\ NotUploading \in UploadStates
  /\ \A d \in DocNos :
       /\ [at |-> "find", doc |-> d] \in UploadStates
       /\ [at |-> "review", doc |-> d] \in UploadStates
       /\ \A f \in KycDocument :
            [at |-> "reuse", doc |-> d, found |-> f] \in UploadStates
       /\ \A t \in 1 .. NumProviders :
            [at |-> "submit", doc |-> d, try |-> t] \in UploadStates
       /\ \A k \in CaseNos :
            [at |-> "persist", doc |-> d, case |-> k] \in UploadStates
  /\ \A s \in KycStatus : [at |-> "user", status |-> s] \in UploadStates
BY DEF UploadStates, Uploading

LEMMA NextTry ==
  ASSUME NEW a \in UploadStates, a.at = "submit", a.try < NumProviders
  PROVE  [a EXCEPT !.try = @ + 1] \in UploadStates
<1>1. PICK d \in DocNos, t \in 1 .. NumProviders :
        a = [at |-> "submit", doc |-> d, try |-> t]
  BY DEF UploadStates, Uploading, NotUploading
<1>2. t + 1 \in 1 .. NumProviders
  BY <1>1, KycNumbers
<1>3. [a EXCEPT !.try = @ + 1] = [at |-> "submit", doc |-> d, try |-> t + 1]
  BY <1>1
<1> QED
  BY <1>2, <1>3, UploadBuilt

LEMMA CallByPlace ==
  ASSUME NEW a \in CallStates
  PROVE  /\ a.at = "doc" => /\ a.doc \in DocNos /\ a.found \in KycDocument
                            /\ a.case \in CaseNos /\ a.status \in KycStatus
         /\ a.at = "user" => a.case \in CaseNos /\ a.status \in KycStatus
BY DEF CallStates, Calling, NotCalling

LEMMA CallBuilt ==
  /\ NotCalling \in CallStates
  /\ \A k \in CaseNos, s \in KycStatus :
       /\ [at |-> "user", case |-> k, status |-> s] \in CallStates
       /\ \A d \in DocNos, f \in KycDocument :
            [at |-> "doc", doc |-> d, found |-> f, case |-> k, status |-> s]
              \in CallStates
BY DEF CallStates, Calling

\* What the steps write to a document.
NewDocument == [status |-> "PENDING", case |-> NoCase, heard |-> FALSE,
                silent |-> FALSE, expired |-> FALSE, flagged |-> FALSE]

LEMMA DocumentIs ==
  ASSUME NEW f \in KycDocument
  PROVE  /\ f.status \in KycStatus /\ f.case \in CaseNos \cup {NoCase}
         /\ f.heard \in BOOLEAN /\ f.silent \in BOOLEAN
         /\ f.expired \in BOOLEAN /\ f.flagged \in BOOLEAN
BY DEF KycDocument

LEMMA DocumentBuilt ==
  \A s \in KycStatus, k \in CaseNos \cup {NoCase}, h, q, e, g \in BOOLEAN :
    [status |-> s, case |-> k, heard |-> h, silent |-> q, expired |-> e,
     flagged |-> g] \in KycDocument
BY DEF KycDocument

LEMMA NewDocumentTyped == NewDocument \in KycDocument
BY DEF NewDocument, KycDocument, KycStatus

\* A document of a row written, or a case.
LEMMA DocWritten ==
  ASSUME KycInv, NEW d, NEW f, f \in KycDocument \/ d \notin DOMAIN docs,
         docs' = [docs EXCEPT ![d] = f]
  PROVE  docs' \in Seq(KycDocument) /\ Len(docs') = Len(docs)
<1>1. docs \in [1 .. Len(docs) -> KycDocument] /\ Len(docs) \in Nat
  BY DEF KycInv
<1>2. docs' \in [1 .. Len(docs) -> KycDocument]
  BY <1>1
<1> QED
  BY <1>1, <1>2

LEMMA DocumentSet ==
  ASSUME NEW f \in KycDocument, NEW s \in KycStatus,
         NEW k \in CaseNos \cup {NoCase}, NEW g \in BOOLEAN
  PROVE  /\ [f EXCEPT !.status = s, !.flagged = g] \in KycDocument
         /\ [f EXCEPT !.status = s, !.case = k, !.heard = TRUE, !.silent = FALSE,
                      !.expired = FALSE] \in KycDocument
         /\ [f EXCEPT !.status = s, !.heard = TRUE, !.silent = FALSE] \in KycDocument
         /\ [f EXCEPT !.status = s, !.case = k, !.heard = TRUE, !.silent = FALSE,
                      !.flagged = FALSE] \in KycDocument
         /\ [f EXCEPT !.silent = TRUE] \in KycDocument
         /\ [f EXCEPT !.expired = TRUE] \in KycDocument
         /\ [f EXCEPT !.flagged = TRUE] \in KycDocument
<1> DEFINE B == BOOLEAN
<1>1. TRUE \in B /\ FALSE \in B /\ g \in B
  OBVIOUS
<1>2. \A K, St :
        /\ f \in [status : St, case : K, heard : B, silent : B, expired : B, flagged : B]
        /\ s \in St /\ k \in K
        => LET D == [status : St, case : K, heard : B, silent : B, expired : B,
                     flagged : B]
           IN  /\ [f EXCEPT !.status = s, !.flagged = g] \in D
               /\ [f EXCEPT !.status = s, !.case = k, !.heard = TRUE,
                            !.silent = FALSE, !.expired = FALSE] \in D
               /\ [f EXCEPT !.status = s, !.heard = TRUE, !.silent = FALSE] \in D
               /\ [f EXCEPT !.status = s, !.case = k, !.heard = TRUE,
                            !.silent = FALSE, !.flagged = FALSE] \in D
               /\ [f EXCEPT !.silent = TRUE] \in D
               /\ [f EXCEPT !.expired = TRUE] \in D
               /\ [f EXCEPT !.flagged = TRUE] \in D
  <2> HIDE DEF B
  <2> QED
    BY <1>1
<1> QED
  BY <1>2 DEF KycDocument

\* The steps of an upload.
LEMMA UploadSteps ==
  ASSUME KycInv, NEW u \in Uploads, KycUpload(u)
  PROVE  KycInv'
<1>1. /\ uploading[u] \in UploadStates /\ Len(docs) \in Nat /\ Len(cases) \in Nat
      /\ docs \in [1 .. Len(docs) -> KycDocument]
      /\ DOMAIN docs = 1 .. Len(docs)
  BY DEF KycInv
<1>2. UNCHANGED <<calling, detecting>>
  BY DEF KycUpload, UploadDocument, SubmitOrReuse, FindReusableCase, ReuseCase,
         TrySubmit, TrySubmitFails, PersistSubmission, AllProvidersFailed,
         UpdateUser, UploadDies
<1>3. ASSUME NEW state \in UploadStates, UploadAt(u, state)
      PROVE  uploading' \in [Uploads -> UploadStates]
  BY <1>3 DEF KycInv, UploadAt
<1>4. KycFault => kycFaults' \in 0 .. MaxKycFaults
  BY KycNumbers DEF KycFault, KycInv
<1>5. CASE UploadDocument(u)
  <2>1. docs' = Append(docs, NewDocument) /\ Len(docs) < MaxDocs
    BY <1>5 DEF UploadDocument, NewDocument
  <2>2. docs' \in Seq(KycDocument) /\ Len(docs') <= MaxDocs
    <3>1. docs \in Seq(KycDocument)
      BY DEF KycInv
    <3>2. docs' \in Seq(KycDocument) /\ Len(docs') = Len(docs) + 1
      BY <2>1, <3>1, NewDocumentTyped, AppendProperties
    <3> QED
      BY <1>1, <2>1, <3>2, KycNumbers
  <2>3. Len(docs) + 1 \in DocNos
    BY <1>1, <2>1, KycNumbers DEF DocNos
  <2>4. uploading' \in [Uploads -> UploadStates]
    BY <1>3, <1>5, <2>3, UploadBuilt DEF UploadDocument
  <2> QED
    BY <1>2, <1>5, <2>2, <2>4 DEF UploadDocument, KycInv
<1>6. CASE FindReusableCase(u)
  <2>1. uploading[u].doc \in DocNos
    BY <1>1, <1>6, UploadByPlace DEF FindReusableCase
  <2> DEFINE found == Reusable(uploading[u].doc)
  <2>2. CASE found = {}
    <3>1. 1 \in 1 .. NumProviders
      BY KycNumbers
    <3>2. uploading' \in [Uploads -> UploadStates]
      BY <1>3, <1>6, <2>1, <2>2, <3>1, UploadBuilt DEF FindReusableCase
    <3> QED
      BY <1>2, <1>6, <2>2, <3>2 DEF FindReusableCase, KycInv
  <2>3. CASE found # {}
    <3>1. found \subseteq 1 .. Len(docs)
      BY <1>1 DEF Reusable
    <3>2. found \in SUBSET (0 .. Len(docs))
      BY <1>1, <3>1
    <3>3. Latest(found) \in 1 .. Len(docs)
      <4> HIDE DEF found
      <4> QED
        BY <1>1, <2>3, <3>1, <3>2, HasLatest
    <3>4. docs[Latest(found)] \in KycDocument
      BY <1>1, <3>3
    <3>5. uploading' \in [Uploads -> UploadStates]
      BY <1>3, <1>6, <2>1, <2>3, <3>4, UploadBuilt DEF FindReusableCase
    <3>6. reusedClosed' \in BOOLEAN
      BY <1>6, <2>3 DEF FindReusableCase
    <3> QED
      BY <1>2, <1>6, <3>5, <3>6 DEF FindReusableCase, KycInv
  <2> QED
    BY <2>2, <2>3
<1>7. CASE ReuseCase(u)
  <2>1. uploading[u].doc \in DocNos /\ uploading[u].found \in KycDocument
    BY <1>1, <1>7, UploadByPlace DEF ReuseCase
  <2> DEFINE d == uploading[u].doc
             new == [uploading[u].found EXCEPT !.status = "PENDING",
                                               !.flagged = docs[d].flagged]
  <2>2. docs' = [docs EXCEPT ![d] = new]
    BY <1>7 DEF ReuseCase
  <2>3. d \in DOMAIN docs => new \in KycDocument
    BY <1>1, <2>1, DocumentIs, DocumentSet DEF KycStatus
  <2>4. docs' \in Seq(KycDocument) /\ Len(docs') = Len(docs)
    <3> HIDE DEF d, new
    <3> QED
      BY <2>2, <2>3, DocWritten
  <2>5. uploading' \in [Uploads -> UploadStates]
    BY <1>3, <1>7, UploadBuilt DEF ReuseCase, KycStatus
  <2> QED
    BY <1>2, <1>7, <2>4, <2>5 DEF ReuseCase, KycInv
<1>8. CASE TrySubmit(u) \/ TrySubmitFails(u)
  <2>1. /\ uploading[u].doc \in DocNos /\ uploading[u].try \in 1 .. NumProviders
        /\ uploading[u].at = "submit"
    BY <1>1, <1>8, UploadByPlace DEF TrySubmit, TrySubmitFails
  <2>2. cases' \in Seq(CaseStates) /\ Len(cases') <= MaxCases
    <3>1. cases \in Seq(CaseStates) /\ Len(cases) <= MaxCases
      BY DEF KycInv
    <3>2. CASE cases' = cases
      BY <3>1, <3>2
    <3>3. CASE Len(cases) < MaxCases /\ cases' = Append(cases, "open")
      <4>1. cases' \in Seq(CaseStates) /\ Len(cases') = Len(cases) + 1
        BY <3>1, <3>3, AppendProperties DEF CaseStates
      <4> QED
        BY <1>1, <3>3, <4>1, KycNumbers
    <3> QED
      BY <1>8, <3>2, <3>3 DEF TrySubmit, TrySubmitFails
  <2>3. uploading' \in [Uploads -> UploadStates]
    <3>1. CASE TrySubmit(u)
      <4>1. Len(cases) + 1 \in CaseNos
        BY <1>1, <3>1, KycNumbers DEF TrySubmit, CaseNos
      <4> QED
        BY <1>3, <2>1, <3>1, <4>1, UploadBuilt DEF TrySubmit
    <3>2. CASE TrySubmitFails(u)
      BY <1>1, <1>3, <2>1, <3>2, UploadBuilt, NextTry DEF TrySubmitFails, Goes
    <3> QED
      BY <1>8, <3>1, <3>2
  <2>4. UNCHANGED <<docs, userStatus, reusedClosed>> /\ kycFaults' \in 0 .. MaxKycFaults
    BY <1>4, <1>8 DEF TrySubmit, TrySubmitFails, KycInv
  <2> QED
    BY <1>2, <2>2, <2>3, <2>4 DEF KycInv
<1>9. CASE PersistSubmission(u) \/ AllProvidersFailed(u)
  <2>1. /\ uploading[u].doc \in DocNos
        /\ uploading[u].at = "persist" => uploading[u].case \in CaseNos
    BY <1>1, <1>9, UploadByPlace DEF PersistSubmission, AllProvidersFailed
  <2> DEFINE d == uploading[u].doc
  <2>2. docs' \in Seq(KycDocument) /\ Len(docs') = Len(docs)
    <3>1. CASE PersistSubmission(u)
      <4> DEFINE new == [docs[d] EXCEPT !.status = "PENDING",
                           !.case = uploading[u].case, !.heard = TRUE,
                           !.silent = FALSE, !.expired = FALSE]
      <4>1. docs' = [docs EXCEPT ![d] = new]
        BY <3>1 DEF PersistSubmission
      <4>2. d \in DOMAIN docs => new \in KycDocument
        BY <1>1, <2>1, <3>1, DocumentSet DEF KycStatus, PersistSubmission
      <4> HIDE DEF d, new
      <4> QED
        BY <4>1, <4>2, DocWritten
    <3>2. CASE AllProvidersFailed(u)
      <4> DEFINE new == [docs[d] EXCEPT !.status = "NEEDS_REVIEW", !.heard = TRUE,
                                        !.silent = FALSE]
      <4>1. docs' = [docs EXCEPT ![d] = new]
        BY <3>2 DEF AllProvidersFailed
      <4>2. d \in DOMAIN docs => new \in KycDocument
        BY <1>1, <3>2, DocumentSet DEF KycStatus
      <4> HIDE DEF d, new
      <4> QED
        BY <4>1, <4>2, DocWritten
    <3> QED
      BY <1>9, <3>1, <3>2
  <2>3. uploading' \in [Uploads -> UploadStates]
    BY <1>3, <1>9, UploadBuilt DEF PersistSubmission, AllProvidersFailed, KycStatus
  <2> QED
    BY <1>2, <1>9, <2>2, <2>3 DEF PersistSubmission, AllProvidersFailed, KycInv
<1>10. CASE UpdateUser(u) \/ UploadDies(u)
  <2>1. userStatus' \in KycStatus \cup {"none"}
    BY <1>1, <1>10, UploadByPlace DEF UpdateUser, UploadDies, KycInv
  <2>2. uploading' \in [Uploads -> UploadStates]
    BY <1>3, <1>10, UploadBuilt DEF UpdateUser, UploadDies
  <2> QED
    BY <1>2, <1>4, <1>10, <2>1, <2>2 DEF UpdateUser, UploadDies, KycInv
<1> QED
  BY <1>5, <1>6, <1>7, <1>8, <1>9, <1>10 DEF KycUpload, SubmitOrReuse

\* The steps of a callback.
LEMMA CallbackSteps ==
  ASSUME KycInv, NEW c \in Callbacks, KycCallback(c)
  PROVE  KycInv'
<1>1. /\ calling[c] \in CallStates /\ Len(docs) \in Nat /\ Len(cases) \in Nat
      /\ docs \in [1 .. Len(docs) -> KycDocument] /\ Len(docs) <= MaxDocs
      /\ cases \in [1 .. Len(cases) -> CaseStates] /\ Len(cases) <= MaxCases
      /\ DOMAIN docs = 1 .. Len(docs) /\ DOMAIN cases = 1 .. Len(cases)
  BY DEF KycInv
<1>2. UNCHANGED <<uploading, detecting, reusedClosed>>
  BY DEF KycCallback, ProcessWebhook, SaveCallback, SaveUserStatus, CallbackDies
<1>3. ASSUME NEW state \in CallStates, CallAt(c, state)
      PROVE  calling' \in [Callbacks -> CallStates]
  BY <1>3 DEF KycInv, CallAt
<1>4. CASE ProcessWebhook(c)
  <2>1. PICK k \in DOMAIN cases, status \in KycStatus :
          LET own == {d \in DOMAIN docs : docs[d].case = k}
              d == IF own = {} THEN Len(docs) ELSE Latest(own)
          IN  CallAt(c, [at |-> "doc", doc |-> d, found |-> docs[d],
                         case |-> k, status |-> status])
    BY <1>4 DEF ProcessWebhook
  <2> DEFINE own == {d \in DOMAIN docs : docs[d].case = k}
             d == IF own = {} THEN Len(docs) ELSE Latest(own)
  <2>2. d \in 1 .. Len(docs)
    <3>1. CASE own = {}
      <4>1. Len(docs) # 0
        BY <1>4 DEF ProcessWebhook, KycInv
      <4> QED
        BY <1>1, <3>1, <4>1
    <3>2. CASE own # {}
      <4>1. own \subseteq 1 .. Len(docs)
        BY <1>1
      <4>2. own \in SUBSET (0 .. Len(docs))
        BY <1>1, <4>1
      <4>3. Latest(own) \in own
        <5> HIDE DEF own
        <5> QED
          BY <1>1, <3>2, <4>2, HasLatest
      <4> QED
        BY <3>2, <4>1, <4>3
    <3> QED
      BY <3>1, <3>2
  <2>3. k \in CaseNos
    BY <1>1, KycNumbers DEF CaseNos
  <2>4. d \in DocNos /\ docs[d] \in KycDocument
    <3> HIDE DEF d
    <3> QED
      BY <1>1, <2>2, KycNumbers DEF DocNos
  <2>5. CallAt(c, [at |-> "doc", doc |-> d, found |-> docs[d], case |-> k,
                   status |-> status])
    BY <2>1
  <2> HIDE DEF d
  <2>6. calling' \in [Callbacks -> CallStates]
    BY <1>3, <2>3, <2>4, <2>5, CallBuilt
  <2> QED
    BY <1>2, <1>4, <2>6 DEF ProcessWebhook, KycInv
<1>5. CASE SaveCallback(c)
  <2>1. /\ calling[c].doc \in DocNos /\ calling[c].found \in KycDocument
        /\ calling[c].case \in CaseNos /\ calling[c].status \in KycStatus
    BY <1>1, <1>5, CallByPlace DEF SaveCallback
  <2> DEFINE found == calling[c].found
             k == IF found.case = NoCase THEN calling[c].case ELSE found.case
             new == [found EXCEPT !.status = calling[c].status, !.case = k,
                       !.heard = TRUE, !.silent = FALSE, !.flagged = FALSE]
  <2>2. docs' = [docs EXCEPT ![calling[c].doc] = new]
    BY <1>5 DEF SaveCallback
  <2>3. k \in CaseNos \cup {NoCase}
    BY <2>1, DocumentIs
  <2>4. new \in KycDocument
    <3> HIDE DEF found, k
    <3>1. found \in KycDocument
      BY <2>1 DEF found
    <3> QED
      BY <2>1, <2>3, <3>1, DocumentSet
  <2>5. docs' \in Seq(KycDocument) /\ Len(docs') = Len(docs)
    <3> HIDE DEF new
    <3> QED
      BY <2>2, <2>4, DocWritten
  <2>6. calling' \in [Callbacks -> CallStates]
    BY <1>3, <1>5, <2>1, CallBuilt DEF SaveCallback
  <2> QED
    BY <1>2, <1>5, <2>5, <2>6 DEF SaveCallback, KycInv
<1>6. CASE SaveUserStatus(c)
  <2>1. calling[c].case \in CaseNos /\ calling[c].status \in KycStatus
    BY <1>1, <1>6, CallByPlace DEF SaveUserStatus
  <2>2. cases' \in [1 .. Len(cases) -> CaseStates]
    BY <1>1, <1>6 DEF SaveUserStatus, CaseStates
  <2>3. cases' \in Seq(CaseStates) /\ Len(cases') = Len(cases)
    BY <1>1, <2>2
  <2>4. calling' \in [Callbacks -> CallStates]
    BY <1>3, <1>6, CallBuilt DEF SaveUserStatus
  <2> QED
    BY <1>1, <1>2, <1>6, <2>1, <2>3, <2>4 DEF SaveUserStatus, KycInv
<1>7. CASE CallbackDies(c)
  <2>1. calling' \in [Callbacks -> CallStates]
    BY <1>3, <1>7, CallBuilt DEF CallbackDies
  <2>2. kycFaults' \in 0 .. MaxKycFaults
    BY <1>7, KycNumbers DEF CallbackDies, KycFault, KycInv
  <2> QED
    BY <1>2, <1>7, <2>1, <2>2 DEF CallbackDies, KycInv
<1> QED
  BY <1>4, <1>5, <1>6, <1>7 DEF KycCallback

\* The provider, time, and the sweep.
LEMMA DecideStep ==
  ASSUME KycInv, NEW k \in DOMAIN cases, ProviderDecides(k)
  PROVE  KycInv'
<1>1. cases \in [1 .. Len(cases) -> CaseStates] /\ Len(cases) \in Nat
  BY DEF KycInv
<1>2. cases' \in [1 .. Len(cases) -> CaseStates]
  BY <1>1 DEF ProviderDecides, CaseStates
<1>3. cases' \in Seq(CaseStates) /\ Len(cases') = Len(cases)
  BY <1>1, <1>2
<1> QED
  BY <1>3 DEF ProviderDecides, KycInv

LEMMA TimeStep ==
  ASSUME KycInv, TimePasses
  PROVE  KycInv'
<1>1. PICK d \in DOMAIN docs :
        \/ docs' = [docs EXCEPT ![d].silent = TRUE]
        \/ docs' = [docs EXCEPT ![d].expired = TRUE]
  BY DEF TimePasses
<1>2. docs[d] \in KycDocument
  BY DEF KycInv
<1>3. PICK new \in KycDocument : docs' = [docs EXCEPT ![d] = new]
  BY <1>1, <1>2, DocumentSet DEF KycStatus
<1>4. docs' \in Seq(KycDocument) /\ Len(docs') = Len(docs)
  BY <1>3, DocWritten
<1> QED
  BY <1>4 DEF TimePasses, KycInv

LEMMA KycSweepSteps ==
  ASSUME KycInv, KycSweep
  PROVE  KycInv'
<1>1. /\ docs \in [1 .. Len(docs) -> KycDocument] /\ Len(docs) \in Nat
      /\ DOMAIN docs = 1 .. Len(docs) /\ Len(docs) <= MaxDocs
  BY DEF KycInv
<1>2. UNCHANGED <<userStatus, cases, uploading, calling, reusedClosed>>
  BY DEF KycSweep, DetectStuckCases, FlagStuckCase, DetectorDies
<1>3. CASE DetectStuckCases
  <2>1. DOMAIN detecting' \subseteq DocNos
    BY <1>1, <1>3, KycNumbers DEF DetectStuckCases, StuckDocs, DocNos
  <2>2. \A d \in DOMAIN detecting' : detecting'[d] \in KycDocument
    BY <1>1, <1>3 DEF DetectStuckCases, StuckDocs
  <2> QED
    BY <1>2, <1>3, <2>1, <2>2 DEF DetectStuckCases, KycInv
<1>4. CASE FlagStuckCase
  <2>1. PICK d \in DOMAIN detecting :
          /\ docs' = [docs EXCEPT ![d] = [detecting[d] EXCEPT !.flagged = TRUE]]
          /\ detecting' = [e \in DOMAIN detecting \ {d} |-> detecting[e]]
    BY <1>4 DEF FlagStuckCase
  <2>2. [detecting[d] EXCEPT !.flagged = TRUE] \in KycDocument
    BY <2>1, DocumentSet DEF KycInv, KycStatus
  <2>3. docs' \in Seq(KycDocument) /\ Len(docs') = Len(docs)
    BY <2>1, <2>2, DocWritten
  <2>4. /\ DOMAIN detecting' \subseteq DocNos
        /\ \A e \in DOMAIN detecting' : detecting'[e] \in KycDocument
    BY <2>1 DEF KycInv
  <2> QED
    BY <1>2, <1>4, <2>3, <2>4 DEF FlagStuckCase, KycInv
<1>5. CASE DetectorDies
  <2>1. DOMAIN detecting' = {} /\ kycFaults' \in 0 .. MaxKycFaults
    BY <1>5, KycNumbers DEF DetectorDies, KycFault, KycInv
  <2> QED
    BY <1>2, <1>5, <2>1 DEF DetectorDies, KycInv
<1> QED
  BY <1>3, <1>4, <1>5 DEF KycSweep

LEMMA KycStepHolds == KycInv /\ [KycNext]_kycVars => KycInv'
<1> SUFFICES ASSUME KycInv, [KycNext]_kycVars PROVE KycInv'
  OBVIOUS
<1>1. CASE UNCHANGED kycVars
  BY <1>1 DEF kycVars, KycInv
<1> QED
  BY <1>1, UploadSteps, CallbackSteps, DecideStep, TimeStep, KycSweepSteps DEF KycNext

-----------------------------------------------------------------------------
(* The four of MCBackground. *)

BackgroundInv ==
  /\ chore \in Chores
  /\ TasksInv /\ ScoresInv /\ BalanceInv /\ KycInv

LEMMA BackgroundInvariant == BackgroundSpec => []BackgroundInv
<1>1. BackgroundInit => BackgroundInv
  BY TasksInitially, ScoresInitially, BalanceInitially, KycInitially
  DEF BackgroundInit, BackgroundInv
<1>2. BackgroundInv /\ [BackgroundNext]_backgroundVars => BackgroundInv'
  <2> SUFFICES ASSUME BackgroundInv, [BackgroundNext]_backgroundVars
               PROVE  BackgroundInv'
    OBVIOUS
  <2>1. /\ chore' = chore
        /\ [TasksNext]_tasksVars /\ [ScoresNext]_scoreVars
        /\ [BalanceNext]_balanceVars /\ [KycNext]_kycVars
    BY DEF BackgroundNext, TasksStep, ScoresStep, BalanceStep, KycStep, backgroundVars
  <2> QED
    BY <2>1, TasksStepHolds, ScoresStepHolds, BalanceStepHolds, KycStepHolds
    DEF BackgroundInv
<1> QED
  BY <1>1, <1>2, PTL DEF BackgroundSpec

(* Whatever the servers, users, batches, accounts and uploads, the variables of
   the tasks, the scores, the monitor and the review keep their types: a score
   lies between 0 and 100 (computeTrustScore; kept in hundredths), an item of the
   reminders is a user's, and a callback without a row of its own finds the
   latest one. *)
THEOREM BackgroundTypeTheorem == BackgroundSpec => []BackgroundTypeOK
<1>1. BackgroundInv => BackgroundTypeOK
  BY KycConclusion DEF BackgroundInv, BackgroundTypeOK, TasksInv, ScoresInv, BalanceInv
<1> QED
  BY BackgroundInvariant, <1>1, PTL

(* However many servers remind at once, whatever fails and whenever a server
   crashes: a user marked as reminded has been mailed
   (sendProfileIncompleteReminders).  It is the safety part of TasksSettle. *)
THEOREM NobodyMarkedUnmailed == BackgroundSpec => []MarkedWasMailed
<1>1. BackgroundInv => MarkedWasMailed
  BY DEF BackgroundInv, TasksInv
<1> QED
  BY BackgroundInvariant, <1>1, PTL

(* For any threshold and any checks that overlap: the breaker is open only when
   half its threshold of loads in a row have failed, although the service wraps
   every load in it twice (StellarCircuitBreakerService).  It is the safety part
   of AlertsConverge. *)
THEOREM BreakerTripsOnRealFailures == BackgroundSpec => []TripsOnRealFailures
<1>1. BackgroundInv => TripsOnRealFailures
  BY DEF BackgroundInv, BalanceInv
<1> QED
  BY BackgroundInvariant, <1>1, PTL
=============================================================================
