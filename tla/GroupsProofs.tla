---------------------------- MODULE GroupsProofs ----------------------------
(***************************************************************************)
(* What is proved of groups and of their money (see MCGroups), for any     *)
(* number of members, workers, requests, rounds and faults.  Each section  *)
(* is about one component: the inductive invariant that carries its        *)
(* properties, lemmas for its initial states and for its actions, and one  *)
(* for its steps.  The last section puts the components together.          *)
(***************************************************************************)
EXTENDS MCGroups, FiniteSetTheorems, SequenceTheorems, WellFoundedInduction,
        TLAPS

-----------------------------------------------------------------------------
\* The argument: a worker between lock and release whose lock has not ended
\* holds the key of its group, and a key has one holder.
HoldsItsLock ==
  \A w \in Workers \ lapsed : Mediates(w) => lockOf[worker[w].group] = w

MediationInv ==
  /\ row \in [Groups -> GroupRows] /\ chain \in [Groups -> States]
  /\ lockOf \in [Groups -> Workers \cup {Nobody}]
  /\ worker \in [Workers -> Working \cup {Resting}]
  /\ flagging \subseteq [group : Groups, seen : GroupRows]
  /\ HoldsItsLock

\* The changes that are made of a row make a row.
LEMMA RowEdits ==
  ASSUME NEW r \in GroupRows
  PROVE  /\ [r EXCEPT !.old = TRUE] \in GroupRows
         /\ [r EXCEPT !.old = FALSE] \in GroupRows
         /\ \A flag \in BOOLEAN :
              [r EXCEPT !.stale = flag, !.old = FALSE] \in GroupRows
         /\ \A s \in States :
              [r EXCEPT !.round = s.round, !.status = s.status,
                        !.stale = FALSE] \in GroupRows
BY DEF GroupRows, States

LEMMA NewRowIsRow == NewRow \in GroupRows
BY MediationAssumption DEF NewRow, GroupRows, Statuses

\* The rows that a task or a handler writes are rows.
LEMMA RowsAreKept ==
  ASSUME MediationInv,
         NEW g \in Groups,
         \/ DetectStaleGroups \/ FlagStaleGroup
         \/ ClearStaleFlag(g) \/ RoundAdvances(g) \/ GroupAges(g)
         \/ ContractAdvances(g)
  PROVE  MediationInv'
<1>1. UNCHANGED <<lockOf, worker, lapsed>>
  BY DEF DetectStaleGroups, FlagStaleGroup, ClearStaleFlag, RoundAdvances,
         GroupAges, ContractAdvances
<1>2. HoldsItsLock'
  BY <1>1 DEF MediationInv, HoldsItsLock, Mediates
<1>3. CASE DetectStaleGroups
  BY <1>1, <1>2, <1>3 DEF DetectStaleGroups, MediationInv
<1>4. CASE FlagStaleGroup
  <2>1. PICK f \in flagging :
          /\ flagging' = flagging \ {f}
          /\ \/ row' = [row EXCEPT ![f.group] =
                          [f.seen EXCEPT !.stale = TRUE, !.old = FALSE]]
             \/ UNCHANGED row
    BY <1>4 DEF FlagStaleGroup
  <2>2. f.seen \in GroupRows
    BY DEF MediationInv
  <2>3. [f.seen EXCEPT !.stale = TRUE, !.old = FALSE] \in GroupRows
    BY <2>2, RowEdits
  <2>4. row' \in [Groups -> GroupRows]
    BY <2>1, <2>3 DEF MediationInv
  <2>5. chain' = chain
    BY <1>4 DEF FlagStaleGroup
  <2> QED
    BY <1>1, <1>2, <2>1, <2>4, <2>5 DEF MediationInv
<1>5. CASE ClearStaleFlag(g)
  <2>1. row' = [row EXCEPT ![g] = [row[g] EXCEPT !.stale = FALSE, !.old = FALSE]]
    BY <1>5 DEF ClearStaleFlag, MediationInv
  <2>2. row' \in [Groups -> GroupRows]
    BY <2>1, RowEdits DEF MediationInv
  <2> QED
    BY <1>1, <1>2, <1>5, <2>2 DEF ClearStaleFlag, MediationInv
<1>6. CASE RoundAdvances(g)
  <2>1. row' = [row EXCEPT ![g] = [row[g] EXCEPT
                  !.round = row[g].round + 1, !.stale = FALSE, !.old = FALSE]]
    BY <1>6 DEF RoundAdvances, MediationInv
  <2>2. row[g].round + 1 \in 0 .. MaxRound
    BY <1>6, MediationAssumption
    DEF RoundAdvances, MediationInv, GroupRows
  <2>3. [row[g] EXCEPT !.round = row[g].round + 1, !.stale = FALSE,
                       !.old = FALSE] \in GroupRows
    BY <2>2 DEF MediationInv, GroupRows
  <2>4. row' \in [Groups -> GroupRows]
    BY <2>1, <2>3 DEF MediationInv
  <2> QED
    BY <1>1, <1>2, <1>6, <2>4 DEF RoundAdvances, MediationInv
<1>7. CASE GroupAges(g)
  <2>1. row' = [row EXCEPT ![g] = [row[g] EXCEPT !.old = TRUE]]
    BY <1>7 DEF GroupAges, MediationInv
  <2>2. row' \in [Groups -> GroupRows]
    BY <2>1, RowEdits DEF MediationInv
  <2> QED
    BY <1>1, <1>2, <1>7, <2>2 DEF GroupAges, MediationInv
<1>8. CASE ContractAdvances(g)
  BY <1>1, <1>2, <1>8, MediationAssumption
  DEF ContractAdvances, MediationInv, States, Statuses
<1> QED
  BY <1>3, <1>4, <1>5, <1>6, <1>7, <1>8

\* What a worker does keeps its own lock or gives it up, and no other's.
LEMMA LocksAreKept ==
  ASSUME MediationInv,
         NEW w \in Workers,
         \/ \E g \in Groups : TakeJob(w, g)
         \/ Acquire(w) \/ Skip(w) \/ FindGroup(w) \/ AskContract(w)
         \/ SaveSynced(w) \/ Release(w) \/ WorkerCrash(w)
  PROVE  MediationInv'
<1>1. Resting.at = "resting"
  BY DEF Resting
<1>2. \A s \in Working : s.group \in Groups /\ s.seen \in GroupRows
                           /\ s.at # "resting"
  BY DEF Working
<1>3. ASSUME NEW g \in Groups, TakeJob(w, g) PROVE MediationInv'
  <2> DEFINE taken == [at |-> "lock", group |-> g, seen |-> NewRow,
                       failed |-> FALSE]
  <2>1. taken \in Working
    BY NewRowIsRow DEF Working
  <2>2. worker' = [worker EXCEPT ![w] = taken]
    BY <1>3 DEF TakeJob, Step
  <2> HIDE DEF taken
  <2>3. taken.at = "lock"
    BY DEF taken
  <2> QED
    BY <1>3, <2>1, <2>2, <2>3 DEF TakeJob, MediationInv, HoldsItsLock, Mediates
<1>4. CASE Acquire(w)
  BY <1>1, <1>2, <1>4, MediationAssumption
  DEF Acquire, Step, Working, MediationInv, HoldsItsLock, Mediates
<1>5. CASE Skip(w)
  BY <1>1, <1>5 DEF Skip, EndJob, Step, MediationInv, HoldsItsLock, Mediates
<1>6. CASE FindGroup(w)
  BY <1>1, <1>6
  DEF FindGroup, Step, Working, MediationInv, HoldsItsLock, Mediates
<1>7. CASE AskContract(w)
  <2> DEFINE g == worker[w].group
             synced == [worker[w].seen EXCEPT !.round = chain[g].round,
                          !.status = chain[g].status, !.stale = FALSE]
  <2>1. worker[w] \in Working /\ worker[w].at = "ask"
    BY <1>1, <1>7 DEF AskContract, MediationInv
  <2>2. synced \in GroupRows /\ NewRow \in GroupRows
    <3>1. worker[w].seen \in GroupRows /\ chain[worker[w].group] \in States
      BY <1>2, <2>1 DEF MediationInv
    <3> QED
      BY <3>1, RowEdits, NewRowIsRow
  <2> HIDE DEF synced
  <2>3. PICK next :
          /\ worker' = [worker EXCEPT ![w] = next]
          /\ \/ next = [worker[w] EXCEPT !.at = "save", !.seen = synced]
             \/ next = [worker[w] EXCEPT !.at = "release", !.seen = NewRow]
             \/ \E throws \in BOOLEAN :
                  next = [worker[w] EXCEPT !.at = "release", !.seen = NewRow,
                                           !.failed = throws]
    BY <1>7 DEF AskContract, Step, synced
  <2>4. /\ next \in Working /\ next.group = worker[w].group
        /\ next.at \in {"save", "release"}
    BY <2>1, <2>2, <2>3 DEF Working
  <2>5. UNCHANGED <<row, chain, lockOf, lapsed, flagging>>
    BY <1>7 DEF AskContract
  <2> QED
    BY <2>1, <2>3, <2>4, <2>5 DEF MediationInv, HoldsItsLock, Mediates
<1>8. CASE SaveSynced(w)
  <2>1. worker[w] \in Working
    BY <1>1, <1>8 DEF SaveSynced, MediationInv
  <2>2. row' \in [Groups -> GroupRows]
    BY <1>2, <1>8, <2>1, RowEdits DEF SaveSynced, MediationInv
  <2> DEFINE next == [worker[w] EXCEPT !.at = "release", !.seen = NewRow]
  <2>3. next \in Working /\ next.group = worker[w].group
          /\ next.at = "release"
    BY <2>1, NewRowIsRow DEF Working
  <2>4. worker' = [worker EXCEPT ![w] = next]
    BY <1>8 DEF SaveSynced, Step
  <2> HIDE DEF next
  <2> QED
    BY <1>8, <2>1, <2>2, <2>3, <2>4
    DEF SaveSynced, MediationInv, HoldsItsLock, Mediates
<1>9. CASE Release(w)
  BY <1>1, <1>2, <1>9, MediationAssumption
  DEF Release, EndJob, Step, MediationInv, HoldsItsLock, Mediates
<1>10. CASE WorkerCrash(w)
  BY <1>1, <1>10
  DEF WorkerCrash, Step, MediationInv, HoldsItsLock, Mediates
<1> QED
  BY <1>3, <1>4, <1>5, <1>6, <1>7, <1>8, <1>9, <1>10

LEMMA MediationInvStarts == MediationInit => MediationInv
BY MediationAssumption
DEF MediationInit, MediationInv, HoldsItsLock, Mediates, NewRow, GroupRows,
    States, Statuses, Resting

LEMMA MediationInvStep ==
  MediationInv /\ [MediationNext]_mediationVars => MediationInv'
<1> SUFFICES ASSUME MediationInv, [MediationNext]_mediationVars
             PROVE  MediationInv'
  OBVIOUS
<1>1. CASE UNCHANGED mediationVars
  BY <1>1 DEF mediationVars, MediationInv, HoldsItsLock, Mediates
<1>2. CASE SyncAllStarts \/ SyncAllPage \/ \E g \in Groups :
             JobRemoved(g) \/ Stalled(g)
  <2>1. UNCHANGED <<row, chain, lockOf, worker, lapsed, flagging>>
    BY <1>2 DEF SyncAllStarts, SyncAllPage, JobRemoved, Stalled
  <2> QED
    BY <2>1 DEF MediationInv, HoldsItsLock, Mediates
<1>3. ASSUME NEW g \in Groups, LockLapses(g) PROVE MediationInv'
  BY <1>3, MediationAssumption
  DEF LockLapses, MediationInv, HoldsItsLock, Mediates
<1>4. CASE DetectStaleGroups \/ FlagStaleGroup
  <2>1. CASE Groups = {}
    BY <1>4, <2>1
    DEF DetectStaleGroups, FlagStaleGroup, MediationInv, HoldsItsLock, Mediates
  <2>2. CASE Groups # {}
    BY <1>4, <2>2, RowsAreKept
  <2> QED
    BY <2>1, <2>2
<1>5. CASE \E g \in Groups : ClearStaleFlag(g) \/ RoundAdvances(g)
             \/ GroupAges(g) \/ ContractAdvances(g)
  BY <1>5, RowsAreKept
<1>6. CASE \E w \in Workers :
             \/ \E g \in Groups : TakeJob(w, g)
             \/ Acquire(w) \/ Skip(w) \/ FindGroup(w) \/ AskContract(w)
             \/ SaveSynced(w) \/ Release(w) \/ WorkerCrash(w)
  BY <1>6, LocksAreKept
<1> QED
  BY <1>1, <1>2, <1>3, <1>4, <1>5, <1>6 DEF MediationNext

\* A job that waits has an attempt left, which the worker that takes it uses up.
JobsInv ==
  /\ syncJob \in [Groups -> SyncJobs]
  /\ \A g \in Groups : syncJob[g].state = "waiting" => syncJob[g].made < SyncAttempts
  /\ lapsed \subseteq Workers
  /\ dispatched \in NoPage .. Cardinality(Groups)
  /\ mediationFaults \in 0 .. MaxMediationFaults

LEMMA MediationNumbers ==
  /\ BatchSize \in Nat /\ BatchSize >= 1 /\ SyncAttempts \in Nat /\ SyncAttempts >= 1
  /\ MaxMediationFaults \in Nat /\ IsFiniteSet(Groups) /\ Cardinality(Groups) \in Nat
BY MediationAssumption, FS_CardinalityType

LEMMA JobsStart == MediationInit => JobsInv
<1> SUFFICES ASSUME MediationInit PROVE JobsInv
  OBVIOUS
<1>1. NoJob \in SyncJobs /\ NoJob.state = "none"
  BY MediationNumbers DEF NoJob, SyncJobs
<1>2. /\ syncJob \in [Groups -> SyncJobs]
      /\ \A g \in Groups : syncJob[g].state = "none"
  BY <1>1 DEF MediationInit
<1> QED
  BY <1>2, MediationNumbers DEF MediationInit, JobsInv, NoPage

\* Only its own job is touched when a worker ends, and it waits again only if
\* an attempt is left.
LEMMA EndedJobs ==
  ASSUME MediationInv, JobsInv, NEW w \in Workers, worker[w] \in Working, EndJob(w)
  PROVE  /\ syncJob' \in [Groups -> SyncJobs]
         /\ \A g \in Groups : syncJob'[g].state = "waiting" => syncJob'[g].made < SyncAttempts
<1> DEFINE h == worker[w].group
           outcome == CASE ~worker[w].failed -> "completed"
                        [] syncJob[h].made < SyncAttempts -> "waiting"
                        [] OTHER -> "failed"
           next == IF syncJob[h].state = "active" THEN outcome ELSE syncJob[h].state
<1>1. h \in Groups /\ worker[w].failed \in BOOLEAN /\ syncJob[h] \in SyncJobs
  BY DEF Working, JobsInv
<1>2. /\ outcome \in {"completed", "waiting", "failed"}
      /\ outcome = "waiting" => syncJob[h].made < SyncAttempts
  BY <1>1
<1> HIDE DEF outcome
<1>3. syncJob' = [syncJob EXCEPT ![h].state = next]
  BY DEF EndJob, outcome
<1>4. next \in {"none", "waiting", "active", "completed", "failed"}
  BY <1>1, <1>2 DEF SyncJobs
<1>5. next = "waiting" => syncJob[h].made < SyncAttempts
  BY <1>1, <1>2 DEF JobsInv
<1> HIDE DEF next
<1>6. [syncJob[h] EXCEPT !.state = next] \in SyncJobs
  BY <1>1, <1>4 DEF SyncJobs
<1> QED
  BY <1>1, <1>3, <1>5, <1>6 DEF JobsInv, SyncJobs

LEMMA PagesAreFew ==
  ASSUME NEW b \in Nat, b >= 1, NEW d \in Nat, NEW n \in Nat, n - b * d >= b
  PROVE  d + 1 <= n
<1>1. b * d = d + (b - 1) * d
  OBVIOUS
<1>2. (b - 1) * d \in Nat
  <2>1. b - 1 \in Nat
    OBVIOUS
  <2> QED
    BY <2>1
<1> QED
  BY <1>1, <1>2

LEMMA PageIsCounted ==
  ASSUME JobsInv, SyncAllPage
  PROVE  dispatched' \in NoPage .. Cardinality(Groups)
<1> DEFINE running == {g \in Groups : row[g].status = "ACTIVE"}
<1>1. /\ Cardinality(running) \in Nat /\ Cardinality(running) <= Cardinality(Groups)
  BY MediationNumbers, FS_Subset, FS_CardinalityType
<1> HIDE DEF running
<1>2. /\ dispatched # NoPage
      /\ dispatched' = IF Cardinality(running) - BatchSize * dispatched < BatchSize
                       THEN NoPage ELSE dispatched + 1
  BY DEF SyncAllPage, running
<1>3. dispatched \in Nat
  BY <1>2, MediationNumbers DEF JobsInv, NoPage
<1>4. BatchSize * dispatched \in Nat
  BY <1>3, MediationNumbers
<1>5. CASE Cardinality(running) - BatchSize * dispatched < BatchSize
  BY <1>2, <1>5, MediationNumbers DEF NoPage
<1>6. CASE ~(Cardinality(running) - BatchSize * dispatched < BatchSize)
  <2>1. Cardinality(running) - BatchSize * dispatched >= BatchSize
    BY <1>1, <1>4, <1>6, MediationNumbers
  <2>2. dispatched + 1 <= Cardinality(running)
    BY <1>1, <1>3, <2>1, MediationNumbers, PagesAreFew
  <2> QED
    BY <1>1, <1>2, <1>3, <1>6, <2>2, MediationNumbers DEF NoPage
<1> QED
  BY <1>5, <1>6

LEMMA FaultsAreCounted ==
  ASSUME JobsInv, UNCHANGED mediationFaults \/ MediationFault
  PROVE  mediationFaults' \in 0 .. MaxMediationFaults
BY MediationNumbers DEF JobsInv, MediationFault

LEMMA WorkersJobs ==
  ASSUME MediationInv, JobsInv, NEW w \in Workers,
         \/ \E g \in Groups : TakeJob(w, g)
         \/ Acquire(w) \/ Skip(w) \/ FindGroup(w) \/ AskContract(w)
         \/ SaveSynced(w) \/ Release(w) \/ WorkerCrash(w)
  PROVE  JobsInv'
<1>1. /\ UNCHANGED mediationFaults \/ MediationFault
      /\ dispatched' = dispatched
      /\ lapsed' \subseteq lapsed
  <2>1. CASE (\E g \in Groups : TakeJob(w, g)) \/ Acquire(w) \/ Skip(w) \/ FindGroup(w)
    BY <2>1 DEF TakeJob, Acquire, Skip, FindGroup
  <2>2. CASE AskContract(w)
    BY <2>2 DEF AskContract
  <2>3. CASE SaveSynced(w) \/ Release(w) \/ WorkerCrash(w)
    BY <2>3 DEF SaveSynced, Release, WorkerCrash
  <2> QED
    BY <2>1, <2>2, <2>3
<1>2. mediationFaults' \in 0 .. MaxMediationFaults
  BY <1>1, FaultsAreCounted
<1>3. /\ syncJob' \in [Groups -> SyncJobs]
      /\ \A g \in Groups : syncJob'[g].state = "waiting" => syncJob'[g].made < SyncAttempts
  <2>1. CASE UNCHANGED syncJob
    BY <2>1 DEF JobsInv
  <2>2. ASSUME NEW g \in Groups, TakeJob(w, g)
       PROVE  /\ syncJob' \in [Groups -> SyncJobs]
              /\ \A h \in Groups : syncJob'[h].state = "waiting" => syncJob'[h].made < SyncAttempts
    <3>1. syncJob[g] \in SyncJobs /\ syncJob[g].made < SyncAttempts
      BY <2>2 DEF TakeJob, JobsInv
    <3>2. syncJob[g].made + 1 \in 0 .. SyncAttempts
      BY <3>1, MediationNumbers DEF SyncJobs
    <3>3. syncJob' = [syncJob EXCEPT ![g].state = "active", ![g].made = @ + 1]
      BY <2>2 DEF TakeJob
    <3>4. [syncJob[g] EXCEPT !.state = "active", !.made = syncJob[g].made + 1] \in SyncJobs
      BY <3>1, <3>2 DEF SyncJobs
    <3>5. \A h \in Groups :
            /\ h = g => syncJob'[h].state = "active"
            /\ h # g => syncJob'[h] = syncJob[h]
      BY <3>1, <3>3 DEF JobsInv, SyncJobs
    <3>6. syncJob' \in [Groups -> SyncJobs]
      BY <3>1, <3>3, <3>4 DEF JobsInv, SyncJobs
    <3> QED
      <4> SUFFICES ASSUME NEW h \in Groups, syncJob'[h].state = "waiting"
                   PROVE  syncJob'[h].made < SyncAttempts
        BY <3>6
      <4>1. h # g /\ syncJob'[h] = syncJob[h]
        BY <3>5
      <4> QED
        BY <4>1 DEF JobsInv
  <2>3. CASE Skip(w) \/ Release(w)
    <3>1. worker[w] \in Working /\ EndJob(w)
      BY <2>3 DEF Skip, Release, MediationInv, Resting
    <3> QED
      BY <3>1, EndedJobs
  <2>4. CASE Acquire(w) \/ FindGroup(w) \/ SaveSynced(w) \/ WorkerCrash(w)
    <3>1. UNCHANGED syncJob
      BY <2>4 DEF Acquire, FindGroup, SaveSynced, WorkerCrash
    <3> QED
      BY <2>1, <3>1
  <2>5. CASE AskContract(w)
    <3>1. UNCHANGED syncJob
      BY <2>5 DEF AskContract
    <3> QED
      BY <2>1, <3>1
  <2> QED
    BY <2>2, <2>3, <2>4, <2>5
<1> QED
  BY <1>1, <1>2, <1>3 DEF JobsInv

LEMMA GroupsJobs ==
  ASSUME MediationInv, JobsInv, NEW g \in Groups,
         \/ JobRemoved(g) \/ Stalled(g) \/ LockLapses(g) \/ ClearStaleFlag(g)
         \/ RoundAdvances(g) \/ GroupAges(g) \/ ContractAdvances(g)
  PROVE  JobsInv'
<1>1. /\ UNCHANGED mediationFaults \/ MediationFault
      /\ dispatched' = dispatched
  BY DEF JobRemoved, Stalled, LockLapses, ClearStaleFlag, RoundAdvances, GroupAges, ContractAdvances
<1>2. mediationFaults' \in 0 .. MaxMediationFaults
  BY <1>1, FaultsAreCounted
<1>3. CASE JobRemoved(g)
  <2>1. NoJob \in SyncJobs /\ NoJob.state = "none"
    BY MediationNumbers DEF NoJob, SyncJobs
  <2>2. syncJob' = [syncJob EXCEPT ![g] = NoJob] /\ lapsed' = lapsed
    BY <1>3 DEF JobRemoved
  <2> QED
    BY <1>1, <1>2, <2>1, <2>2 DEF JobsInv
<1>4. CASE Stalled(g)
  <2>1. syncJob[g] \in SyncJobs /\ syncJob[g].made < SyncAttempts
    BY <1>4 DEF Stalled, JobsInv
  <2>2. syncJob' = [syncJob EXCEPT ![g].state = "waiting"] /\ lapsed' = lapsed
    BY <1>4 DEF Stalled
  <2>3. [syncJob[g] EXCEPT !.state = "waiting"] \in SyncJobs
    BY <2>1 DEF SyncJobs
  <2>4. syncJob'[g].made = syncJob[g].made /\ syncJob' \in [Groups -> SyncJobs]
    BY <2>1, <2>2, <2>3 DEF JobsInv, SyncJobs
  <2> QED
    BY <1>1, <1>2, <2>1, <2>2, <2>4 DEF JobsInv
<1>5. CASE LockLapses(g)
  <2>1. syncJob' = syncJob /\ lapsed' \subseteq Workers
    BY <1>5 DEF LockLapses, JobsInv, MediationInv
  <2> QED
    BY <1>1, <1>2, <2>1 DEF JobsInv
<1>6. CASE ClearStaleFlag(g) \/ RoundAdvances(g) \/ GroupAges(g) \/ ContractAdvances(g)
  <2>1. syncJob' = syncJob /\ lapsed' = lapsed
    BY <1>6 DEF ClearStaleFlag, RoundAdvances, GroupAges, ContractAdvances
  <2> QED
    BY <1>1, <1>2, <2>1 DEF JobsInv
<1> QED
  BY <1>3, <1>4, <1>5, <1>6

LEMMA JobsKeep == MediationInv /\ JobsInv /\ [MediationNext]_mediationVars => JobsInv'
<1> SUFFICES ASSUME MediationInv, JobsInv, [MediationNext]_mediationVars PROVE JobsInv'
  OBVIOUS
<1>1. CASE UNCHANGED mediationVars
  BY <1>1 DEF mediationVars, JobsInv
<1>2. CASE SyncAllStarts
  BY <1>2, MediationNumbers DEF SyncAllStarts, JobsInv, NoPage
<1>3. CASE SyncAllPage
  <2>1. UNCHANGED <<lapsed, mediationFaults>>
    BY <1>3 DEF SyncAllPage
  <2>2. PICK page : syncJob' = [g \in Groups |->
          IF g \in page /\ syncJob[g] = NoJob
          THEN [state |-> "waiting", made |-> 0] ELSE syncJob[g]]
    BY <1>3 DEF SyncAllPage
  <2>3. [state |-> "waiting", made |-> 0] \in SyncJobs
    BY MediationNumbers DEF SyncJobs
  <2>4. syncJob' \in [Groups -> SyncJobs]
    BY <2>2, <2>3 DEF JobsInv
  <2>5. \A g \in Groups : syncJob'[g].state = "waiting" => syncJob'[g].made < SyncAttempts
    BY <2>2, MediationNumbers DEF JobsInv
  <2> QED
    BY <1>3, <2>1, <2>4, <2>5, PageIsCounted DEF JobsInv
<1>4. CASE DetectStaleGroups \/ FlagStaleGroup
  <2>1. UNCHANGED <<syncJob, lapsed, dispatched>> /\ (UNCHANGED mediationFaults \/ MediationFault)
    <3>1. CASE DetectStaleGroups
      BY <3>1 DEF DetectStaleGroups
    <3>2. CASE FlagStaleGroup
      <4>1. PICK f \in flagging :
              /\ UNCHANGED <<syncJob, lapsed, dispatched>>
              /\ UNCHANGED mediationFaults \/ MediationFault
        BY <3>2 DEF FlagStaleGroup
      <4> QED
        BY <4>1
    <3> QED
      BY <1>4, <3>1, <3>2
  <2> QED
    BY <2>1, FaultsAreCounted DEF JobsInv
<1> QED
  BY <1>1, <1>2, <1>3, <1>4, WorkersJobs, GroupsJobs DEF MediationNext

LEMMA MediationIsTyped == MediationInv /\ JobsInv => MediationTypeOK /\ OneMediatorPerGroup
BY DEF MediationInv, JobsInv, MediationTypeOK, HoldsItsLock, OneMediatorPerGroup

-----------------------------------------------------------------------------
(* The administration of a group.  Whatever is written, the requests under   *)
(* way are overtaken by it; so one that is not overtaken has read the row as *)
(* it still is, and what it saves starts no group that has started, and      *)
(* leaves none without its contract.                                         *)

EditorsInv ==
  /\ groupRow \in GroupRow /\ activeOnes \subseteq Wallets
  /\ editor \in [Editors -> EditorAt \cup {NotEditing}]
  /\ crossed \subseteq Editors /\ undone \in BOOLEAN
  /\ groupFaults \in 0 .. MaxGroupFaults

\* What a request is about to save, whatever the others have written.
SavesAsMeant(e) ==
  /\ editor[e].at \in {"update", "undeployed"} => editor[e].row.status = "PENDING"
  /\ editor[e].at \in {"activate", "deploy", "deployed", "start"}
       => editor[e].row.status = "ACTIVE"
  /\ editor[e].at \in {"deployed", "start"} => editor[e].row.contract

\* What one that nobody has overtaken saves it over.
ReadAsItIs(e) ==
  e \notin crossed =>
    /\ editor[e].at \in {"update", "activate", "count", "start"}
         => groupRow.status = "PENDING"
    /\ editor[e].at \in Deploying => groupRow.status = "ACTIVE"
    /\ editor[e].at = "transfer" => editor[e].row = groupRow

RequestsInv ==
  /\ \A e \in Editors : SavesAsMeant(e) /\ ReadAsItIs(e)
  /\ StartedIsDeployed

LEMMA EditorsStart == GroupInit => EditorsInv /\ RequestsInv
<1> SUFFICES ASSUME GroupInit PROVE EditorsInv /\ RequestsInv
  OBVIOUS
<1>1. groupRow \in GroupRow /\ groupRow.status = "PENDING"
  <2>1. PICK c \in BOOLEAN :
          groupRow = [status |-> "PENDING", admin |-> Creator, terms |-> 0, contract |-> c,
                      archived |-> FALSE]
    BY DEF GroupInit, NewGroups
  <2> QED
    BY <2>1, GroupAssumption DEF GroupRow
<1>2. EditorsInv
  <2>1. undone \in BOOLEAN /\ crossed \subseteq Editors /\ activeOnes \subseteq Wallets
    BY DEF GroupInit
  <2>2. groupFaults \in 0 .. MaxGroupFaults
    BY GroupAssumption DEF GroupInit
  <2>3. editor \in [Editors -> EditorAt \cup {NotEditing}]
    BY DEF GroupInit
  <2> QED
    BY <1>1, <2>1, <2>2, <2>3 DEF EditorsInv
<1>3. \A e \in Editors : editor[e].at = "none"
  BY DEF GroupInit, NotEditing
<1>4. RequestsInv
  BY <1>1, <1>3 DEF RequestsInv, SavesAsMeant, ReadAsItIs, StartedIsDeployed, Deploying
<1> QED
  BY <1>2, <1>4

\* The changes the handlers make to a row leave it a row.
LEMMA EditedRows ==
  ASSUME NEW r \in GroupRow
  PROVE  /\ r.terms < MaxTerms => [r EXCEPT !.terms = @ + 1] \in GroupRow
         /\ \A w \in Wallets : [r EXCEPT !.admin = w] \in GroupRow
         /\ [r EXCEPT !.contract = TRUE] \in GroupRow
         /\ [r EXCEPT !.status = "ACTIVE"] \in GroupRow
         /\ [r EXCEPT !.status = "PENDING"] \in GroupRow
         /\ [r EXCEPT !.archived = TRUE] \in GroupRow
<1>1. r.terms < MaxTerms => r.terms + 1 \in 0 .. MaxTerms
  BY GroupAssumption DEF GroupRow
<1> QED
  BY <1>1 DEF GroupRow

LEMMA EditorsKeep == EditorsInv /\ [GroupNext]_groupVars => EditorsInv'
<1> SUFFICES ASSUME EditorsInv, [GroupNext]_groupVars PROVE EditorsInv'
  OBVIOUS
<1> USE DEF EditorsInv
\* A request goes on with a row, and the table keeps its row or gets that of
\* the request.
<1>1. ASSUME NEW e \in Editors, NEW s, NEW r \in GroupRow,
             [at |-> s, row |-> r] \in EditorAt, GoesTo(e, s, r),
             groupRow' \in GroupRow, activeOnes' = activeOnes,
             crossed' \subseteq Editors, undone' \in BOOLEAN,
             groupFaults' \in 0 .. MaxGroupFaults
      PROVE  EditorsInv'
  BY <1>1 DEF GoesTo
<1>2. ASSUME NEW e \in Editors, Answers(e),
             groupRow' \in GroupRow, activeOnes' = activeOnes,
             crossed' \subseteq Editors, undone' \in BOOLEAN,
             groupFaults' \in 0 .. MaxGroupFaults
      PROVE  EditorsInv'
  BY <1>2 DEF Answers
<1>3. \A e \in Editors : editor[e] # NotEditing => editor[e] \in EditorAt /\ editor[e].row \in GroupRow
  BY DEF EditorAt
<1>4. GroupFault => groupFaults' \in 0 .. MaxGroupFaults
  BY GroupAssumption DEF GroupFault
<1>5. /\ UNCHANGED history => crossed' \subseteq Editors /\ undone' \in BOOLEAN
      /\ \A e \in Editors : Overtakes(e) \/ Leaves(e) => crossed' \subseteq Editors
      /\ \A e \in Editors : \A r : SaveGroup(e, r) => groupRow' = r /\ undone' \in BOOLEAN
  BY DEF history, Overtakes, Leaves, SaveGroup
<1>6. ASSUME NEW e \in Editors, UpdateGroup(e) PROVE EditorsInv'
  <2>1. CASE SaveUpdate(e)
    <3>1. editor[e].row \in GroupRow
      BY <1>3, <2>1 DEF SaveUpdate, NotEditing
    <3> QED
      BY <1>2, <1>5, <2>1, <3>1 DEF SaveUpdate
  <2>2. CASE FindForUpdate(e)
    <3>1. PICK r \in GroupRow : GoesTo(e, "update", r)
      BY <2>2, EditedRows DEF FindForUpdate
    <3>2. [at |-> "update", row |-> r] \in EditorAt
      BY DEF EditorAt
    <3> QED
      BY <1>1, <1>5, <2>2, <3>1, <3>2 DEF FindForUpdate
  <2> QED
    BY <1>6, <2>1, <2>2 DEF UpdateGroup
<1>7. ASSUME NEW e \in Editors, ActivateGroup(e) PROVE EditorsInv'
  <2>1. CASE FindForActivation(e)
    <3>1. [at |-> "activate", row |-> [groupRow EXCEPT !.status = "ACTIVE"]] \in EditorAt
      BY EditedRows DEF EditorAt
    <3> QED
      BY <1>1, <1>5, <2>1, <3>1, EditedRows DEF FindForActivation
  <2>2. CASE SaveActivation(e)
    <3>1. editor[e].row \in GroupRow
      BY <1>3, <2>2 DEF SaveActivation, NotEditing
    <3>2. [at |-> "deploy", row |-> editor[e].row] \in EditorAt
      BY <3>1 DEF EditorAt
    <3> QED
      BY <1>1, <1>5, <2>2, <3>1, <3>2 DEF SaveActivation
  <2>3. CASE DeployContract(e) \/ DeploymentIsLost(e)
    <3>1. editor[e].row \in GroupRow
      BY <1>3, <2>3 DEF DeployContract, DeploymentIsLost, NotEditing
    <3>2. /\ [at |-> "deployed", row |-> [editor[e].row EXCEPT !.contract = TRUE]] \in EditorAt
          /\ [at |-> "undeployed", row |-> [editor[e].row EXCEPT !.status = "PENDING"]] \in EditorAt
      BY <3>1, EditedRows DEF EditorAt
    <3> QED
      BY <1>1, <1>4, <1>5, <2>3, <3>1, <3>2, EditedRows
      DEF DeployContract, DeploymentIsLost, Undoes
  <2>4. CASE SaveDeployment(e)
    <3>1. editor[e].row \in GroupRow
      BY <1>3, <2>4 DEF SaveDeployment, NotEditing
    <3> QED
      BY <1>2, <1>5, <2>4, <3>1 DEF SaveDeployment
  <2> QED
    BY <1>7, <2>1, <2>2, <2>3, <2>4 DEF ActivateGroup
<1>8. ASSUME NEW e \in Editors, TransferGroup(e) PROVE EditorsInv'
  <2>1. CASE FindForTransfer(e)
    <3>1. [at |-> "transfer", row |-> groupRow] \in EditorAt
      BY DEF EditorAt
    <3> QED
      BY <1>1, <1>5, <2>1, <3>1 DEF FindForTransfer
  <2>2. CASE TransferAdmin(e)
    <3>1. editor[e].row \in GroupRow
      BY <1>3, <2>2 DEF TransferAdmin, NotEditing
    <3>2. ASSUME NEW w \in activeOnes, SaveGroup(e, [editor[e].row EXCEPT !.admin = w]),
                 Overtakes(e)
          PROVE  EditorsInv'
      <4>1. groupRow' = [editor[e].row EXCEPT !.admin = w] /\ w \in Wallets
        BY <1>5, <3>2
      <4>2. groupRow' \in GroupRow
        BY <3>1, <4>1, EditedRows
      <4> QED
        BY <1>2, <1>5, <2>2, <3>2, <4>2 DEF TransferAdmin
    <3> QED
      BY <1>2, <1>5, <2>2, <3>2 DEF TransferAdmin
  <2> QED
    BY <1>8, <2>1, <2>2 DEF TransferGroup
<1>9. ASSUME NEW e \in Editors, RemoveGroup(e) PROVE EditorsInv'
  <2>1. CASE FindForArchival(e)
    <3>1. [at |-> "archive", row |-> groupRow] \in EditorAt
      BY DEF EditorAt
    <3> QED
      BY <1>1, <1>5, <2>1, <3>1 DEF FindForArchival
  <2>2. CASE SoftDelete(e)
    BY <1>2, <1>5, <2>2, EditedRows DEF SoftDelete
  <2> QED
    BY <1>9, <2>1, <2>2 DEF RemoveGroup
<1>10. ASSUME NEW e \in Editors, UpdateGroupStatus(e) PROVE EditorsInv'
  <2>1. CASE FindForStatus(e)
    <3>1. [at |-> "count", row |-> groupRow] \in EditorAt
      BY DEF EditorAt
    <3> QED
      BY <1>1, <1>5, <2>1, <3>1 DEF FindForStatus
  <2>2. CASE CountMembers(e)
    <3>1. editor[e].row \in GroupRow
      BY <1>3, <2>2 DEF CountMembers, NotEditing
    <3>2. [at |-> "start", row |-> [editor[e].row EXCEPT !.status = "ACTIVE"]] \in EditorAt
      BY <3>1, EditedRows DEF EditorAt
    <3> QED
      BY <1>1, <1>2, <1>5, <2>2, <3>1, <3>2, EditedRows DEF CountMembers
  <2>3. CASE SaveStart(e)
    <3>1. editor[e].row \in GroupRow
      BY <1>3, <2>3 DEF SaveStart, NotEditing
    <3> QED
      BY <1>2, <1>5, <2>3, <3>1 DEF SaveStart
  <2> QED
    BY <1>10, <2>1, <2>2, <2>3 DEF UpdateGroupStatus
<1>11. ASSUME NEW e \in Editors, GroupCrash(e) PROVE EditorsInv'
  <2>1. undone' \in BOOLEAN
    BY <1>11 DEF GroupCrash
  <2> QED
    BY <1>2, <1>4, <1>11, <1>5, <2>1 DEF GroupCrash
<1>12. CASE MembersChange
  BY <1>12 DEF MembersChange, history
<1>13. CASE UNCHANGED groupVars
  BY <1>13 DEF groupVars
<1> QED
  BY <1>6, <1>7, <1>8, <1>9, <1>10, <1>11, <1>12, <1>13 DEF GroupNext

\* What a request writes, the others have not read; what it only reads or
\* decides leaves them as they are.
LEMMA OthersOvertaken ==
  ASSUME EditorsInv, RequestsInv, NEW e \in Editors,
         \A o \in Editors \ {e} : editor'[o] = editor[o],
         \/ Overtakes(e)
         \/ groupRow' = groupRow /\ (Leaves(e) \/ crossed' = crossed)
  PROVE  \A o \in Editors \ {e} : (SavesAsMeant(o) /\ ReadAsItIs(o))'
<1> SUFFICES ASSUME NEW o \in Editors \ {e} PROVE (SavesAsMeant(o) /\ ReadAsItIs(o))'
  OBVIOUS
<1>1. SavesAsMeant(o)'
  BY DEF RequestsInv, SavesAsMeant
<1>2. CASE Overtakes(e)
  <2>1. o \notin crossed' => editor'[o].at = "none"
    BY <1>2 DEF Overtakes, NotEditing
  <2> QED
    BY <1>1, <2>1 DEF ReadAsItIs, Deploying
<1>3. CASE groupRow' = groupRow /\ (Leaves(e) \/ crossed' = crossed)
  <2>1. o \notin crossed' => o \notin crossed
    BY <1>3 DEF Leaves
  <2> QED
    BY <1>1, <1>3, <2>1 DEF RequestsInv, ReadAsItIs
<1> QED
  BY <1>2, <1>3

\* Requests that neither write nor deploy, and archival, leave what runs alone.
LEMMA DeploymentsStay ==
  ASSUME EditorsInv, RequestsInv, NEW e \in Editors,
         \A o \in Editors \ {e} : editor'[o] = editor[o],
         editor[e].at \notin Deploying, editor'[e].at \notin Deploying,
         groupRow'.status = groupRow.status, groupRow'.contract = groupRow.contract,
         undone' = undone
  PROVE  StartedIsDeployed'
<1>1. \A o \in Editors : editor'[o].at \in Deploying <=> editor[o].at \in Deploying
  OBVIOUS
<1> QED
  BY <1>1 DEF RequestsInv, StartedIsDeployed, Deploying

\* A save with nobody deploying is right if what runs has its contract.
LEMMA NobodyDeploys ==
  ASSUME EditorsInv, RequestsInv, NEW e \in Editors,
         \A o \in Editors \ {e} : editor'[o] = editor[o],
         editor'[e].at \notin Deploying,
         undone' \/ (/\ \A o \in Editors \ {e} : editor[o].at \notin Deploying
                     /\ groupRow'.status = "ACTIVE" => groupRow'.contract)
  PROVE  StartedIsDeployed'
BY DEF StartedIsDeployed, Deploying

LEMMA RequestReads ==
  ASSUME EditorsInv, RequestsInv, NEW e \in Editors,
         \/ FindForUpdate(e) \/ FindForActivation(e) \/ FindForTransfer(e)
         \/ FindForArchival(e) \/ FindForStatus(e)
  PROVE  RequestsInv'
<1>1. /\ editor[e] = NotEditing
      /\ groupRow' = groupRow /\ crossed' = crossed /\ undone' = undone
  BY DEF FindForUpdate, FindForActivation, FindForTransfer, FindForArchival, FindForStatus,
         FindAsAdmin, history
<1>2. PICK s, r :
        /\ GoesTo(e, s, r)
        /\ s \in {"update", "activate", "transfer", "archive", "count"}
        /\ s \in {"update", "activate", "count"} => groupRow.status = "PENDING"
        /\ s = "update" => r.status = "PENDING"
        /\ s = "activate" => r.status = "ACTIVE"
        /\ s = "transfer" => r = groupRow
  <2>1. CASE FindForUpdate(e)
    <3>1. groupRow \in GroupRow /\ groupRow.status = "PENDING"
      BY <2>1 DEF FindForUpdate, EditorsInv
    <3>2. /\ [groupRow EXCEPT !.terms = @ + 1].status = "PENDING"
          /\ \A w \in Wallets : [groupRow EXCEPT !.admin = w].status = "PENDING"
          /\ [groupRow EXCEPT !.contract = TRUE].status = "PENDING"
      BY <3>1 DEF GroupRow
    <3>3. \E r : GoesTo(e, "update", r) /\ r.status = "PENDING"
      BY <2>1, <3>2 DEF FindForUpdate
    <3> QED
      BY <3>1, <3>3
  <2>2. CASE FindForActivation(e)
    <3>1. [groupRow EXCEPT !.status = "ACTIVE"].status = "ACTIVE"
      BY DEF EditorsInv, GroupRow
    <3>2. /\ GoesTo(e, "activate", [groupRow EXCEPT !.status = "ACTIVE"])
          /\ groupRow.status = "PENDING"
      BY <2>2 DEF FindForActivation
    <3> DEFINE r0 == [groupRow EXCEPT !.status = "ACTIVE"]
    <3>3. GoesTo(e, "activate", r0) /\ groupRow.status = "PENDING" /\ r0.status = "ACTIVE"
      BY <3>1, <3>2
    <3> HIDE DEF r0
    <3> QED
      BY <3>3
  <2>3. CASE FindForTransfer(e) \/ FindForArchival(e) \/ FindForStatus(e)
    BY <2>3 DEF FindForTransfer, FindForArchival, FindForStatus
  <2> QED
    BY <2>1, <2>2, <2>3
<1>3. editor' = [editor EXCEPT ![e] = [at |-> s, row |-> r]]
  BY <1>2 DEF GoesTo
<1>4. /\ \A o \in Editors \ {e} : editor'[o] = editor[o]
      /\ editor'[e].at = s /\ editor'[e].row = r
  BY <1>3 DEF EditorsInv
<1>5. (SavesAsMeant(e) /\ ReadAsItIs(e))'
  BY <1>1, <1>2, <1>4 DEF SavesAsMeant, ReadAsItIs, Deploying
<1>6. editor[e].at \notin Deploying /\ editor'[e].at \notin Deploying
  BY <1>1, <1>2, <1>4 DEF NotEditing, Deploying
<1>7. StartedIsDeployed'
  BY <1>1, <1>4, <1>6, DeploymentsStay
<1> QED
  BY <1>1, <1>4, <1>5, <1>7, OthersOvertaken DEF RequestsInv

LEMMA RequestDecides ==
  ASSUME EditorsInv, RequestsInv, NEW e \in Editors,
         DeployContract(e) \/ DeploymentIsLost(e) \/ CountMembers(e) \/ GroupCrash(e)
  PROVE  RequestsInv'
<1>1. groupRow' = groupRow /\ (Leaves(e) \/ crossed' = crossed)
  BY DEF DeployContract, DeploymentIsLost, CountMembers, GroupCrash, history
<1>2. /\ \A o \in Editors \ {e} : editor'[o] = editor[o]
      /\ editor[e] # NotEditing => editor[e] \in EditorAt /\ editor[e].row \in GroupRow
  BY DEF DeployContract, DeploymentIsLost, CountMembers, GroupCrash, Undoes, GoesTo, Answers,
         EditorsInv, EditorAt
<1>3. SavesAsMeant(e) /\ ReadAsItIs(e)
  BY DEF RequestsInv
<1>4. CASE DeployContract(e) \/ DeploymentIsLost(e)
  <2>1. editor[e].row \in GroupRow
    BY <1>2, <1>4 DEF DeployContract, DeploymentIsLost, NotEditing
  <2>2. editor[e].at \in Deploying /\ crossed' = crossed /\ undone' = undone
    BY <1>4 DEF DeployContract, DeploymentIsLost, Deploying, history
  <2>3. /\ editor'[e].at \in {"deployed", "undeployed"}
        /\ editor'[e].at = "deployed" => editor'[e].row = [editor[e].row EXCEPT !.contract = TRUE]
                                         /\ editor[e].at = "deploy"
        /\ editor'[e].at = "undeployed" => editor'[e].row = [editor[e].row EXCEPT !.status = "PENDING"]
    <3>1. CASE DeployContract(e) /\ GoesTo(e, "deployed", [editor[e].row EXCEPT !.contract = TRUE])
      BY <3>1 DEF DeployContract, GoesTo, EditorsInv
    <3>2. CASE Undoes(e)
      BY <3>2 DEF Undoes, GoesTo, EditorsInv
    <3> QED
      BY <1>4, <3>1, <3>2 DEF DeployContract, DeploymentIsLost
  <2>4. editor'[e].at = "deployed" => editor'[e].row.contract /\ editor'[e].row.status = "ACTIVE"
    BY <1>3, <2>1, <2>3 DEF SavesAsMeant, GroupRow
  <2>5. editor'[e].at = "undeployed" => editor'[e].row.status = "PENDING"
    BY <2>1, <2>3 DEF GroupRow
  <2>6. (SavesAsMeant(e) /\ ReadAsItIs(e))'
    BY <1>1, <1>3, <2>2, <2>3, <2>4, <2>5 DEF SavesAsMeant, ReadAsItIs, Deploying
  <2>7. \A o \in Editors : editor'[o].at \in Deploying <=> editor[o].at \in Deploying
    BY <1>2, <2>2, <2>3 DEF Deploying
  <2>8. StartedIsDeployed'
    BY <1>1, <2>2, <2>7 DEF RequestsInv, StartedIsDeployed, Deploying
  <2> QED
    BY <1>1, <1>2, <2>6, <2>8, OthersOvertaken DEF RequestsInv
<1>5. CASE CountMembers(e)
  <2>1. editor[e].at = "count" /\ editor[e].row \in GroupRow /\ undone' = undone
    BY <1>2, <1>5 DEF CountMembers, NotEditing
  <2>2. \/ editor'[e] = NotEditing
        \/ /\ editor[e].row.contract /\ crossed' = crossed
           /\ editor'[e] = [at |-> "start", row |-> [editor[e].row EXCEPT !.status = "ACTIVE"]]
    BY <1>5 DEF CountMembers, GoesTo, Answers, EditorsInv
  <2>3. (SavesAsMeant(e) /\ ReadAsItIs(e))' /\ editor'[e].at \in {"none", "start"}
    BY <1>1, <1>3, <2>1, <2>2 DEF SavesAsMeant, ReadAsItIs, Deploying, NotEditing, GroupRow
  <2>4. StartedIsDeployed'
    BY <1>1, <1>2, <2>1, <2>3, DeploymentsStay DEF Deploying
  <2> QED
    BY <1>1, <1>2, <2>3, <2>4, OthersOvertaken DEF RequestsInv
<1>6. CASE GroupCrash(e)
  <2>1. /\ editor'[e].at = "none"
        /\ undone' = (undone \/ editor[e].at \in Deploying)
    BY <1>6 DEF GroupCrash, Answers, EditorsInv, NotEditing
  <2>2. (SavesAsMeant(e) /\ ReadAsItIs(e))'
    BY <2>1 DEF SavesAsMeant, ReadAsItIs, Deploying
  <2>3. StartedIsDeployed'
    <3>1. CASE editor[e].at \in Deploying
      BY <2>1, <3>1 DEF StartedIsDeployed
    <3>2. CASE editor[e].at \notin Deploying
      <4>1. undone' = undone /\ editor'[e].at \notin Deploying
        BY <2>1, <3>2 DEF RequestsInv, EditorsInv, Deploying
      <4> QED
        BY <1>1, <1>2, <3>2, <4>1, DeploymentsStay
    <3> QED
      BY <3>1, <3>2
  <2> QED
    BY <1>1, <1>2, <2>2, <2>3, OthersOvertaken DEF RequestsInv
<1> QED
  BY <1>4, <1>5, <1>6

\* A save of a request that others have overtaken is remembered; any other finds
\* the row as it was read.
LEMMA RequestSaves ==
  ASSUME EditorsInv, RequestsInv, NEW e \in Editors,
         \/ SaveUpdate(e) \/ SaveActivation(e) \/ SaveDeployment(e)
         \/ TransferAdmin(e) \/ SoftDelete(e) \/ SaveStart(e)
  PROVE  RequestsInv'
<1>1. /\ \A o \in Editors \ {e} : editor'[o] = editor[o]
      /\ editor[e] # NotEditing => editor[e] \in EditorAt /\ editor[e].row \in GroupRow
  BY DEF SaveUpdate, SaveActivation, SaveDeployment, TransferAdmin, SoftDelete, SaveStart,
         GoesTo, Answers, EditorsInv, EditorAt
<1>2. SavesAsMeant(e) /\ ReadAsItIs(e) /\ StartedIsDeployed
  BY DEF RequestsInv
\* Nobody else deploys while the group is PENDING, or besides a request that does.
<1>3. ~undone => /\ groupRow.status = "PENDING"
                      => \A o \in Editors : editor[o].at \notin Deploying
                 /\ editor[e].at \in Deploying
                      => \A o \in Editors \ {e} : editor[o].at \notin Deploying
  BY <1>2 DEF StartedIsDeployed, EditorsInv, GroupRow
\* A request that answers saves nothing more.
<1>4. Answers(e) => editor'[e].at = "none" /\ (SavesAsMeant(e) /\ ReadAsItIs(e))'
  BY DEF Answers, EditorsInv, NotEditing, SavesAsMeant, ReadAsItIs, Deploying
<1>5. CASE SaveUpdate(e) \/ SaveStart(e)
  <2>1. /\ Overtakes(e) /\ Answers(e)
        /\ groupRow' = editor[e].row /\ undone' = (undone \/ e \in crossed)
        /\ editor[e].at \in {"update", "start"}
    BY <1>5 DEF SaveUpdate, SaveStart, SaveGroup
  <2>2. ~undone' => groupRow.status = "PENDING"
    BY <1>2, <2>1 DEF ReadAsItIs
  <2>3. groupRow'.status = "ACTIVE" => groupRow'.contract
    BY <1>2, <2>1 DEF SavesAsMeant
  <2>4. undone' \/ \A o \in Editors \ {e} : editor[o].at \notin Deploying
    BY <1>3, <2>1, <2>2
  <2>5. StartedIsDeployed'
    BY <1>1, <1>4, <2>1, <2>3, <2>4, NobodyDeploys DEF Deploying
  <2> QED
    BY <1>1, <1>4, <2>1, <2>5, OthersOvertaken DEF RequestsInv
<1>6. CASE SaveActivation(e)
  <2>1. /\ Overtakes(e) /\ GoesTo(e, "deploy", editor[e].row)
        /\ groupRow' = editor[e].row /\ undone' = (undone \/ e \in crossed)
        /\ editor[e].at = "activate"
    BY <1>6 DEF SaveActivation, SaveGroup
  <2>2. editor'[e] = [at |-> "deploy", row |-> editor[e].row]
    BY <2>1 DEF GoesTo, EditorsInv
  <2>3. groupRow'.status = "ACTIVE"
    BY <1>2, <2>1 DEF SavesAsMeant
  <2>4. (SavesAsMeant(e) /\ ReadAsItIs(e))'
    BY <1>2, <2>1, <2>2, <2>3 DEF SavesAsMeant, ReadAsItIs, Deploying
  <2>5. ~undone' => groupRow.status = "PENDING"
    BY <1>2, <2>1 DEF ReadAsItIs
  <2>6. ~undone' => \A o \in Editors \ {e} : editor'[o].at \notin Deploying
    BY <1>1, <1>3, <2>1, <2>5
  <2>7. editor'[e].at \in Deploying
    BY <2>2 DEF Deploying
  <2>8. StartedIsDeployed'
    BY <2>3, <2>6, <2>7 DEF StartedIsDeployed, Deploying
  <2> QED
    BY <1>1, <2>1, <2>4, <2>8, OthersOvertaken DEF RequestsInv
<1>7. CASE SaveDeployment(e)
  <2>1. /\ Overtakes(e) /\ Answers(e)
        /\ groupRow' = editor[e].row /\ undone' = (undone \/ e \in crossed)
        /\ editor[e].at \in {"deployed", "undeployed"}
    BY <1>7 DEF SaveDeployment, SaveGroup
  <2>2. groupRow'.status = "ACTIVE" => groupRow'.contract
    BY <1>2, <2>1 DEF SavesAsMeant
  <2>3. undone' \/ \A o \in Editors \ {e} : editor[o].at \notin Deploying
    <3>1. editor[e].at \in Deploying
      BY <2>1 DEF Deploying
    <3>2. CASE undone
      BY <2>1, <3>2
    <3>3. CASE ~undone
      BY <1>3, <3>1, <3>3
    <3> QED
      BY <3>2, <3>3
  <2>4. editor'[e].at \notin Deploying
    BY <1>4, <2>1 DEF Deploying
  <2>5. StartedIsDeployed'
    BY <1>1, <2>2, <2>3, <2>4, NobodyDeploys
  <2> QED
    BY <1>1, <1>4, <2>1, <2>5, OthersOvertaken DEF RequestsInv
<1>8. CASE TransferAdmin(e)
  <2>1. Answers(e) /\ editor[e].at = "transfer" /\ editor[e].row \in GroupRow
    BY <1>1, <1>8 DEF TransferAdmin, NotEditing
  <2>2. editor[e].at \notin Deploying /\ editor'[e].at \notin Deploying
    BY <1>4, <2>1 DEF Deploying
  <2>3. CASE UNCHANGED <<groupRow, undone>> /\ Leaves(e)
    <3>1. StartedIsDeployed'
      BY <1>1, <2>2, <2>3, DeploymentsStay
    <3> QED
      BY <1>1, <1>4, <2>1, <2>3, <3>1, OthersOvertaken DEF RequestsInv
  <2>4. CASE (\E w \in activeOnes : SaveGroup(e, [editor[e].row EXCEPT !.admin = w])) /\ Overtakes(e)
    <3>1. /\ groupRow'.status = editor[e].row.status
          /\ groupRow'.contract = editor[e].row.contract
          /\ undone' = (undone \/ e \in crossed)
      BY <2>1, <2>4 DEF SaveGroup, GroupRow
    <3>2. StartedIsDeployed'
      <4>1. CASE undone'
        BY <4>1 DEF StartedIsDeployed
      <4>2. CASE ~undone'
        <5>1. e \notin crossed /\ editor[e].row = groupRow
          BY <1>2, <2>1, <3>1, <4>2 DEF ReadAsItIs
        <5>2. undone' = undone
          BY <3>1, <5>1 DEF EditorsInv
        <5> QED
          BY <1>1, <2>2, <3>1, <5>1, <5>2, DeploymentsStay
      <4> QED
        BY <4>1, <4>2
    <3> QED
      BY <1>1, <1>4, <2>1, <2>4, <3>2, OthersOvertaken DEF RequestsInv
  <2> QED
    BY <1>8, <2>3, <2>4 DEF TransferAdmin
<1>9. CASE SoftDelete(e)
  <2>1. /\ Overtakes(e) /\ Answers(e) /\ editor[e].at = "archive" /\ undone' = undone
        /\ groupRow' = [groupRow EXCEPT !.archived = TRUE]
    BY <1>9 DEF SoftDelete
  <2>2. groupRow'.status = groupRow.status /\ groupRow'.contract = groupRow.contract
    BY <2>1 DEF EditorsInv, GroupRow
  <2>3. StartedIsDeployed'
    BY <1>1, <1>4, <2>1, <2>2, DeploymentsStay DEF Deploying
  <2> QED
    BY <1>1, <1>4, <2>1, <2>3, OthersOvertaken DEF RequestsInv
<1> QED
  BY <1>5, <1>6, <1>7, <1>8, <1>9

LEMMA RequestsKeep == EditorsInv /\ RequestsInv /\ [GroupNext]_groupVars => RequestsInv'
<1> SUFFICES ASSUME EditorsInv, RequestsInv, [GroupNext]_groupVars PROVE RequestsInv'
  OBVIOUS
<1>1. CASE MembersChange
  BY <1>1 DEF MembersChange, history, RequestsInv, SavesAsMeant, ReadAsItIs, StartedIsDeployed,
              Deploying
<1>2. CASE UNCHANGED groupVars
  BY <1>2 DEF groupVars, RequestsInv, SavesAsMeant, ReadAsItIs, StartedIsDeployed, Deploying
<1>3. ASSUME NEW e \in Editors,
             \/ UpdateGroup(e) \/ ActivateGroup(e) \/ TransferGroup(e)
             \/ RemoveGroup(e) \/ UpdateGroupStatus(e) \/ GroupCrash(e)
      PROVE  RequestsInv'
  BY <1>3, RequestReads, RequestDecides, RequestSaves
  DEF UpdateGroup, ActivateGroup, TransferGroup, RemoveGroup, UpdateGroupStatus
<1> QED
  BY <1>1, <1>2, <1>3 DEF GroupNext

\* What one step may do to the row: no request that is not overtaken saves an
\* update over a group that runs, or takes one back but to undo its own start.
LEMMA PendingStep ==
  ASSUME EditorsInv, RequestsInv, [GroupNext]_groupVars,
         NEW e \in Editors, editor[e].at # "none", editor'[e] # editor[e], e \notin crossed
  PROVE  /\ editor[e].at = "update" /\ groupRow' # groupRow => groupRow.status = "PENDING"
         /\ groupRow.status = "ACTIVE" /\ groupRow'.status = "PENDING"
              => editor[e].at = "undeployed"
<1>1. SavesAsMeant(e) /\ ReadAsItIs(e)
  BY DEF RequestsInv
<1>2. editor[e] \in EditorAt /\ editor[e].row \in GroupRow
  BY DEF EditorsInv, EditorAt, NotEditing
<1>3. \/ SaveUpdate(e) \/ SaveActivation(e) \/ SaveDeployment(e) \/ TransferAdmin(e)
      \/ SoftDelete(e) \/ SaveStart(e) \/ groupRow' = groupRow
  <2>1. ASSUME NEW d \in Editors,
               \/ UpdateGroup(d) \/ ActivateGroup(d) \/ TransferGroup(d)
               \/ RemoveGroup(d) \/ UpdateGroupStatus(d) \/ GroupCrash(d)
        PROVE  d = e
    <3>1. \/ Answers(d)
          \/ \E at, r : GoesTo(d, at, r)
      BY <2>1 DEF UpdateGroup, ActivateGroup, TransferGroup, RemoveGroup, UpdateGroupStatus,
             GroupCrash, FindForUpdate, SaveUpdate, FindForActivation, SaveActivation,
             DeployContract, SaveDeployment, DeploymentIsLost, FindForTransfer, TransferAdmin,
             FindForArchival, SoftDelete, FindForStatus, CountMembers, SaveStart, Undoes
    <3> QED
      BY <3>1 DEF Answers, GoesTo, EditorsInv
  <2>2. CASE MembersChange \/ UNCHANGED groupVars
    BY <2>2 DEF MembersChange, groupVars
  <2>3. CASE \E d \in Editors :
               \/ UpdateGroup(d) \/ ActivateGroup(d) \/ TransferGroup(d)
               \/ RemoveGroup(d) \/ UpdateGroupStatus(d) \/ GroupCrash(d)
    <3>1. \/ UpdateGroup(e) \/ ActivateGroup(e) \/ TransferGroup(e)
          \/ RemoveGroup(e) \/ UpdateGroupStatus(e) \/ GroupCrash(e)
      BY <2>1, <2>3
    <3> QED
      BY <3>1 DEF UpdateGroup, ActivateGroup, TransferGroup, RemoveGroup, UpdateGroupStatus,
             GroupCrash, FindForUpdate, FindForActivation, DeployContract, DeploymentIsLost,
             FindForTransfer, FindForArchival, FindForStatus, CountMembers
  <2> QED
    BY <2>2, <2>3 DEF GroupNext
<1>4. editor[e].at = "update" => groupRow.status = "PENDING"
  BY <1>1 DEF ReadAsItIs
<1>5. groupRow.status = "ACTIVE" /\ groupRow'.status = "PENDING" => editor[e].at = "undeployed"
  <2>1. CASE SaveUpdate(e) \/ SaveActivation(e) \/ SaveStart(e) \/ SaveDeployment(e)
    BY <1>1, <2>1 DEF SaveUpdate, SaveActivation, SaveStart, SaveDeployment, SaveGroup,
                      SavesAsMeant, ReadAsItIs
  <2>2. CASE TransferAdmin(e)
    <3>1. editor[e].row = groupRow
      BY <1>1, <2>2 DEF TransferAdmin, ReadAsItIs
    <3>2. \A w : [groupRow EXCEPT !.admin = w].status = groupRow.status
      BY DEF EditorsInv, GroupRow
    <3>3. groupRow' = groupRow \/ \E w : groupRow' = [groupRow EXCEPT !.admin = w]
      BY <2>2, <3>1 DEF TransferAdmin, SaveGroup
    <3> QED
      BY <3>2, <3>3
  <2>3. CASE SoftDelete(e)
    BY <2>3 DEF SoftDelete, EditorsInv, GroupRow
  <2>4. CASE groupRow' = groupRow
    BY <2>4
  <2> QED
    BY <1>3, <2>1, <2>2, <2>3, <2>4
<1> QED
  BY <1>4, <1>5

-----------------------------------------------------------------------------
(* Templates.  A request that has still to count its group keeps a place for *)
(* it: the count of the template, or of a row of it on its way to the table, *)
(* and the requests about to count never exceed the groups made together.    *)

Counting == {r \in Makers : maker[r].at = "count"}
Uncounted == Len(made) - Cardinality(Counting)

Fits(l) == l.max = l.total /\ l.min <= l.max

MakerStates == [at : {"create", "count"}, limits : Limits] \cup Updating \cup {NotMaking}

MakerInv(r) ==
  /\ maker[r].at \in {"create", "count"} => Fits(maker[r].limits)
  /\ maker[r].at = "update" => maker[r].row.usage <= Uncounted
  /\ maker[r] # NotMaking => template # NoTemplate

TemplateInv ==
  /\ template \in Template \cup {NoTemplate}
  /\ made \in Seq(Limits) /\ Len(made) <= MaxMade
  /\ maker \in [Makers -> MakerStates]
  /\ templateFaults \in 0 .. MaxTemplateFaults
  /\ \A r \in Makers : MakerInv(r)
  /\ 0 <= Uncounted /\ (template # NoTemplate => template.usage <= Uncounted)
  /\ \A i \in DOMAIN made : Fits(made[i])

LEMMA CountingFinite == IsFiniteSet(Counting) /\ Cardinality(Counting) \in Nat
<1>1. Counting \subseteq Makers
  BY DEF Counting
<1> QED
  BY <1>1, FS_Subset, FS_CardinalityType, TemplateAssumption

LEMMA TemplatesStart == TemplateInit => TemplateInv
<1> SUFFICES ASSUME TemplateInit PROVE TemplateInv
  OBVIOUS
<1>1. Counting = {}
  BY DEF TemplateInit, Counting, NotMaking
<1>2. Cardinality(Counting) = 0
  BY <1>1, FS_EmptySet
<1>3. Len(made) = 0 /\ made \in Seq(Limits) /\ DOMAIN made = {}
  BY DEF TemplateInit
<1> QED
  BY <1>2, <1>3, TemplateAssumption
  DEF TemplateInit, TemplateInv, MakerInv, MakerStates, Uncounted, NotMaking

\* What createGroup accepts fits: as many places as rounds, and enough of them.
LEMMA AcceptedFits ==
  ASSUME NEW config \in Limits, NEW dto \in Limits,
         Acceptable(MergeTemplateConfig(config, dto))
  PROVE  LET l == WithMax(MergeTemplateConfig(config, dto)) IN l \in Limits /\ Fits(l)
<1> DEFINE l == MergeTemplateConfig(config, dto)
<1>1. l \in Limits
  BY DEF MergeTemplateConfig, Limits
<1>2. WithMax(l) \in Limits
  BY <1>1 DEF WithMax, Limits
<1>3. WithMax(l).total = l.total /\ WithMax(l).min = l.min
  BY <1>1 DEF WithMax, Limits
<1>4. WithMax(l).min \in Nat /\ WithMax(l).max \in Nat
  <2>1. MaybeRounds \subseteq Nat
    BY TemplateAssumption DEF MaybeRounds, NotGiven
  <2> QED
    BY <1>2, <2>1 DEF Limits
<1> QED
  BY <1>2, <1>3, <1>4 DEF Acceptable, Fits

\* A request moves on, and neither templates nor groups nor its place change.
LEMMA MakerMoves ==
  ASSUME TemplateInv, NEW r \in Makers, NEW s \in MakerStates, MakerAt(r, s),
         maker[r].at = "count" <=> s.at = "count",
         made' = made, template' = template, templateFaults' = templateFaults,
         s.at \in {"create", "count"} => Fits(s.limits),
         s.at = "update" => s.row.usage <= Uncounted,
         s # NotMaking => template # NoTemplate
  PROVE  TemplateInv'
<1>1. \A q \in Makers : maker'[q] = IF q = r THEN s ELSE maker[q]
  BY DEF TemplateInv, MakerAt
<1>2. Counting' = Counting
  BY <1>1 DEF Counting
<1>3. Uncounted' = Uncounted
  BY <1>2 DEF Uncounted
<1>4. \A q \in Makers : MakerInv(q)'
  BY <1>1, <1>3 DEF TemplateInv, MakerInv
<1>5. maker' \in [Makers -> MakerStates]
  BY DEF TemplateInv, MakerAt
<1> QED
  BY <1>3, <1>4, <1>5 DEF TemplateInv

LEMMA TemplateKeeps == TemplateInv /\ [TemplateNext]_templateVars => TemplateInv'
<1> SUFFICES ASSUME TemplateInv, [TemplateNext]_templateVars PROVE TemplateInv'
  OBVIOUS
<1>1. ASSUME NEW r \in Makers, CreateFromTemplate(r) PROVE TemplateInv'
  <2>1. PICK dto \in Limits : LET l == MergeTemplateConfig(template.config, dto) IN
          Acceptable(l) /\ MakerAt(r, [at |-> "create", limits |-> WithMax(l)])
    BY <1>1 DEF CreateFromTemplate
  <2>2. template # NoTemplate /\ template \in Template /\ template.config \in Limits
    BY <1>1 DEF CreateFromTemplate, Visible, Found, TemplateInv, Template
  <2> DEFINE w == WithMax(MergeTemplateConfig(template.config, dto))
  <2>3. w \in Limits /\ Fits(w)
    BY <2>1, <2>2, AcceptedFits
  <2>4. [at |-> "create", limits |-> w] \in MakerStates
    BY <2>3 DEF MakerStates
  <2> QED
    BY <1>1, <2>1, <2>2, <2>3, <2>4, MakerMoves DEF CreateFromTemplate, NotMaking
<1>2. ASSUME NEW r \in Makers, SaveNewGroup(r) PROVE TemplateInv'
  <2>1. /\ maker[r].at = "create" /\ Len(made) < MaxMade
        /\ maker[r] \in [at : {"create", "count"}, limits : Limits]
    BY <1>2 DEF SaveNewGroup, TemplateInv, MakerStates, Updating, NotMaking
  <2> DEFINE l == maker[r].limits
             s == [maker[r] EXCEPT !.at = "count"]
  <2>2. l \in Limits /\ Fits(l) /\ template # NoTemplate
    BY <2>1 DEF TemplateInv, MakerInv, NotMaking
  <2>3. s \in MakerStates /\ s.at = "count" /\ s.limits = l
    BY <2>1 DEF MakerStates
  <2>4. made' = Append(made, l) /\ MakerAt(r, s) /\ UNCHANGED <<template, templateFaults>>
    BY <1>2 DEF SaveNewGroup
  <2>5. /\ made' \in Seq(Limits) /\ Len(made') = Len(made) + 1
        /\ \A i \in 1 .. Len(made') : made'[i] = IF i <= Len(made) THEN made[i] ELSE l
    BY <2>2, <2>4 DEF TemplateInv
  <2> HIDE DEF s, l
  <2>6. \A q \in Makers : maker'[q] = IF q = r THEN s ELSE maker[q]
    BY <2>4 DEF TemplateInv, MakerAt
  <2>7. Counting' = Counting \cup {r} /\ r \notin Counting
    BY <2>1, <2>3, <2>6 DEF Counting
  <2>8. Cardinality(Counting') = Cardinality(Counting) + 1
    BY <2>7, CountingFinite, FS_AddElement
  <2>9. Uncounted' = Uncounted
    BY <2>5, <2>8, CountingFinite DEF Uncounted, TemplateInv
  <2>10. \A q \in Makers : MakerInv(q)'
    BY <2>2, <2>3, <2>4, <2>6, <2>9 DEF TemplateInv, MakerInv
  <2>11. maker' \in [Makers -> MakerStates]
    BY <2>3, <2>4 DEF TemplateInv, MakerAt
  <2>12. \A i \in DOMAIN made' : Fits(made'[i])
    BY <2>2, <2>5 DEF TemplateInv
  <2>13. Len(made') <= MaxMade
    BY <2>1, <2>5, TemplateAssumption DEF TemplateInv
  <2> QED
    BY <2>4, <2>5, <2>9, <2>10, <2>11, <2>12, <2>13 DEF TemplateInv
<1>3. ASSUME NEW r \in Makers, IncrementUsageCount(r) PROVE TemplateInv'
  <2>1. /\ maker[r].at = "count" /\ maker[r] # NotMaking /\ template # NoTemplate
        /\ template \in Template /\ template.usage \in Nat /\ Len(made) \in Nat
    BY <1>3 DEF IncrementUsageCount, TemplateInv, MakerInv, NotMaking, Template
  <2>2. \A q \in Makers : maker'[q] = IF q = r THEN NotMaking ELSE maker[q]
    BY <1>3 DEF IncrementUsageCount, TemplateInv, MakerAt
  <2>3. Counting' = Counting \ {r} /\ r \in Counting
    BY <2>1, <2>2 DEF Counting, NotMaking
  <2>4. Cardinality(Counting') = Cardinality(Counting) - 1
    BY <2>3, CountingFinite, FS_RemoveElement
  <2>5. Uncounted' = Uncounted + 1 /\ Uncounted \in Int /\ Uncounted + 1 <= Len(made)
    <3>1. Cardinality(Counting') \in Nat
      BY <2>3, CountingFinite, FS_RemoveElement, FS_CardinalityType
    <3> QED
      BY <1>3, <2>1, <2>4, <3>1, CountingFinite DEF Uncounted, IncrementUsageCount
  <2>6. maker' \in [Makers -> MakerStates]
    BY <1>3 DEF IncrementUsageCount, TemplateInv, MakerAt, MakerStates
  <2>7. /\ template' \in Template /\ template' # NoTemplate /\ template'.usage <= Uncounted'
        /\ templateFaults' \in 0 .. MaxTemplateFaults
    <3>1. CASE template' = [template EXCEPT !.usage = @ + 1] /\ UNCHANGED templateFaults
      <4>1. template.usage + 1 \in 0 .. MaxMade
        BY <2>1, <2>5, TemplateAssumption DEF TemplateInv
      <4> QED
        BY <2>1, <2>5, <3>1, <4>1 DEF TemplateInv, Template, NoTemplate
    <3>2. CASE templateFaults < MaxTemplateFaults /\ templateFaults' = templateFaults + 1 /\ UNCHANGED template
      BY <2>1, <2>5, <3>2, TemplateAssumption DEF TemplateInv
    <3> QED
      BY <1>3, <3>1, <3>2 DEF IncrementUsageCount
  <2>8. made' = made
    BY <1>3 DEF IncrementUsageCount
  <2>9. \A q \in Makers : MakerInv(q)'
    <3>1. SUFFICES ASSUME NEW q \in Makers, q # r PROVE MakerInv(q)'
      BY <2>2 DEF MakerInv, NotMaking
    <3>2. maker'[q] = maker[q] /\ MakerInv(q)
      BY <2>2, <3>1 DEF TemplateInv
    <3>3. maker[q].at = "update" => maker[q].row.usage \in Nat
      BY <3>1 DEF TemplateInv, MakerStates, Updating, Template, NotMaking
    <3> QED
      BY <2>5, <2>7, <3>2, <3>3 DEF MakerInv
  <2> QED
    BY <2>5, <2>6, <2>7, <2>8, <2>9 DEF TemplateInv
<1>4. ASSUME NEW r \in Makers, CreateTemplate(r) PROVE TemplateInv'
  <2>1. PICK owner \in Owners, public \in BOOLEAN, config \in Limits :
          template' = [owner |-> owner, public |-> public, config |-> config,
                       usage |-> 0, deleted |-> FALSE]
    BY <1>4 DEF CreateTemplate
  <2>2. template' \in Template /\ template'.usage = 0
    BY <2>1, TemplateAssumption DEF Template
  <2>3. UNCHANGED <<made, maker, templateFaults>>
    BY <1>4 DEF CreateTemplate
  <2>4. Counting' = Counting
    BY <2>3 DEF Counting
  <2>5. Uncounted' = Uncounted
    BY <2>3, <2>4 DEF Uncounted
  <2>6. template' # NoTemplate
    BY <2>1 DEF NoTemplate
  <2>7. \A q \in Makers : MakerInv(q)'
    BY <2>3, <2>5, <2>6 DEF TemplateInv, MakerInv
  <2> QED
    BY <2>2, <2>3, <2>5, <2>7 DEF TemplateInv
<1>5. ASSUME NEW r \in Makers, FindTemplateForUpdate(r) \/ FindTemplateForDelete(r) PROVE TemplateInv'
  <2>1. maker[r] = NotMaking /\ template \in Template /\ template # NoTemplate
    BY <1>5 DEF FindTemplateForUpdate, FindTemplateForDelete, Found, TemplateInv
  <2>2. PICK s \in Updating : s.row.usage = template.usage /\ MakerAt(r, s)
    <3>1. CASE FindTemplateForUpdate(r)
      <4>1. PICK public \in BOOLEAN, rounds \in TemplateRounds :
              MakerAt(r, [at |-> "update", row |-> EditedTemplate(public, rounds)])
        BY <3>1 DEF FindTemplateForUpdate
      <4> DEFINE c == [template.config EXCEPT !.total = rounds]
                 t == EditedTemplate(public, rounds)
      <4>2. c \in Limits
        BY <2>1 DEF Template, Limits, MaybeRounds
      <4>3. t \in Template /\ t.usage = template.usage
        BY <2>1, <4>2 DEF Template, EditedTemplate
      <4>4. [at |-> "update", row |-> t] \in Updating
        BY <4>3 DEF Updating
      <4> QED
        BY <4>1, <4>3, <4>4
    <3>2. CASE FindTemplateForDelete(r)
      <4>1. [at |-> "delete", row |-> template] \in Updating
        BY <2>1 DEF Updating
      <4> QED
        BY <3>2, <4>1 DEF FindTemplateForDelete
    <3> QED
      BY <1>5, <3>1, <3>2
  <2>3. s \in MakerStates /\ s.at \in {"update", "delete"}
    BY <2>2 DEF MakerStates, Updating
  <2>4. UNCHANGED <<template, made, templateFaults>>
    BY <1>5 DEF FindTemplateForUpdate, FindTemplateForDelete
  <2>5. s.row.usage <= Uncounted
    BY <2>1, <2>2 DEF TemplateInv
  <2> QED
    BY <2>1, <2>2, <2>3, <2>4, <2>5, MakerMoves DEF NotMaking
<1>6. ASSUME NEW r \in Makers, UpdateTemplate(r) \/ DeleteTemplate(r) PROVE TemplateInv'
  <2>1. /\ maker[r] \in Updating /\ template \in Template
        /\ MakerAt(r, NotMaking) /\ UNCHANGED <<made, templateFaults>>
    BY <1>6 DEF UpdateTemplate, DeleteTemplate, TemplateInv, MakerInv, MakerStates, NotMaking
  <2>2. \A q \in Makers : maker'[q] = IF q = r THEN NotMaking ELSE maker[q]
    BY <2>1 DEF TemplateInv, MakerAt
  <2>3. Counting' = Counting
    BY <1>6, <2>1, <2>2 DEF Counting, NotMaking, UpdateTemplate, DeleteTemplate
  <2>4. Uncounted' = Uncounted
    BY <2>1, <2>3 DEF Uncounted
  <2>5. template' \in Template /\ template'.usage <= Uncounted
    <3>1. CASE UpdateTemplate(r)
      BY <2>1, <3>1 DEF UpdateTemplate, TemplateInv, MakerInv, Updating
    <3>2. CASE DeleteTemplate(r)
      <4>1. template # NoTemplate
        BY <2>1, <3>2 DEF DeleteTemplate, TemplateInv, MakerInv, NotMaking
      <4> QED
        BY <2>1, <3>2, <4>1 DEF DeleteTemplate, TemplateInv, Template
    <3> QED
      BY <1>6, <3>1, <3>2
  <2>6. template' # NoTemplate
    <3>1. \A o \in Owners : TRUE
      OBVIOUS
    <3> QED
      BY <2>5 DEF Template, NoTemplate
  <2>7. \A q \in Makers : MakerInv(q)'
    BY <2>2, <2>4, <2>6 DEF TemplateInv, MakerInv, NotMaking
  <2>8. maker' \in [Makers -> MakerStates]
    BY <2>1 DEF TemplateInv, MakerAt, MakerStates
  <2> QED
    BY <2>1, <2>4, <2>5, <2>7, <2>8 DEF TemplateInv
<1>7. CASE UNCHANGED templateVars
  <2>1. Counting' = Counting
    BY <1>7 DEF templateVars, Counting
  <2>2. Uncounted' = Uncounted
    BY <1>7, <2>1 DEF templateVars, Uncounted
  <2>3. \A q \in Makers : MakerInv(q)'
    BY <1>7, <2>2 DEF templateVars, TemplateInv, MakerInv
  <2> QED
    BY <1>7, <2>2, <2>3 DEF templateVars, TemplateInv
<1> QED
  BY <1>1, <1>2, <1>3, <1>4, <1>5, <1>6, <1>7
  DEF TemplateNext, CreateGroup, TemplateRequest, PatchTemplate, RemoveTemplate

LEMMA TemplatesAreReal == TemplateInv => TemplateTypeOK /\ GroupsFitTheirRounds /\ UsageIsReal
<1> SUFFICES ASSUME TemplateInv PROVE TemplateTypeOK /\ GroupsFitTheirRounds /\ UsageIsReal
  OBVIOUS
<1>1. \A r \in Makers : maker[r] \in Making \cup Updating \cup {NotMaking}
  BY DEF TemplateInv, MakerStates, Making
<1>2. TemplateTypeOK
  BY <1>1 DEF TemplateInv, TemplateTypeOK
<1>3. template # NoTemplate => template.usage <= Len(made)
  <2>1. template # NoTemplate => template.usage \in Nat
    BY DEF TemplateInv, Template
  <2> QED
    BY <2>1, CountingFinite DEF TemplateInv, Uncounted
<1> QED
  BY <1>2, <1>3 DEF TemplateInv, GroupsFitTheirRounds, UsageIsReal, Fits

-----------------------------------------------------------------------------
(* The standing of members.  A row nobody has written since it was read is   *)
(* the row of the table; so a save loses something only of a member whose    *)
(* row was changed in between, which is what overlapped remembers, and while *)
(* nothing was lost and nobody was away the flags say who has contributed.   *)

Holding(r) == standing[r].at \in {"payout", "suspend", "reinstate"}

StandingRequestStates ==
  [at : {"none", "payout", "suspend", "reinstate", "done"},
   member : GroupMembers \cup {"nobody"}, seen : MemberRows]

StandingTypes ==
  /\ turn \in 1 .. StandingRounds + 1
  /\ rows \in [GroupMembers -> MemberRows]
  /\ standing \in [StandingRequests -> StandingRequestStates]
  /\ gave \subseteq GroupMembers
  /\ recorded \in [GroupMembers -> 0 .. 2]
  /\ overlapped \subseteq GroupMembers /\ away \subseteq GroupMembers
  /\ short \in BOOLEAN
  /\ \A r \in StandingRequests : Holding(r) => standing[r].member \in GroupMembers

SeenIsCurrent ==
  \A r \in StandingRequests : Holding(r) /\ standing[r].member \notin overlapped
    => standing[r].seen = rows[standing[r].member]

PayoutsAreDue ==
  \A r \in StandingRequests : standing[r].at = "payout" => ~standing[r].seen.received

FlagsAreEarned ==
  overlapped = {} /\ away = {} /\ IsActive
    => \A m \in GroupMembers : rows[m].paid => m \in gave

StandingInv ==
  /\ StandingTypes /\ SeenIsCurrent /\ PayoutsAreDue /\ FlagsAreEarned
  /\ PayoutsAreKept /\ ShortRoundsHaveACause

LEMMA StandingStarts == StandingInit => StandingInv
<1> SUFFICES ASSUME StandingInit PROVE StandingInv
  OBVIOUS
<1>1. NoRow \in MemberRows /\ NoRequest \in StandingRequestStates /\ NoRequest.at = "none"
  BY DEF NoRow, MemberRows, NoRequest, StandingRequestStates
<1>2. \A r \in StandingRequests : standing[r].at = "none"
  BY <1>1 DEF StandingInit
<1>3. 1 \in 1 .. StandingRounds + 1
  BY StandingAssumption
<1>4. StandingTypes
  <2>1. rows \in [GroupMembers -> MemberRows]
    BY <1>1 DEF StandingInit
  <2>2. standing \in [StandingRequests -> StandingRequestStates]
    BY <1>1 DEF StandingInit
  <2>3. recorded \in [GroupMembers -> 0 .. 2]
    BY DEF StandingInit
  <2>4. turn \in 1 .. StandingRounds + 1 /\ gave = {} /\ overlapped = {} /\ away = {} /\ short = FALSE
    BY <1>3 DEF StandingInit
  <2>5. \A r \in StandingRequests : ~Holding(r)
    BY <1>2 DEF Holding
  <2> QED
    BY <2>1, <2>2, <2>3, <2>4, <2>5 DEF StandingTypes
<1> QED
  BY <1>2, <1>4
  DEF StandingInit, StandingInv, SeenIsCurrent, PayoutsAreDue, FlagsAreEarned, Holding, NoRow,
      PayoutsAreKept, ShortRoundsHaveACause

LEMMA FindKeeps ==
  ASSUME StandingInv, NEW r \in StandingRequests, NEW m \in GroupMembers,
         NEW what \in {"payout", "suspend", "reinstate"}, Find(r, m, what),
         what = "payout" => ~rows[m].received
  PROVE  StandingInv'
<1> DEFINE s == [at |-> what, member |-> m, seen |-> rows[m]]
<1>1. s \in StandingRequestStates
  BY DEF StandingInv, StandingTypes, StandingRequestStates
<1>2. /\ standing' = [standing EXCEPT ![r] = s]
      /\ UNCHANGED <<turn, rows, gave, recorded, overlapped, away, short>>
  BY DEF Find
<1>3. standing \in [StandingRequests -> StandingRequestStates]
  BY DEF StandingInv, StandingTypes
<1>4. \A q \in StandingRequests : standing'[q] = IF q = r THEN s ELSE standing[q]
  BY <1>2, <1>3
<1>5. StandingTypes'
  BY <1>1, <1>2, <1>3, <1>4 DEF StandingInv, StandingTypes, Holding
<1>6. SeenIsCurrent' /\ PayoutsAreDue'
  BY <1>2, <1>4 DEF StandingInv, SeenIsCurrent, PayoutsAreDue, Holding
<1> QED
  BY <1>2, <1>5, <1>6
  DEF StandingInv, FlagsAreEarned, PayoutsAreKept, ShortRoundsHaveACause, IsActive

LEMMA HeldOnes ==
  ASSUME StandingTypes, NEW R \in SUBSET StandingRequests, NEW r \in R, Holding(r)
  PROVE  standing[r].member \in Held(R)
BY DEF Held, Holding

LEMMA SaveKeepsStanding ==
  ASSUME StandingInv, NEW r \in StandingRequests, Save(r)
  PROVE  StandingInv'
<1> DEFINE q == standing[r]
           n == q.member
           saved == CASE q.at = "payout"    -> [q.seen EXCEPT !.received = TRUE]
                    [] q.at = "suspend"   -> [q.seen EXCEPT !.suspended = TRUE]
                    [] q.at = "reinstate" -> [q.seen EXCEPT !.suspended = FALSE]
<1>1. /\ Holding(r) /\ n \in GroupMembers /\ q \in StandingRequestStates /\ q.seen \in MemberRows
      /\ standing \in [StandingRequests -> StandingRequestStates]
      /\ rows \in [GroupMembers -> MemberRows] /\ recorded \in [GroupMembers -> 0 .. 2]
  BY DEF Save, Holding, StandingInv, StandingTypes, StandingRequestStates
<1>2. /\ rows' = [rows EXCEPT ![n] = saved]
      /\ standing' = [standing EXCEPT ![r].at = "done"]
      /\ recorded' = IF q.at = "payout" /\ recorded[n] < 2
                     THEN [recorded EXCEPT ![n] = @ + 1] ELSE recorded
      /\ overlapped' = overlapped \cup ({n} \cap Held(StandingRequests \ {r}))
      /\ UNCHANGED <<turn, gave, away, short>>
  BY DEF Save
<1>3. /\ saved \in MemberRows /\ saved.paid = q.seen.paid
      /\ saved.received = (q.seen.received \/ q.at = "payout")
  BY <1>1 DEF Holding, MemberRows
<1> HIDE DEF saved
<1>4. \A m \in GroupMembers : rows'[m] = IF m = n THEN saved ELSE rows[m]
  BY <1>1, <1>2
<1>5. /\ standing'[r].at = "done" /\ standing' \in [StandingRequests -> StandingRequestStates]
      /\ \A p \in StandingRequests : p # r => standing'[p] = standing[p]
  BY <1>1, <1>2 DEF StandingRequestStates
<1>6. \A m \in GroupMembers : recorded'[m] \in 0 .. 2 /\
        recorded'[m] = IF m = n /\ q.at = "payout" /\ recorded[n] < 2 THEN recorded[m] + 1 ELSE recorded[m]
  BY <1>1, <1>2
<1>7. recorded' \in [GroupMembers -> 0 .. 2]
  <2>1. recorded[n] < 2 => recorded[n] + 1 \in 0 .. 2
    BY <1>1
  <2> QED
    BY <1>1, <1>2, <2>1
<1>8. StandingTypes'
  <2>1. rows' \in [GroupMembers -> MemberRows]
    BY <1>1, <1>2, <1>3
  <2>2. overlapped' \subseteq GroupMembers
    BY <1>1, <1>2 DEF StandingInv, StandingTypes
  <2>3. \A p \in StandingRequests : Holding(p)' => standing'[p].member \in GroupMembers
    BY <1>5 DEF StandingInv, StandingTypes, Holding
  <2> QED
    BY <1>2, <1>5, <1>7, <2>1, <2>2, <2>3 DEF StandingInv, StandingTypes
<1>9. \A p \in StandingRequests : p # r /\ Holding(p) /\ standing[p].member = n => n \in overlapped'
  <2> SUFFICES ASSUME NEW p \in StandingRequests, p # r, Holding(p), standing[p].member = n
               PROVE  n \in overlapped'
    OBVIOUS
  <2>1. n \in Held(StandingRequests \ {r})
    BY HeldOnes DEF StandingInv
  <2> QED
    BY <1>2, <2>1
<1>10. SeenIsCurrent'
  <2> SUFFICES ASSUME NEW p \in StandingRequests, Holding(p)', standing'[p].member \notin overlapped'
               PROVE  standing'[p].seen = rows'[standing'[p].member]
    BY DEF SeenIsCurrent
  <2>1. p # r /\ standing'[p] = standing[p] /\ Holding(p)
    BY <1>5 DEF Holding
  <2>2. standing[p].member # n /\ standing[p].member \in GroupMembers /\ standing[p].member \notin overlapped
    BY <1>2, <1>9, <2>1 DEF StandingInv, StandingTypes
  <2> QED
    BY <1>4, <2>1, <2>2 DEF StandingInv, SeenIsCurrent
<1>11. PayoutsAreDue'
  BY <1>5 DEF StandingInv, PayoutsAreDue
<1>12. n \notin overlapped => q.seen = rows[n]
  BY <1>1 DEF StandingInv, SeenIsCurrent
<1>13. PayoutsAreKept'
  <2> SUFFICES ASSUME NEW m \in GroupMembers, m \notin overlapped'
               PROVE  recorded'[m] <= 1 /\ (rows'[m].received <=> recorded'[m] = 1)
    BY DEF PayoutsAreKept
  <2>1. m \notin overlapped
    BY <1>2
  <2>2. recorded[m] <= 1 /\ (rows[m].received <=> recorded[m] = 1) /\ recorded[m] \in 0 .. 2
    BY <1>1, <2>1 DEF StandingInv, PayoutsAreKept
  <2>3. CASE m # n
    BY <1>4, <1>6, <2>2, <2>3
  <2>4. CASE m = n /\ q.at = "payout"
    <3>1. ~rows[n].received /\ rows'[n].received
      BY <1>1, <1>3, <1>4, <1>12, <2>1, <2>4 DEF StandingInv, PayoutsAreDue
    <3> QED
      BY <1>6, <2>2, <2>4, <3>1
  <2>5. CASE m = n /\ q.at # "payout"
    <3>1. rows'[n].received = rows[n].received
      BY <1>1, <1>3, <1>4, <1>12, <2>1, <2>5 DEF MemberRows
    <3> QED
      BY <1>6, <2>2, <2>5, <3>1
  <2> QED
    BY <2>3, <2>4, <2>5
<1>14. FlagsAreEarned'
  <2> SUFFICES ASSUME overlapped' = {}, away' = {}, IsActive', NEW m \in GroupMembers, rows'[m].paid
               PROVE  m \in gave'
    BY DEF FlagsAreEarned
  <2>1. overlapped = {} /\ away = {} /\ IsActive
    BY <1>2 DEF IsActive
  <2>2. rows[m].paid
    BY <1>3, <1>4, <1>12, <2>1
  <2> QED
    BY <1>2, <2>1, <2>2 DEF StandingInv, FlagsAreEarned
<1>15. ShortRoundsHaveACause'
  BY <1>2 DEF StandingInv, ShortRoundsHaveACause
<1> QED
  BY <1>8, <1>10, <1>11, <1>13, <1>14, <1>15 DEF StandingInv

LEMMA ContributionKeeps ==
  ASSUME StandingInv, NEW m \in GroupMembers, Contribution(m)
  PROVE  StandingInv'
<1>1. /\ gave' = gave \cup {m}
      /\ rows' = [rows EXCEPT ![m].paid = TRUE]
      /\ overlapped' = overlapped \cup ({m} \cap Held(StandingRequests))
      /\ UNCHANGED <<turn, standing, recorded, away, short>>
  BY DEF Contribution
<1>2. rows \in [GroupMembers -> MemberRows] /\ overlapped \subseteq GroupMembers
  BY DEF StandingInv, StandingTypes
<1>3. \A n \in GroupMembers :
        /\ rows'[n].received = rows[n].received
        /\ n # m => rows'[n] = rows[n]
  BY <1>1, <1>2 DEF MemberRows
<1>4. rows' \in [GroupMembers -> MemberRows]
  BY <1>1, <1>2 DEF MemberRows
<1>5. StandingTypes'
  BY <1>1, <1>2, <1>4 DEF StandingInv, StandingTypes, Holding
<1>6. SeenIsCurrent'
  <2> SUFFICES ASSUME NEW p \in StandingRequests, Holding(p), standing[p].member \notin overlapped'
               PROVE  standing[p].seen = rows'[standing[p].member]
    BY <1>1 DEF SeenIsCurrent, Holding
  <2>1. standing[p].member \in Held(StandingRequests)
    BY HeldOnes DEF StandingInv
  <2>2. standing[p].member # m /\ standing[p].member \in GroupMembers /\ standing[p].member \notin overlapped
    BY <1>1, <2>1 DEF StandingInv, StandingTypes
  <2> QED
    BY <1>3, <2>2 DEF StandingInv, SeenIsCurrent
<1>7. PayoutsAreDue'
  BY <1>1 DEF StandingInv, PayoutsAreDue
<1>8. FlagsAreEarned'
  BY <1>1, <1>3 DEF StandingInv, FlagsAreEarned, IsActive
<1>9. PayoutsAreKept'
  BY <1>1, <1>3 DEF StandingInv, PayoutsAreKept
<1>10. ShortRoundsHaveACause'
  BY <1>1 DEF StandingInv, ShortRoundsHaveACause
<1> QED
  BY <1>5, <1>6, <1>7, <1>8, <1>9, <1>10 DEF StandingInv

LEMMA CloseRoundKeeps ==
  ASSUME StandingInv, CloseRound
  PROVE  StandingInv'
<1>1. /\ turn' = turn + 1 /\ IsActive
      /\ gave' = {}
      /\ short' = (short \/ ~ActiveMembers \subseteq gave)
      /\ away' = away \cup (GroupMembers \ ActiveMembers)
      /\ overlapped' = overlapped \cup Held(StandingRequests)
      /\ UNCHANGED <<standing, recorded>>
      /\ \A m \in ActiveMembers : rows[m].paid
  BY DEF CloseRound
<1>2. rows \in [GroupMembers -> MemberRows] /\ overlapped \subseteq GroupMembers
  BY DEF StandingInv, StandingTypes
<1>3. /\ rows' \in [GroupMembers -> MemberRows]
      /\ \A m \in GroupMembers :
           /\ rows'[m].received = rows[m].received
           /\ turn # StandingRounds /\ m \in ActiveMembers => ~rows'[m].paid
  <2>1. CASE turn = StandingRounds
    BY <1>2, <2>1 DEF CloseRound
  <2>2. CASE turn # StandingRounds
    <3>1. rows' = [m \in GroupMembers |-> IF m \in ActiveMembers THEN [rows[m] EXCEPT !.paid = FALSE]
                                                                 ELSE rows[m]]
      BY <2>2 DEF CloseRound
    <3>2. \A m \in GroupMembers : /\ [rows[m] EXCEPT !.paid = FALSE] \in MemberRows
                                  /\ [rows[m] EXCEPT !.paid = FALSE].received = rows[m].received
                                  /\ [rows[m] EXCEPT !.paid = FALSE].paid = FALSE
      BY <1>2 DEF MemberRows
    <3> QED
      BY <1>2, <3>1, <3>2
  <2> QED
    BY <2>1, <2>2
<1>4. turn \in Nat /\ StandingRounds \in Nat /\ turn' \in 1 .. StandingRounds + 1
  BY <1>1, StandingAssumption DEF StandingInv, StandingTypes, IsActive
<1>5. Held(StandingRequests) \subseteq GroupMembers
  <2> SUFFICES ASSUME NEW p \in StandingRequests, standing[p].at \notin {"none", "done"}
               PROVE  standing[p].member \in GroupMembers
    BY DEF Held
  <2>1. Holding(p)
    BY DEF Holding, StandingInv, StandingTypes, StandingRequestStates
  <2> QED
    BY <2>1 DEF StandingInv, StandingTypes
<1>6. StandingTypes'
  <2>1. standing' \in [StandingRequests -> StandingRequestStates] /\ gave' \subseteq GroupMembers
        /\ recorded' \in [GroupMembers -> 0 .. 2] /\ overlapped' \subseteq GroupMembers
        /\ away' \subseteq GroupMembers /\ short' \in BOOLEAN
    BY <1>1, <1>2, <1>5 DEF StandingInv, StandingTypes
  <2>2. \A r \in StandingRequests : Holding(r)' => standing'[r].member \in GroupMembers
    BY <1>1 DEF StandingInv, StandingTypes, Holding
  <2> QED
    BY <1>3, <1>4, <2>1, <2>2 DEF StandingTypes
<1>7. SeenIsCurrent'
  <2> SUFFICES ASSUME NEW p \in StandingRequests, Holding(p), standing[p].member \notin overlapped'
               PROVE  FALSE
    BY <1>1 DEF SeenIsCurrent, Holding
  <2>1. standing[p].member \in Held(StandingRequests)
    BY HeldOnes DEF StandingInv
  <2> QED
    BY <1>1, <2>1
<1>8. PayoutsAreDue'
  BY <1>1 DEF StandingInv, PayoutsAreDue
<1>9. FlagsAreEarned'
  <2> SUFFICES ASSUME away' = {}, IsActive', NEW m \in GroupMembers
               PROVE  ~rows'[m].paid
    BY DEF FlagsAreEarned
  <2>1. turn # StandingRounds
    BY <1>1, <1>4 DEF IsActive
  <2>2. m \in ActiveMembers
    BY <1>1
  <2> QED
    BY <1>3, <2>1, <2>2
<1>10. PayoutsAreKept'
  BY <1>1, <1>3 DEF StandingInv, PayoutsAreKept
<1>11. ShortRoundsHaveACause'
  <2> SUFFICES ASSUME short', overlapped' = {}, away' = {} PROVE FALSE
    BY DEF ShortRoundsHaveACause
  <2>1. overlapped = {} /\ away = {} /\ ~short
    BY <1>1 DEF StandingInv, ShortRoundsHaveACause
  <2>2. PICK m \in ActiveMembers : m \notin gave
    BY <1>1, <2>1
  <2>3. m \in GroupMembers /\ rows[m].paid
    BY <1>1 DEF ActiveMembers
  <2> QED
    BY <1>1, <2>1, <2>2, <2>3 DEF StandingInv, FlagsAreEarned
<1> QED
  BY <1>6, <1>7, <1>8, <1>9, <1>10, <1>11 DEF StandingInv

LEMMA StandingKeeps == StandingInv /\ [StandingNext]_standingVars => StandingInv'
<1> SUFFICES ASSUME StandingInv, [StandingNext]_standingVars PROVE StandingInv'
  OBVIOUS
<1>1. ASSUME NEW r \in StandingRequests, NEW m \in GroupMembers, StandingRequest(r, m)
      PROVE  StandingInv'
  BY <1>1, FindKeeps DEF StandingRequest, FindForPayout, FindForSuspension, FindForReinstatement
<1>2. CASE UNCHANGED standingVars
  BY <1>2
  DEF standingVars, StandingInv, StandingTypes, SeenIsCurrent, PayoutsAreDue, FlagsAreEarned,
      PayoutsAreKept, ShortRoundsHaveACause, Holding, IsActive
<1> QED
  BY <1>1, <1>2, SaveKeepsStanding, ContributionKeeps, CloseRoundKeeps DEF StandingNext

LEMMA StandingIsTyped == StandingInv => StandingTypeOK
BY DEF StandingInv, StandingTypes, StandingTypeOK, StandingRequestStates

-----------------------------------------------------------------------------
(***************************************************************************)
(* NobodyIsLetOff, for any number of members, servers, rounds, errors and  *)
(* requests.  It is not inductive: what carries it is that an assessment   *)
(* under way has dealt with everybody it no longer has before it, in the   *)
(* round it has read, and that rows are kept and stay the same member's.   *)
(***************************************************************************)
Discharged(m, r) == <<m, r>> \in contributed \/ Owing(m, r) # {}

Underway(a) ==
  /\ assessing[a] \in Assessments
  /\ assessing[a].at \in {"next", "notify"} => assessing[a].current = {}
  /\ \A m, n \in assessing[a].current : m = n
  /\ \A m \in Debtors \ (assessing[a].left \cup assessing[a].current) :
       Discharged(m, assessing[a].round)

PenaltyInv ==
  /\ dueRound \in DueRounds
  /\ penalty \in [PenaltyIds -> Penalties \cup {NoPenalty}]
  /\ assessing \in [Assessors -> Assessments \cup {NotAssessing}]
  /\ clerk \in [Clerks -> Verdicts \cup {AtRest}]
  /\ \A c \in Clerks : clerk[c] # AtRest => penalty[clerk[c].id] # NoPenalty
  /\ \A a \in Assessors : assessing[a] # NotAssessing => Underway(a)
  /\ assessed \subseteq DueRounds
  /\ NobodyIsLetOff

\* What was paid or charged stays so: contributions are only added, and a row
\* of penalties keeps its member and its round.
LedgerKept ==
  /\ contributed \subseteq contributed'
  /\ \A p \in PenaltyIds : penalty[p] # NoPenalty =>
       /\ penalty'[p] # NoPenalty
       /\ penalty'[p].user = penalty[p].user
       /\ penalty'[p].round = penalty[p].round

\* Whoever has contributed or been charged for a round has for good.
LEMMA DischargedStays ==
  ASSUME LedgerKept, NEW m, NEW r, Discharged(m, r)
  PROVE  Discharged(m, r)'
  BY DEF LedgerKept, Discharged, Owing

\* An assessment that did not move in this step has still dealt with the same
\* members.
LEMMA UnderwayStays ==
  ASSUME LedgerKept, NEW a, Underway(a), assessing'[a] = assessing[a]
  PROVE  Underway(a)'
<1>1. \A m \in Debtors \ (assessing[a].left \cup assessing[a].current) :
        Discharged(m, assessing[a].round)'
  BY DischargedStays DEF Underway
<1> QED BY <1>1 DEF Underway, Discharged, Owing

\* The two kinds of values that say "nothing" are not the rows they stand for.
LEMMA NothingIsNoRow ==
  /\ NoPenalty \notin Penalties
  /\ AtRest \notin Verdicts
  /\ NotAssessing \notin Assessments
  BY DEF NoPenalty, Penalties, PenaltyStatus, AtRest, Verdicts, NotAssessing,
         Assessments

\* A step of another part of the system keeps the invariant.
LEMMA LedgerFrame ==
  ASSUME PenaltyInv, LedgerKept,
         UNCHANGED <<assessing, assessed>>
  PROVE  /\ \A a \in Assessors : assessing'[a] # NotAssessing => Underway(a)'
         /\ assessed' \subseteq DueRounds
         /\ NobodyIsLetOff'
<1>1. \A a \in Assessors : assessing'[a] # NotAssessing => Underway(a)'
  BY UnderwayStays DEF PenaltyInv
<1>2. \A r \in assessed', m \in Debtors : Discharged(m, r)'
  BY DischargedStays DEF PenaltyInv, NobodyIsLetOff, Discharged
<1> QED BY <1>1, <1>2 DEF PenaltyInv, NobodyIsLetOff, Discharged

\* When the invariant holds, no table but the assessments changes, one of them
\* moves, and it is still under way or at rest, the invariant holds again.
LEMMA AssessmentFrame ==
  ASSUME PenaltyInv, NEW a \in Assessors,
         UNCHANGED <<dueRound, contributed, penalty, assessed, clerk>>,
         NEW e \in Assessments \cup {NotAssessing},
         assessing' = [assessing EXCEPT ![a] = e],
         e # NotAssessing => Underway(a)'
  PROVE  PenaltyInv'
<1>1. LedgerKept BY DEF LedgerKept
<1>2. assessing' \in [Assessors -> Assessments \cup {NotAssessing}]
  BY DEF PenaltyInv
<1>3. ASSUME NEW b \in Assessors, assessing'[b] # NotAssessing
      PROVE  Underway(b)'
  <2>1. CASE b = a BY <2>1, <1>3 DEF PenaltyInv
  <2>2. CASE b # a
    <3>1. assessing'[b] = assessing[b] BY <2>2 DEF PenaltyInv
    <3> QED BY <3>1, <1>1, <1>3, UnderwayStays DEF PenaltyInv
  <2> QED BY <2>1, <2>2
<1>4. NobodyIsLetOff'
  BY <1>1, DischargedStays DEF PenaltyInv, NobodyIsLetOff, Discharged
<1> QED BY <1>2, <1>3, <1>4 DEF PenaltyInv

LEMMA PenaltyInvStarts == PenaltyInit => PenaltyInv
<1> SUFFICES ASSUME PenaltyInit PROVE PenaltyInv OBVIOUS
<1>1. dueRound \in DueRounds BY PenaltyAssumption DEF PenaltyInit, DueRounds
<1> QED BY <1>1 DEF PenaltyInit, PenaltyInv, NobodyIsLetOff

\* A member without a row of contributions is the one at hand from then on.
LEMMA CheckContributionKeeps ==
  ASSUME PenaltyInv, NEW a \in Assessors, NEW m \in Debtors,
         CheckContribution(a, m)
  PROVE  PenaltyInv'
<1>1. assessing[a] # NotAssessing /\ Underway(a)
  BY NothingIsNoRow DEF CheckContribution, PenaltyInv, NotAssessing
<1> DEFINE x == assessing[a]
           paid == <<m, x.round>> \in contributed
           current == IF paid THEN {} ELSE {m}
           at == IF paid THEN "next" ELSE "existing"
           e == [at |-> at, round |-> x.round, left |-> x.left \ {m},
                 current |-> current]
<1>2. assessing' = [assessing EXCEPT ![a] = e]
  BY <1>1 DEF CheckContribution, PenaltyInv, Underway, Assessments
<1>3. e \in Assessments BY <1>1 DEF Underway, Assessments
<1>4. assessing'[a] = e BY <1>2 DEF PenaltyInv
<1>5. ASSUME NEW n \in Debtors \ ((x.left \ {m}) \cup current)
      PROVE  Discharged(n, x.round)
  <2>1. CASE n = m BY <2>1, <1>5 DEF Discharged
  <2>2. CASE n # m
    BY <2>2, <1>5, <1>1 DEF CheckContribution, Underway
  <2> QED BY <2>1, <2>2
<1>6. LedgerKept BY DEF CheckContribution, LedgerKept
<1>7. \A n \in Debtors \ ((x.left \ {m}) \cup current), r \in {x.round} :
        Discharged(n, r)'
  BY <1>5, <1>6, DischargedStays
<1>8. at \in {"next", "notify"} => current = {} OBVIOUS
<1>9. \A n, o \in current : n = o OBVIOUS
<1> HIDE DEF current, at, paid
<1>10. Underway(a)'
  BY <1>3, <1>4, <1>7, <1>8, <1>9 DEF Underway, Discharged, Owing
<1> HIDE DEF e
<1> QED
  BY <1>2, <1>3, <1>10, AssessmentFrame DEF CheckContribution

\* A member who has a row of penalties for the round is dealt with.
LEMMA CheckExistingKeeps ==
  ASSUME PenaltyInv, NEW a \in Assessors, CheckExisting(a)
  PROVE  PenaltyInv'
<1>1. assessing[a] # NotAssessing /\ Underway(a)
  BY NothingIsNoRow DEF CheckExisting, PenaltyInv, NotAssessing
<1> DEFINE x == assessing[a]
           current == IF Charged(a) THEN {} ELSE x.current
           at == IF Charged(a) THEN "next" ELSE "save"
           e == [at |-> at, round |-> x.round, left |-> x.left,
                 current |-> current]
<1>2. assessing' = [assessing EXCEPT ![a] = e]
  BY <1>1 DEF CheckExisting, PenaltyInv, Underway, Assessments
<1>3. e \in Assessments BY <1>1 DEF Underway, Assessments
<1>4. assessing'[a] = e BY <1>2 DEF PenaltyInv
<1>5. ASSUME NEW n \in Debtors \ (x.left \cup current)
      PROVE  Discharged(n, x.round)
  <2>1. CASE n \in x.current
    BY <2>1, <1>5, <1>1 DEF Charged, Underway, Discharged
  <2>2. CASE n \notin x.current BY <2>2, <1>5, <1>1 DEF Underway
  <2> QED BY <2>1, <2>2
<1>6. LedgerKept BY DEF CheckExisting, LedgerKept
<1>7. \A n \in Debtors \ (x.left \cup current), r \in {x.round} :
        Discharged(n, r)'
  BY <1>5, <1>6, DischargedStays
<1>8. at \in {"next", "notify"} => current = {} OBVIOUS
<1>9. \A n, o \in current : n = o BY <1>1 DEF Underway
<1> HIDE DEF current, at
<1>10. Underway(a)'
  BY <1>3, <1>4, <1>7, <1>8, <1>9 DEF Underway, Discharged, Owing
<1> HIDE DEF e
<1> QED BY <1>2, <1>3, <1>10, AssessmentFrame DEF CheckExisting

\* The row of a member charged stands for him from then on.
LEMMA SavePenaltyKeeps ==
  ASSUME PenaltyInv, NEW a \in Assessors, NEW p \in PenaltyIds,
         SavePenalty(a, p)
  PROVE  PenaltyInv'
<1>1. assessing[a] # NotAssessing /\ Underway(a)
  BY NothingIsNoRow DEF SavePenalty, PenaltyInv, NotAssessing
<1> DEFINE x == assessing[a]
           e == [at |-> "notify", round |-> x.round, left |-> x.left,
                 current |-> {}]
<1>2. PICK m \in x.current :
        penalty' = [penalty EXCEPT ![p] = [user |-> m, round |-> x.round,
                                           status |-> "PENDING"]]
  BY DEF SavePenalty
<1>3. [user |-> m, round |-> x.round, status |-> "PENDING"] \in Penalties
  BY <1>1 DEF Penalties, PenaltyStatus, Underway, Assessments
<1>4. penalty' \in [PenaltyIds -> Penalties \cup {NoPenalty}]
  BY <1>2, <1>3 DEF PenaltyInv
<1>5. penalty[p] = NoPenalty
  BY DEF SavePenalty, IsNewPenalty, PenaltyIds
<1>6. penalty'[p] = [user |-> m, round |-> x.round, status |-> "PENDING"]
      /\ penalty'[p] # NoPenalty
  BY <1>2, <1>3, NothingIsNoRow DEF PenaltyInv
<1>7. LedgerKept
  BY <1>2, <1>5 DEF LedgerKept, PenaltyInv, SavePenalty
<1>8. assessing' = [assessing EXCEPT ![a] = e]
  BY <1>1 DEF SavePenalty, PenaltyInv, Underway, Assessments
<1>9. e \in Assessments BY <1>1 DEF Underway, Assessments
<1>10. assessing'[a] = e BY <1>8 DEF PenaltyInv
<1>11. \A r \in {x.round} : Discharged(m, r)'
  BY <1>6 DEF Discharged, Owing
<1>12. ASSUME NEW n \in Debtors \ x.left, NEW r \in {x.round}
       PROVE  Discharged(n, r)'
  <2>1. CASE n = m BY <2>1, <1>11
  <2>2. CASE n # m
    <3>1. Discharged(n, r) BY <2>2, <1>1, <1>2, <1>12 DEF Underway
    <3> QED BY <3>1, <1>7, DischargedStays
  <2> QED BY <2>1, <2>2
<1>13. Underway(a)'
  BY <1>9, <1>10, <1>12 DEF Underway, Discharged, Owing
<1>14. \A b \in Assessors : assessing'[b] # NotAssessing => Underway(b)'
  <2> SUFFICES ASSUME NEW b \in Assessors, assessing'[b] # NotAssessing
               PROVE  Underway(b)'
    OBVIOUS
  <2>1. CASE b = a BY <2>1, <1>13
  <2>2. CASE b # a
    <3>1. assessing'[b] = assessing[b] BY <2>2, <1>8 DEF PenaltyInv
    <3> QED BY <3>1, <1>7, UnderwayStays DEF PenaltyInv
  <2> QED BY <2>1, <2>2
<1>15. assessing' \in [Assessors -> Assessments \cup {NotAssessing}]
  BY <1>8, <1>9 DEF PenaltyInv
<1>16. NobodyIsLetOff'
  BY <1>7, DischargedStays DEF PenaltyInv, NobodyIsLetOff, Discharged,
     SavePenalty
<1>17. \A c \in Clerks :
         clerk'[c] # AtRest => penalty'[clerk'[c].id] # NoPenalty
  BY <1>7, NothingIsNoRow DEF PenaltyInv, LedgerKept, SavePenalty, Verdicts
<1> QED
  BY <1>4, <1>14, <1>15, <1>16, <1>17 DEF PenaltyInv, SavePenalty

\* An assessment that has nobody left before it has dealt with everybody.
LEMMA GroupProcessedKeeps ==
  ASSUME PenaltyInv, NEW a \in Assessors, GroupProcessed(a)
  PROVE  PenaltyInv'
<1>1. assessing[a] # NotAssessing /\ Underway(a)
  BY NothingIsNoRow DEF GroupProcessed, PenaltyInv, NotAssessing
<1>2. assessing[a].left \cup assessing[a].current = {}
  BY <1>1 DEF GroupProcessed, Underway
<1>3. \A m \in Debtors : Discharged(m, assessing[a].round)
  BY <1>1, <1>2 DEF Underway
<1>4. assessing[a].round \in DueRounds BY <1>1 DEF Underway, Assessments
<1>5. LedgerKept BY DEF GroupProcessed, LedgerKept
<1>6. NobodyIsLetOff'
  <2>1. \A r \in assessed', m \in Debtors : Discharged(m, r)
    BY <1>3 DEF GroupProcessed, PenaltyInv, NobodyIsLetOff, Discharged
  <2>2. \A r \in assessed', m \in Debtors : Discharged(m, r)'
    BY <2>1, <1>5, DischargedStays
  <2> QED BY <2>2 DEF NobodyIsLetOff, Discharged
<1>7. \A b \in Assessors : assessing'[b] # NotAssessing => Underway(b)'
  BY <1>5, UnderwayStays DEF GroupProcessed, PenaltyInv
<1>8. assessing' \in [Assessors -> Assessments \cup {NotAssessing}]
  BY DEF GroupProcessed, PenaltyInv
<1> QED
  BY <1>4, <1>6, <1>7, <1>8 DEF GroupProcessed, PenaltyInv

\* The other steps of an assessment: it starts with all members before it,
\* comes back from a notification, or is given up.
LEMMA AssessmentRestKeeps ==
  ASSUME PenaltyInv, NEW a \in Assessors,
         StartAssessment(a) \/ NotifyDebtor(a) \/ AssessmentFails(a)
  PROVE  PenaltyInv'
<1>1. CASE StartAssessment(a)
  <2> DEFINE e == [at |-> "next", round |-> dueRound, left |-> Debtors,
                   current |-> {}]
  <2>1. assessing' = [assessing EXCEPT ![a] = e]
    BY <1>1 DEF StartAssessment
  <2>2. e \in Assessments BY DEF PenaltyInv, Assessments
  <2>3. assessing'[a] = e BY <2>1 DEF PenaltyInv
  <2>4. Underway(a)' BY <2>2, <2>3 DEF Underway
  <2> QED
    BY <1>1, <2>1, <2>2, <2>4, AssessmentFrame DEF StartAssessment
<1>2. CASE NotifyDebtor(a)
  <2>1. assessing[a] # NotAssessing /\ Underway(a)
    BY <1>2, NothingIsNoRow DEF NotifyDebtor, PenaltyInv, NotAssessing
  <2> DEFINE x == assessing[a]
             e == [x EXCEPT !.at = "next"]
  <2>2. assessing' = [assessing EXCEPT ![a] = e]
    BY <1>2 DEF NotifyDebtor
  <2>3. /\ e \in Assessments /\ e.round = x.round
        /\ e.left = x.left /\ e.current = x.current
    BY <2>1 DEF Underway, Assessments
  <2>4. assessing'[a] = e BY <2>2 DEF PenaltyInv
  <2>5. LedgerKept BY <1>2 DEF NotifyDebtor, LedgerKept
  <2>6. \A m \in Debtors \ (x.left \cup x.current), r \in {x.round} :
          Discharged(m, r)'
    BY <2>1, <2>5, DischargedStays DEF Underway
  <2>7. x.current = {} BY <1>2, <2>1 DEF NotifyDebtor, Underway
  <2> HIDE DEF e
  <2>8. Underway(a)'
    BY <2>3, <2>4, <2>6, <2>7 DEF Underway, Discharged, Owing
  <2> QED
    BY <1>2, <2>2, <2>3, <2>8, AssessmentFrame DEF NotifyDebtor
<1>3. CASE AssessmentFails(a)
  <2>1. assessing' = [assessing EXCEPT ![a] = NotAssessing]
    BY <1>3 DEF AssessmentFails
  <2> QED BY <1>3, <2>1, AssessmentFrame DEF AssessmentFails
<1> QED BY <1>1, <1>2, <1>3

\* Payments, rounds and requests change no member and no round of a row.
LEMMA OthersKeep ==
  ASSUME PenaltyInv,
         \/ \E m \in Debtors : ContributionRecorded(m)
         \/ DueRoundAdvances
         \/ \E c \in Clerks : PenaltyRequest(c)
         \/ UNCHANGED penaltyVars
  PROVE  PenaltyInv'
<1>1. CASE \E m \in Debtors : ContributionRecorded(m)
  <2>1. LedgerKept BY <1>1 DEF ContributionRecorded, LedgerKept
  <2> QED
    BY <1>1, <2>1, LedgerFrame DEF ContributionRecorded, PenaltyInv
<1>2. CASE DueRoundAdvances
  <2>1. LedgerKept BY <1>2 DEF DueRoundAdvances, LedgerKept
  <2>2. dueRound' \in DueRounds
    BY <1>2, PenaltyAssumption DEF DueRoundAdvances, PenaltyInv, DueRounds
  <2> QED
    BY <1>2, <2>1, <2>2, LedgerFrame DEF DueRoundAdvances, PenaltyInv
<1>3. ASSUME NEW c \in Clerks, PenaltyRequest(c) PROVE PenaltyInv'
  <2>1. ASSUME NEW p \in PenaltyIds, NEW to \in {"WAIVED", "DISPUTED", "REJECTED"},
               penalty[p] # NoPenalty, Decide(c, p, to)
        PROVE  PenaltyInv'
    <3>1. LedgerKept BY <2>1 DEF Decide, LedgerKept
    <3>2. [id |-> p, to |-> to] \in Verdicts BY DEF Verdicts
    <3>3. /\ clerk' \in [Clerks -> Verdicts \cup {AtRest}]
          /\ \A d \in Clerks :
               clerk'[d] # AtRest => penalty[clerk'[d].id] # NoPenalty
      BY <2>1, <3>2 DEF Decide, PenaltyInv
    <3> QED BY <2>1, <3>1, <3>3, LedgerFrame DEF Decide, PenaltyInv
  <2>2. ASSUME NEW to \in {"WAIVED", "DISPUTED", "REJECTED"},
               SaveDecision(c, to)
        PROVE  PenaltyInv'
    <3> DEFINE id == clerk[c].id
    <3>1. id \in PenaltyIds /\ penalty[id] \in Penalties
      BY <2>2, NothingIsNoRow DEF SaveDecision, PenaltyInv, Verdicts
    <3> DEFINE decided == [penalty[id] EXCEPT !.status = to]
    <3>2. /\ decided \in Penalties
          /\ decided.user = penalty[id].user /\ decided.round = penalty[id].round
      BY <3>1 DEF Penalties, PenaltyStatus
    <3>3. penalty' = [penalty EXCEPT ![id] = decided]
      BY <2>2 DEF SaveDecision
    <3> HIDE DEF decided
    <3>4. penalty' \in [PenaltyIds -> Penalties \cup {NoPenalty}]
      BY <3>2, <3>3 DEF PenaltyInv
    <3>5. \A p \in PenaltyIds : penalty'[p] = IF p = id THEN decided ELSE penalty[p]
      BY <3>3 DEF PenaltyInv
    <3>6. LedgerKept
      BY <2>2, <3>2, <3>5, NothingIsNoRow DEF SaveDecision, LedgerKept
    <3>7. clerk' = [clerk EXCEPT ![c] = AtRest] BY <2>2 DEF SaveDecision
    <3>8. /\ clerk' \in [Clerks -> Verdicts \cup {AtRest}]
          /\ \A d \in Clerks :
               clerk'[d] # AtRest => penalty'[clerk'[d].id] # NoPenalty
      BY <3>6, <3>7 DEF PenaltyInv, LedgerKept, Verdicts
    <3> QED
      BY <2>2, <3>4, <3>6, <3>8, LedgerFrame DEF SaveDecision, PenaltyInv
  <2>3. \A p \in PenaltyIds :
          penalty[p].status \in {"PENDING", "DISPUTED"} => penalty[p] # NoPenalty
    BY DEF NoPenalty
  <2> QED
    BY <1>3, <2>1, <2>2, <2>3 DEF PenaltyRequest, FindForWaiver,
       FindForDispute, FindForVerdict, SaveWaiver, SaveDispute, SaveRejection
<1>4. CASE UNCHANGED penaltyVars
  BY <1>4 DEF penaltyVars, PenaltyInv, Underway, Discharged, Owing,
     NobodyIsLetOff
<1> QED BY <1>1, <1>2, <1>3, <1>4

LEMMA PenaltyInvStep == PenaltyInv /\ [PenaltyNext]_penaltyVars => PenaltyInv'
<1> SUFFICES ASSUME PenaltyInv, [PenaltyNext]_penaltyVars PROVE PenaltyInv'
  OBVIOUS
<1>1. ASSUME NEW a \in Assessors, AssessPenalties(a) \/ AssessmentFails(a)
      PROVE  PenaltyInv'
  BY <1>1, CheckContributionKeeps, CheckExistingKeeps, SavePenaltyKeeps,
     GroupProcessedKeeps, AssessmentRestKeeps DEF AssessPenalties
<1> QED BY <1>1, OthersKeep DEF PenaltyNext

\* Contributions are for rounds the group is in, and errors are bounded.
LedgerTypes ==
  contributed \subseteq Debtors \X DueRounds /\ penaltyFaults \in 0 .. MaxPenaltyFaults

LEMMA LedgerTypesStep ==
  PenaltyInv /\ LedgerTypes /\ [PenaltyNext]_penaltyVars => LedgerTypes'
<1> SUFFICES ASSUME PenaltyInv, LedgerTypes, [PenaltyNext]_penaltyVars PROVE LedgerTypes'
  OBVIOUS
<1>1. MaxPenaltyFaults \in Nat
  BY PenaltyAssumption
<1>2. ASSUME NEW m \in Debtors, ContributionRecorded(m) PROVE LedgerTypes'
  BY <1>2 DEF ContributionRecorded, LedgerTypes, PenaltyInv
<1>3. ASSUME NEW a \in Assessors, AssessmentFails(a) PROVE LedgerTypes'
  BY <1>1, <1>3 DEF AssessmentFails, LedgerTypes
<1>4. CASE UNCHANGED <<contributed, penaltyFaults>>
  BY <1>4 DEF LedgerTypes
<1>5. ASSUME NEW a \in Assessors, AssessPenalties(a) PROVE UNCHANGED <<contributed, penaltyFaults>>
  BY <1>5
  DEF AssessPenalties, StartAssessment, CheckContribution, CheckExisting, NotifyDebtor,
      GroupProcessed, SavePenalty
<1>6. ASSUME NEW c \in Clerks, PenaltyRequest(c) PROVE UNCHANGED <<contributed, penaltyFaults>>
  BY <1>6
  DEF PenaltyRequest, FindForWaiver, FindForDispute, FindForVerdict, Decide,
      SaveWaiver, SaveDispute, SaveRejection, SaveDecision
<1> QED
  BY <1>2, <1>3, <1>4, <1>5, <1>6 DEF PenaltyNext, DueRoundAdvances, penaltyVars

LEMMA PenaltyIsTyped ==
  /\ PenaltyInit => PenaltyInv /\ LedgerTypes
  /\ PenaltyInv /\ LedgerTypes => PenaltyTypeOK /\ NobodyIsLetOff
<1>1. PenaltyInit => LedgerTypes
  BY PenaltyAssumption DEF PenaltyInit, LedgerTypes
<1> QED
  BY <1>1, PenaltyInvStarts DEF PenaltyInv, LedgerTypes, PenaltyTypeOK

-----------------------------------------------------------------------------
(* Instalment plans.  A row that is on its way to the table follows the      *)
(* same schedule as the row in it, so a save that overwrites another one     *)
(* cannot break it: the schedule is kept row by row.                         *)

OnSchedule(r) ==
  /\ r.expiry = ExpiryLedger + r.pausedFor
  /\ r.status \in {"ACTIVE", "PAUSED"}
       => r.due = r.current * IntervalLedgers + r.pausedFor
  /\ r.status = "ACTIVE" => ~r.paused

PlanInv ==
  /\ plan \in Plans /\ OnSchedule(plan)
  /\ payer \in [PlanHolders -> Plans \cup {NotPaying}]
  /\ \A p \in PlanHolders : payer[p] # NotPaying => OnSchedule(payer[p])

LEMMA PlanStarts == PlanInit => PlanInv
BY PlanAssumption
DEF PlanInit, PlanInv, NewPlan, Plans, OnSchedule, PlanStatus, NotPaying, None, Ledgers

\* What a request makes of a row that follows the schedule does so too.
LEMMA WillSaveKeeps ==
  ASSUME PlanInv, NEW p \in PlanHolders, NEW r \in Plans, OnSchedule(r), WillSave(p, r)
  PROVE  PlanInv'
BY DEF PlanInv, WillSave

LEMMA PlanRequestKeeps ==
  ASSUME PlanInv, NEW p \in PlanHolders, NEW l \in Ledgers, PlanRequest(p, l)
  PROVE  PlanInv'
<1> USE PlanAssumption
<1>1. /\ plan \in Plans /\ OnSchedule(plan)
      /\ plan.current \in Nat /\ plan.due \in Nat /\ plan.expiry \in Nat
      /\ plan.pausedFor \in Nat /\ plan.pauses \in Nat
      /\ IntervalLedgers \in Nat /\ l \in Nat /\ l \in Ledgers
      /\ plan.pausedAt \in Nat \cup {-1} /\ NumInstallments \in Nat /\ MaxPauses \in Nat
  BY DEF PlanInv, Plans, Ledgers, None
<1>2. CASE SettleInstallment(p, l)
  <2>1. plan.status = "ACTIVE" /\ plan.current < NumInstallments
    BY <1>2 DEF SettleInstallment, CanSettle
  <2>0. plan.current + 1 \in 0 .. NumInstallments /\ plan.due + IntervalLedgers \in Nat
    BY <1>1, <2>1
  <2>2. (plan.current + 1) * IntervalLedgers = plan.current * IntervalLedgers + IntervalLedgers
    BY <1>1
  <2>3. CASE plan.current + 1 = NumInstallments
    <3> DEFINE r == [plan EXCEPT !.current = @ + 1, !.status = "COMPLETED"]
    <3>1. r \in Plans /\ OnSchedule(r)
      BY <1>1, <2>0, <2>1 DEF Plans, OnSchedule, PlanStatus
    <3> QED
      BY <1>2, <2>3, <3>1, WillSaveKeeps DEF SettleInstallment
  <2>4. CASE plan.current + 1 # NumInstallments
    <3> DEFINE r == [plan EXCEPT !.current = @ + 1, !.due = @ + IntervalLedgers]
    <3>1. r \in Plans
      BY <1>1, <2>0, <2>1 DEF Plans, PlanStatus
    <3>2. /\ r.current = plan.current + 1 /\ r.due = plan.due + IntervalLedgers
          /\ r.expiry = plan.expiry /\ r.pausedFor = plan.pausedFor
          /\ r.status = plan.status /\ r.paused = plan.paused
      BY <1>1 DEF Plans
    <3>3. OnSchedule(r)
      BY <1>1, <2>1, <2>2, <3>2 DEF OnSchedule
    <3> QED
      BY <1>2, <2>4, <3>1, <3>3, WillSaveKeeps DEF SettleInstallment
  <2> QED
    BY <2>3, <2>4
<1>3. CASE ExpirePlan(p, l)
  <2> DEFINE r == [plan EXCEPT !.status = "EXPIRED"]
  <2>1. r \in Plans /\ OnSchedule(r)
    BY <1>1 DEF Plans, OnSchedule, PlanStatus
  <2> QED
    BY <1>3, <2>1, WillSaveKeeps DEF ExpirePlan
<1>4. CASE PausePlan(p, l)
  <2> DEFINE r == [plan EXCEPT !.paused = TRUE, !.status = "PAUSED",
                               !.pausedAt = l, !.pauses = @ + 1]
  <2>1. plan.status = "ACTIVE" /\ plan.pauses < MaxPauses
    BY <1>4 DEF PausePlan, PauseAllowed
  <2>0. plan.pauses + 1 \in 0 .. MaxPauses
    BY <1>1, <2>1
  <2>2. r \in Plans /\ OnSchedule(r)
    BY <1>1, <2>0, <2>1 DEF Plans, OnSchedule, PlanStatus
  <2> QED
    BY <1>4, <2>2, WillSaveKeeps DEF PausePlan
<1>5. CASE ResumePlan(p, l)
  <2> DEFINE span == l - plan.pausedAt
             r == [plan EXCEPT
                     !.due = @ + span, !.expiry = @ + span, !.pausedFor = @ + span,
                     !.paused = FALSE, !.status = "ACTIVE", !.pausedAt = None,
                     !.resumedAt = l]
  <2>1. plan.status = "PAUSED" /\ span \in Nat
    BY <1>1, <1>5 DEF ResumePlan
  <2> HIDE DEF span
  <2>0. plan.due + span \in Nat /\ plan.expiry + span \in Nat /\ plan.pausedFor + span \in Nat
    BY <1>1, <2>1
  <2>2. r \in Plans
    BY <1>1, <2>0 DEF Plans, PlanStatus, None
  <2>3. /\ r.current = plan.current /\ r.due = plan.due + span
        /\ r.expiry = plan.expiry + span /\ r.pausedFor = plan.pausedFor + span
        /\ r.status = "ACTIVE" /\ r.paused = FALSE
    BY <1>1 DEF Plans
  <2>4. plan.current * IntervalLedgers \in Nat
    BY <1>1
  <2>5. OnSchedule(r)
    BY <1>1, <2>1, <2>3, <2>4 DEF OnSchedule
  <2>6. WillSave(p, r)
    BY <1>5 DEF ResumePlan, ComputePausedLedgers, span
  <2> QED
    BY <2>2, <2>5, <2>6, WillSaveKeeps
<1> QED
  BY <1>2, <1>3, <1>4, <1>5 DEF PlanRequest

LEMMA PlanKeeps == PlanInv /\ [PlanNext]_planVars => PlanInv'
<1> SUFFICES ASSUME PlanInv, [PlanNext]_planVars PROVE PlanInv'
  OBVIOUS
<1>1. ASSUME NEW p \in PlanHolders, SavePlan(p) PROVE PlanInv'
  BY <1>1 DEF PlanInv, SavePlan
<1>2. CASE UNCHANGED planVars
  BY <1>2 DEF planVars, PlanInv, OnSchedule
<1> QED
  BY <1>1, <1>2, PlanRequestKeeps DEF PlanNext

LEMMA ScheduleStops == PlanInv => PlanTypeOK /\ ClockStopsWhilePaused
<1> SUFFICES ASSUME PlanInv PROVE PlanTypeOK /\ ClockStopsWhilePaused
  OBVIOUS
<1>1. PlanTypeOK
  BY DEF PlanInv, PlanTypeOK
<1>2. ASSUME plan.status = "ACTIVE" PROVE
        /\ plan.expiry = ExpiryLedger + plan.pausedFor
        /\ \A l \in Ledgers : LET late == l - plan.pausedFor - plan.current * IntervalLedgers
             IN PenaltyWindows(plan, l) = (IF late > 0 THEN late ELSE 0) \div IntervalLedgers
  <2>1. /\ plan.expiry = ExpiryLedger + plan.pausedFor
        /\ plan.due = plan.current * IntervalLedgers + plan.pausedFor
        /\ plan.paused = FALSE
    BY <1>2 DEF PlanInv, OnSchedule, Plans
  <2>2. plan.pausedFor \in Nat /\ plan.current \in Nat /\ IntervalLedgers \in Nat
    BY PlanAssumption DEF PlanInv, Plans
  <2>3. PICK c \in Nat : c = plan.current * IntervalLedgers
    BY <2>2
  <2>4. ASSUME NEW l \in Ledgers PROVE
          LedgersLate(plan, l) = IF l - plan.pausedFor - c > 0 THEN l - plan.pausedFor - c ELSE 0
    <3>1. l \in Nat
      BY PlanAssumption DEF Ledgers
    <3> QED
      BY <2>1, <2>2, <2>3, <3>1 DEF LedgersLate
  <2> QED
    BY <2>1, <2>3, <2>4 DEF PenaltyWindows
<1> QED
  BY <1>1, <1>2 DEF ClockStopsWhilePaused

-----------------------------------------------------------------------------
(* The pricing of payouts.  The quotes keep their fields, and as long as     *)
(* nothing has failed every fee that lifted the day's total over the         *)
(* threshold has raised the alert.                                           *)

Quotes ==
  [at : {"none", "asking", "accepted", "refused"}, paid : Paid \cup {0},
   rate : Rates \cup {0, Scale}, expires : Nat, worth : Int]

PricingInv ==
  /\ PricingTypeOK
  /\ quotes \in [Payers -> Quotes]
  /\ AlertIsRaised

LEMMA PricingNumbers ==
  /\ Scale \in Nat /\ Scale > 0 /\ RateLife \in Nat /\ MaxTime \in Nat /\ MaxPayouts \in Nat
  /\ MaxPriceFaults \in Nat /\ AlertThreshold \in Nat /\ BufferPercent \in Nat
  /\ \A r \in Rates : r \in Nat /\ r > 0
  /\ \A a \in Paid : a \in Nat /\ a > 0
BY PricingAssumption

LEMMA RoundedIsInt ==
  ASSUME NEW n \in Int, NEW d \in Nat \ {0}
  PROVE  Rounded(n, d) \in Int
BY DEF Rounded

LEMMA BufferedIsNat ==
  ASSUME NEW n \in Nat
  PROVE  Buffered(n) \in Nat
<1>1. BufferPercent \in Nat
  BY PricingNumbers
<1>2. n * (100 + BufferPercent) \in Nat
  BY <1>1
<1> QED
  BY <1>2 DEF Buffered, RoundedUp

LEMMA NoQuoteIsAQuote == NoQuote \in Quotes
BY DEF NoQuote, Quotes

LEMMA PricingStarts == PricingInit => PricingInv
<1> SUFFICES ASSUME PricingInit PROVE PricingInv
  OBVIOUS
<1>1. /\ quotes \in [Payers -> Quotes]
      /\ \A p \in Payers : quotes[p] = NoQuote
  BY NoQuoteIsAQuote DEF PricingInit
<1>2. MaxTime \in Nat /\ MaxPayouts \in Nat /\ MaxPriceFaults \in Nat /\ AlertThreshold \in Nat
  BY PricingNumbers
<1>3. PricingTypeOK
  <2>1. \A p \in Payers : quotes[p].at = "none" /\ quotes[p].paid = 0 /\ quotes[p].rate = 0
    BY <1>1 DEF NoQuote
  <2>2. DOMAIN quotes = Payers
    BY DEF PricingInit
  <2>3. payout.outcome = "none"
    BY DEF PricingInit, NoPayout
  <2>4. /\ converts \in BOOLEAN /\ market \in Rates /\ now \in 0 .. MaxTime
        /\ payouts \in 0 .. MaxPayouts /\ dayTotal = 0
        /\ alerted \in BOOLEAN /\ priceFaults \in 0 .. MaxPriceFaults
    <3>1. 0 \in 0 .. MaxTime /\ 0 \in 0 .. MaxPayouts /\ MaxPriceFaults \in 0 .. MaxPriceFaults
      BY <1>2
    <3> QED
      BY <3>1, Zenon DEF PricingInit
  <2> QED
    BY <2>1, <2>2, <2>3, <2>4 DEF PricingTypeOK
<1> QED
  BY <1>1, <1>2, <1>3 DEF PricingInit, PricingInv, AlertIsRaised

\* One quote changes.
LEMMA QuoteKeeps ==
  ASSUME PricingInv, NEW p \in Payers, NEW q \in Quotes, Quote(p, q), Elsewhere,
         q.at = "accepted" => q.worth >= Required,
         priceFaults' = priceFaults \/ PriceFault
  PROVE  PricingInv'
<1>1. quotes' \in [Payers -> Quotes] /\
      \A o \in Payers : quotes'[o] = IF o = p THEN q ELSE quotes[o]
  BY DEF PricingInv, Quote
<1>2. MaxPriceFaults \in Nat
  BY PricingNumbers
<1>3. priceFaults' \in 0 .. MaxPriceFaults /\ priceFaults' <= priceFaults
  BY <1>2 DEF PricingInv, PricingTypeOK, PriceFault
<1>4. PricingTypeOK'
  BY <1>1, <1>3 DEF PricingInv, PricingTypeOK, Quotes, Elsewhere, PathPaymentOutcome
<1> QED
  BY <1>1, <1>2, <1>3, <1>4 DEF PricingInv, AlertIsRaised, Elsewhere, PricingTypeOK

LEMMA JudgedIsAQuote ==
  ASSUME NEW q \in Quotes
  PROVE  Judged(q) \in Quotes /\ (Judged(q).at = "accepted" => Judged(q).worth >= Required)
BY DEF Judged, Quotes

LEMMA AskingKeeps ==
  ASSUME PricingInv, NEW p \in Payers, NEW amount \in Paid,
         PayInUnit(p, amount) \/ AskRate(p, amount)
  PROVE  PricingInv'
<1>0. /\ Scale \in Nat /\ RateLife \in Nat
      /\ MaxTime \in Nat /\ now \in Nat
  BY PricingNumbers DEF PricingInv, PricingTypeOK
<1>1. CASE PayInUnit(p, amount)
  <2> DEFINE q == [NoQuote EXCEPT !.paid = amount, !.rate = Scale, !.worth = amount]
  <2>1. q \in Quotes
    <3>1. amount \in Int /\ amount \in Paid \cup {0} /\ Scale \in Rates \cup {0, Scale}
      BY PricingNumbers
    <3> QED
      BY <3>1, NoQuoteIsAQuote DEF Quotes
  <2> HIDE DEF q
  <2>2. Quote(p, Judged(q)) /\ Elsewhere /\ priceFaults' = priceFaults
    BY <1>1 DEF PayInUnit, q
  <2> QED
    BY <2>1, <2>2, JudgedIsAQuote, QuoteKeeps
<1>2. CASE AskRate(p, amount)
  <2> DEFINE q == [NoQuote EXCEPT !.at = "asking", !.paid = amount, !.expires = now + RateLife]
  <2>0. now + RateLife \in Nat
    BY <1>0
  <2>1. q \in Quotes /\ q.at = "asking"
    BY <2>0, NoQuoteIsAQuote DEF Quotes
  <2>2. Quote(p, q) /\ Elsewhere /\ priceFaults' = priceFaults
    BY <1>2 DEF AskRate
  <2> HIDE DEF q
  <2> QED
    BY <2>1, <2>2, QuoteKeeps
<1> QED
  BY <1>1, <1>2

LEMMA ArrivalKeeps ==
  ASSUME PricingInv, NEW p \in Payers, RateArrives(p)
  PROVE  PricingInv'
<1> DEFINE q == quotes[p]
           refused == [q EXCEPT !.at = "refused"]
           priced == [q EXCEPT !.rate = FetchedRate, !.worth = Normalized(q.paid, FetchedRate)]
<1>0. /\ Scale \in Nat \ {0} /\ (\A a \in Paid : a \in Nat) /\ (\A r \in Rates : r \in Nat)
      /\ q \in Quotes /\ market \in Rates
  BY PricingNumbers DEF PricingInv, PricingTypeOK
<1>1. Normalized(q.paid, FetchedRate) \in Int
  <2>1. q.paid \in Nat /\ FetchedRate \in Nat
    BY <1>0 DEF Quotes, FetchedRate
  <2>2. q.paid * FetchedRate \in Int
    BY <2>1
  <2> QED
    BY <1>0, <2>2, RoundedIsInt DEF Normalized
<1>2. /\ refused \in Quotes /\ refused.at = "refused"
      /\ priced \in Quotes
  BY <1>0, <1>1 DEF Quotes, FetchedRate
<1>3. /\ Elsewhere /\ (priceFaults' = priceFaults \/ PriceFault)
      /\ Quote(p, refused) \/ Quote(p, Judged(priced))
  BY DEF RateArrives
<1> HIDE DEF refused, priced
<1> QED
  BY <1>2, <1>3, JudgedIsAQuote, QuoteKeeps

\* A round is paid.
LEMMA NextRoundKeeps ==
  ASSUME PricingInv, NEW result, NextRound(result), payouts < MaxPayouts,
         result.outcome \in PathPaymentOutcome \cup {"refused"},
         dayTotal' \in Nat, alerted' \in BOOLEAN, AlertIsRaised',
         priceFaults' = priceFaults \/ PriceFault
  PROVE  PricingInv'
<1>1. /\ quotes' \in [Payers -> Quotes]
      /\ \A p \in Payers : quotes'[p] = NoQuote
  BY NoQuoteIsAQuote DEF NextRound
<1>2. MaxPriceFaults \in Nat /\ MaxPayouts \in Nat
  BY PricingNumbers
<1>3. payouts' \in 0 .. MaxPayouts
  BY <1>2 DEF NextRound, PricingInv, PricingTypeOK
<1>4. priceFaults' \in 0 .. MaxPriceFaults
  BY <1>2 DEF PricingInv, PricingTypeOK, PriceFault
<1>5. PricingTypeOK'
  BY <1>1, <1>3, <1>4 DEF PricingInv, PricingTypeOK, NextRound, NoQuote, PathPaymentOutcome
<1> QED
  BY <1>1, <1>5 DEF PricingInv

LEMMA AlertStays ==
  ASSUME PricingInv, UNCHANGED <<dayTotal, alerted>>, priceFaults' = priceFaults \/ PriceFault
  PROVE  dayTotal' \in Nat /\ alerted' \in BOOLEAN /\ AlertIsRaised'
<1>1. MaxPriceFaults \in Nat
  BY PricingNumbers
<1> QED
  BY <1>1 DEF PricingInv, PricingTypeOK, AlertIsRaised, PriceFault

LEMMA SpendRaisesAlert ==
  ASSUME PricingInv, NEW fee \in Nat, RecordFeeSpend(fee)
  PROVE  /\ dayTotal' \in Nat /\ alerted' \in BOOLEAN /\ AlertIsRaised'
         /\ priceFaults' = priceFaults \/ PriceFault
<1>1. MaxPriceFaults \in Nat /\ AlertThreshold \in Nat
  BY PricingNumbers
<1>2. PICK up \in BOOLEAN, told \in BOOLEAN :
        /\ IF up /\ told THEN UNCHANGED priceFaults ELSE PriceFault
        /\ dayTotal' = IF up THEN dayTotal + fee ELSE dayTotal
        /\ alerted' = (alerted \/ (told /\ fee > 0
             /\ (IF up THEN dayTotal + fee ELSE 0) > AlertThreshold))
  BY DEF RecordFeeSpend, IncrBy
<1>3. dayTotal \in Nat /\ alerted \in BOOLEAN /\ priceFaults \in 0 .. MaxPriceFaults
  BY DEF PricingInv, PricingTypeOK
<1>4. alerted' \in BOOLEAN
  BY <1>2
<1>5. CASE up /\ told
  <2>1. /\ priceFaults' = priceFaults /\ dayTotal' = dayTotal + fee
        /\ alerted' = (alerted \/ (fee > 0 /\ dayTotal + fee > AlertThreshold))
    BY <1>2, <1>5
  <2>2. AlertIsRaised'
    <3> SUFFICES ASSUME dayTotal' > AlertThreshold, priceFaults' = MaxPriceFaults PROVE alerted'
      BY DEF AlertIsRaised
    <3>1. CASE fee > 0
      BY <2>1, <3>1
    <3>2. CASE fee = 0
      <4>1. dayTotal > AlertThreshold /\ priceFaults = MaxPriceFaults
        BY <1>3, <2>1, <3>2
      <4>2. alerted
        BY <4>1 DEF PricingInv, AlertIsRaised
      <4> QED
        BY <2>1, <4>2, Zenon
    <3> QED
      BY <3>1, <3>2
  <2> QED
    BY <1>3, <1>4, <2>1, <2>2
<1>6. CASE ~(up /\ told)
  BY <1>1, <1>2, <1>3, <1>4, <1>6 DEF AlertIsRaised, PriceFault
<1> QED
  BY <1>5, <1>6

LEMMA ResultsTell ==
  \A o, sent, amount, source, fee :
    /\ PathResult(o, sent, amount, source).outcome = o
    /\ DirectResult(o, sent, fee).outcome = o
BY DEF PathResult, DirectResult, NoPayout

LEMMA PathKeeps == PricingInv /\ PayByPath => PricingInv'
<1> SUFFICES ASSUME PricingInv, PayByPath PROVE PricingInv'
  OBVIOUS
<1>1. /\ payouts < MaxPayouts /\ UNCHANGED <<dayTotal, alerted>>
      /\ priceFaults' = priceFaults \/ PriceFault
  BY DEF PayByPath
<1>2. \E o \in PathPaymentOutcome : \E sent, amount, source :
        NextRound(PathResult(o, sent, amount, source))
  BY DEF PayByPath, PathPaymentOutcome
<1>3. PICK result : /\ NextRound(result)
                    /\ result.outcome \in PathPaymentOutcome \cup {"refused"}
  BY <1>2, ResultsTell
<1> QED
  BY <1>1, <1>3, AlertStays, NextRoundKeeps

LEMMA DirectKeeps == PricingInv /\ PayDirectly => PricingInv'
<1> SUFFICES ASSUME PricingInv, PayDirectly PROVE PricingInv'
  OBVIOUS
<1>1. \A o \in {"FULL_FILL", "refused"} : \A sent, fee :
        DirectResult(o, sent, fee).outcome \in PathPaymentOutcome \cup {"refused"}
  BY ResultsTell DEF PathPaymentOutcome
<1>2. payouts < MaxPayouts
  BY DEF PayDirectly
<1>3. ASSUME UNCHANGED <<dayTotal, alerted, priceFaults>>,
             NEW o \in {"FULL_FILL", "refused"}, NextRound(DirectResult(o, FALSE, 0))
      PROVE  PricingInv'
  BY <1>1, <1>2, <1>3, AlertStays, NextRoundKeeps
<1>4. ASSUME NEW estimate \in Estimates,
             NextRound(DirectResult("FULL_FILL", TRUE, Buffered(estimate))),
             RecordFeeSpend(Buffered(estimate))
      PROVE  PricingInv'
  <2>1. Buffered(estimate) \in Nat
    BY BufferedIsNat, PricingAssumption
  <2> QED
    BY <1>1, <1>2, <1>4, <2>1, SpendRaisesAlert, NextRoundKeeps
<1> QED
  BY <1>3, <1>4 DEF PayDirectly

LEMMA TimeKeepsPrices ==
  ASSUME PricingInv, market' \in Rates, now' \in 0 .. MaxTime,
         UNCHANGED <<converts, quotes, payout, payouts, priceFaults>>,
         dayTotal' \in Nat, alerted' \in BOOLEAN,
         UNCHANGED <<dayTotal, alerted>> \/ dayTotal' = 0
  PROVE  PricingInv'
<1>1. AlertThreshold \in Nat
  BY PricingNumbers
<1> QED
  BY <1>1 DEF PricingInv, PricingTypeOK, AlertIsRaised, PathPaymentOutcome

LEMMA MovesKeepPrices ==
  ASSUME PricingInv, NEW rate \in Rates, NEW midnight \in BOOLEAN,
         MarketMoves(rate) \/ TimePasses(midnight)
  PROVE  PricingInv'
<1>1. MaxTime \in Nat
  BY PricingNumbers
<1>2. now \in 0 .. MaxTime /\ market \in Rates /\ dayTotal \in Nat /\ alerted \in BOOLEAN
  BY DEF PricingInv, PricingTypeOK
<1>3. CASE MarketMoves(rate)
  BY <1>2, <1>3, TimeKeepsPrices DEF MarketMoves
<1>4. CASE TimePasses(midnight)
  <2>1. now' \in 0 .. MaxTime
    BY <1>1, <1>2, <1>4 DEF TimePasses
  <2>2. /\ alerted' \in BOOLEAN /\ dayTotal' \in Nat
        /\ UNCHANGED <<dayTotal, alerted>> \/ dayTotal' = 0
        /\ market' \in Rates
        /\ UNCHANGED <<converts, quotes, payout, payouts, priceFaults>>
    BY <1>2, <1>4 DEF TimePasses
  <2> QED
    BY <2>1, <2>2, TimeKeepsPrices
<1> QED
  BY <1>3, <1>4

LEMMA PricingKeeps == PricingInv /\ [PricingNext]_pricingVars => PricingInv'
<1> SUFFICES ASSUME PricingInv, [PricingNext]_pricingVars PROVE PricingInv'
  OBVIOUS
<1>1. CASE UNCHANGED pricingVars
  BY <1>1 DEF pricingVars, PricingInv, PricingTypeOK, AlertIsRaised
<1>2. CASE PricingNext
  <2>1. Rates # {}
    BY DEF PricingInv, PricingTypeOK
  <2> QED
    BY <1>2, <2>1, AskingKeeps, ArrivalKeeps, PathKeeps, DirectKeeps, MovesKeepPrices DEF PricingNext
<1> QED
  BY <1>1, <1>2

-----------------------------------------------------------------------------
(* Sums.  MapThenSumSet is a recursive function on the subsets of its set.    *)
(* There is one because there is one on the subsets of at most n elements,    *)
(* for every n; and what is said of all of its values would have a smallest   *)
(* subset to be wrong of.                                                     *)

LEMMA HasLeast ==
  ASSUME NEW T \in SUBSET Nat, T # {}
  PROVE  \E n \in T : \A m \in T : n <= m
<1> DEFINE R == OpToRel(<, Nat)
<1>1. IsWellFoundedOn(R, Nat)
  BY NatLessThanWellFounded
<1>2. \A x, y \in Nat : x < y => <<x, y>> \in R
  BY DEF OpToRel
<1> HIDE DEF R
<1>3. PICK x \in T : \A y \in T : ~ (<<y, x>> \in R)
  BY <1>1, WFMin
<1>4. x \in Nat /\ \A y \in T : y \in Nat /\ ~ (y < x)
  BY <1>2, <1>3
<1> QED
  BY <1>4

\* The element that the sum takes next, and its equation over the sets of D.
OneOf(s) == CHOOSE x \in s : TRUE

SumEq(q, D, g) ==
  g = [s \in D |-> IF s = {} THEN 0 ELSE q[OneOf(s)].worth + g[s \ {OneOf(s)}]]

SumOver(q, S) == (CHOOSE g : SumEq(q, SUBSET S, g))[S]

\* What MapThenSumSet stands for.
LEMMA PayoutIs ==
  PayoutAmount = IF Accepted = {} THEN Required ELSE SumOver(quotes, Accepted)
BY DEF PayoutAmount, MapThenSumSet, MapThenFoldSet, SumOver, SumEq, OneOf

\* The subsets of S of at most n elements.
Small(S, n) == {s \in SUBSET S : Cardinality(s) <= n}

\* The set without that element is smaller by one.
LEMMA OneLess ==
  ASSUME NEW S, IsFiniteSet(S), NEW s \in SUBSET S, s # {}
  PROVE  /\ OneOf(s) \in s /\ s \ {OneOf(s)} \in SUBSET S
         /\ Cardinality(s) \in Nat
         /\ Cardinality(s \ {OneOf(s)}) = Cardinality(s) - 1
         /\ Cardinality(s) > 0
<1>1. OneOf(s) \in s
  BY DEF OneOf
<1>2. IsFiniteSet(s)
  BY FS_Subset
<1>3. Cardinality(s) \in Nat
  BY <1>2, FS_CardinalityType
<1>4. Cardinality(s \ {OneOf(s)}) = Cardinality(s) - 1
  BY <1>1, <1>2, FS_RemoveElement
<1>5. Cardinality(s) # 0
  BY <1>2, FS_EmptySet
<1> QED
  BY <1>1, <1>3, <1>4, <1>5

\* There is a sum over all subsets of at most n elements.
LEMMA SumsExist ==
  ASSUME NEW S, IsFiniteSet(S), NEW q, NEW n \in Nat
  PROVE  \E g : SumEq(q, Small(S, n), g)
<1> DEFINE Missing == {k \in Nat : ~ \E g : SumEq(q, Small(S, k), g)}
<1>1. SUFFICES ASSUME Missing # {} PROVE FALSE
  OBVIOUS
<1>2. PICK k \in Missing : \A m \in Missing : k <= m
  BY <1>1, HasLeast
<1>3. CASE k = 0
  <2>1. Small(S, 0) \subseteq {{}}
    <3>1. ASSUME NEW s \in SUBSET S, s # {}
          PROVE  Cardinality(s) \in Nat /\ Cardinality(s) > 0
      BY <3>1, OneLess
    <3> QED
      BY <3>1 DEF Small
  <2>2. SumEq(q, Small(S, 0), [s \in Small(S, 0) |-> 0])
    BY <2>1 DEF SumEq
  <2> QED
    BY <1>2, <1>3, <2>2
<1>4. CASE k # 0
  <2>1. k - 1 \in Nat /\ k - 1 \notin Missing
    BY <1>2, <1>4
  <2>2. PICK g : SumEq(q, Small(S, k - 1), g)
    BY <2>1
  <2> DEFINE h == [s \in Small(S, k) |->
                     IF s \in Small(S, k - 1) THEN g[s]
                     ELSE q[OneOf(s)].worth + g[s \ {OneOf(s)}]]
  <2>3. ASSUME NEW s \in Small(S, k), s # {}
        PROVE  s \ {OneOf(s)} \in Small(S, k - 1) /\ s \ {OneOf(s)} \in Small(S, k)
    BY <1>2, <2>3, OneLess DEF Small
  <2>4. ASSUME NEW s \in Small(S, k)
        PROVE  h[s] = IF s = {} THEN 0 ELSE q[OneOf(s)].worth + h[s \ {OneOf(s)}]
    <3>1. CASE s = {}
      <4>1. s \in Small(S, k - 1)
        BY <2>1, <3>1, FS_EmptySet DEF Small
      <4>2. g[s] = 0
        BY <2>2, <3>1, <4>1 DEF SumEq
      <4> QED
        BY <3>1, <4>1, <4>2
    <3>2. CASE s # {}
      <4>1. h[s \ {OneOf(s)}] = g[s \ {OneOf(s)}]
        BY <2>3, <3>2
      <4>2. s \in Small(S, k - 1) => g[s] = q[OneOf(s)].worth + g[s \ {OneOf(s)}]
        BY <2>2, <3>2 DEF SumEq
      <4> QED
        BY <3>2, <4>1, <4>2
    <3> QED
      BY <3>1, <3>2
  <2>5. h = [s \in Small(S, k) |-> h[s]]
    OBVIOUS
  <2> HIDE DEF h
  <2>6. SumEq(q, Small(S, k), h)
    BY <2>4, <2>5 DEF SumEq
  <2> QED
    BY <1>2, <2>6
<1> QED
  BY <1>3, <1>4

\* The sum of natural numbers is one, and no smaller than any of some member.
LEMMA SumOfNats ==
  ASSUME NEW S, IsFiniteSet(S), NEW q, \A p \in S : q[p].worth \in Nat
  PROVE  /\ SumOver(q, S) \in Nat
         /\ S # {} => \E p \in S : SumOver(q, S) >= q[p].worth
<1> DEFINE sum == CHOOSE g : SumEq(q, SUBSET S, g)
<1>1. Cardinality(S) \in Nat /\ SUBSET S = Small(S, Cardinality(S))
  <2>1. \A s \in SUBSET S : Cardinality(s) <= Cardinality(S)
    BY FS_Subset
  <2> QED
    BY <2>1, FS_CardinalityType DEF Small
<1>2. SumEq(q, SUBSET S, sum)
  <2>1. \E g : SumEq(q, Small(S, Cardinality(S)), g)
    BY <1>1, SumsExist
  <2>2. \E g : SumEq(q, SUBSET S, g)
    BY <1>1, <2>1, Zenon
  <2> QED
    BY <2>2, Zenon
<1> HIDE DEF sum
<1>3. \A s \in SUBSET S : sum[s] = IF s = {} THEN 0 ELSE q[OneOf(s)].worth + sum[s \ {OneOf(s)}]
  BY <1>2 DEF SumEq
<1>n. {} \in SUBSET S /\ sum[{}] = 0
  BY <1>3
<1>4. \A s \in SUBSET S : sum[s] \in Nat
  <2> DEFINE Bad == {k \in Nat : \E s \in SUBSET S : Cardinality(s) = k /\ sum[s] \notin Nat}
  <2>1. SUFFICES ASSUME NEW t \in SUBSET S, sum[t] \notin Nat PROVE FALSE
    OBVIOUS
  <2>2. t # {}
    BY <1>n, <2>1
  <2>3. Cardinality(t) \in Nat
    BY <2>2, OneLess
  <2>4. PICK k \in Bad : \A m \in Bad : k <= m
    BY <2>1, <2>3, HasLeast
  <2>5. PICK s \in SUBSET S : Cardinality(s) = k /\ sum[s] \notin Nat
    BY <2>4
  <2>6. s # {}
    <3>1. 0 \in Nat
      OBVIOUS
    <3> QED
      BY <1>n, <2>5, <3>1, Zenon
  <2>7. sum[s \ {OneOf(s)}] \in Nat
    <3>1. Cardinality(s \ {OneOf(s)}) = k - 1 /\ k - 1 \in Nat /\ s \ {OneOf(s)} \in SUBSET S
      <4>1. /\ s \ {OneOf(s)} \in SUBSET S
            /\ Cardinality(s) \in Nat
            /\ Cardinality(s \ {OneOf(s)}) = Cardinality(s) - 1
            /\ Cardinality(s) > 0
        BY <2>6, OneLess
      <4> QED
        BY <2>5, <4>1
    <3>2. k - 1 \notin Bad
      BY <2>4, <3>1
    <3> QED
      BY <3>1, <3>2
  <2>8. sum[s] = q[OneOf(s)].worth + sum[s \ {OneOf(s)}]
    BY <1>3, <2>6
  <2>9. q[OneOf(s)].worth \in Nat
    BY <2>6, OneLess
  <2> QED
    BY <2>5, <2>7, <2>8, <2>9
<1>5. SumOver(q, S) = sum[S]
  BY DEF sum, SumOver
<1>6. ASSUME S # {} PROVE \E p \in S : sum[S] >= q[p].worth
  <2>1. OneOf(S) \in S /\ S \ {OneOf(S)} \in SUBSET S
    BY <1>6, OneLess
  <2>2. sum[S] = q[OneOf(S)].worth + sum[S \ {OneOf(S)}]
    BY <1>3, <1>6
  <2> QED
    BY <1>4, <2>1, <2>2
<1> QED
  BY <1>4, <1>5, <1>6

-----------------------------------------------------------------------------
(* The slippage of path payments.  A round pays at least what the group       *)
(* asks of one member (PayoutAmount), the network takes at most SendMax of    *)
(* it, and what it takes is compared with the tolerance, rounded: as a        *)
(* payment that takes no less than the amount is within the tolerance up to   *)
(* SendMax, only one that took less is refused.                               *)

(* A rate's decimals resolve the tolerance, as the seven of the code do, and
   so does what a group asks, unless no slippage is tolerated: at the default
   of 200 basis points it has to be at least 1225 smallest units.  Below, the
   rounding of SendMax alone may exceed the tolerance. *)
AmountsResolveTolerance ==
  /\ (ToleranceBps * Scale) % 10000 = 0
  /\ \/ ToleranceBps = 0
     \/ 10000 * (10000 - ToleranceBps) <= 2 * Required * (ToleranceBps * ToleranceBps)

LEMMA Quotient ==
  ASSUME NEW n \in Nat, NEW d \in Nat, d > 0
  PROVE  /\ n \div d \in Nat
         /\ (n \div d) * d <= n
         /\ n < (n \div d) * d + d
OBVIOUS

LEMMA NoSmaller ==
  ASSUME NEW x \in Int, NEW y \in Int, NEW d \in Int, d > 0, x * d <= y * d
  PROVE  x <= y
OBVIOUS

LEMMA RoundedIs ==
  ASSUME NEW n \in Nat, NEW d \in Nat, d > 0
  PROVE  /\ Rounded(n, d) \in Nat
         /\ Rounded(n, d) * (2 * d) <= 2 * n + d
         /\ 2 * n + d < Rounded(n, d) * (2 * d) + 2 * d
<1>1. 2 * n + d \in Nat /\ 2 * d \in Nat /\ 2 * d > 0
  OBVIOUS
<1> QED
  BY <1>1, Quotient DEF Rounded

\* SendMax in whole numbers.
LEMMA SendMaxIs ==
  ASSUME NEW a \in Nat, NEW s \in Nat, s <= SendMax(a, Scale)
  PROVE  20000 * s <= 2 * a * (10000 + ToleranceBps) + 10000
<1> DEFINE b == a * (10000 + ToleranceBps)
           m == SendMax(a, Scale)
<1>1. b \in Nat /\ Scale * 10000 \in Nat /\ Scale * 10000 > 0 /\ Scale \in Nat /\ Scale > 0
  BY PricingAssumption
<1>2. Scale * b \in Nat
  BY <1>1
<1>3. a * Scale * (10000 + ToleranceBps) = Scale * b
  BY PricingAssumption
<1>4. m = Rounded(Scale * b, Scale * 10000)
  BY <1>3 DEF SendMax
<1>b. 2 * b = 2 * a * (10000 + ToleranceBps)
  BY PricingAssumption
<1> HIDE DEF b, m
<1>5. m \in Nat /\ m * (2 * (Scale * 10000)) <= 2 * (Scale * b) + Scale * 10000
  <2> DEFINE n == Scale * b
             d == Scale * 10000
  <2>1. n \in Nat /\ d \in Nat /\ d > 0 /\ m = Rounded(n, d)
    BY <1>1, <1>2, <1>4
  <2> HIDE DEF n, d
  <2>2. m \in Nat /\ m * (2 * d) <= 2 * n + d
    BY <2>1, RoundedIs
  <2> QED
    BY <2>2 DEF n, d
<1>6. (20000 * m) * Scale <= (2 * b + 10000) * Scale
  BY <1>1, <1>5
<1>7. 20000 * m <= 2 * b + 10000
  <2>1. 20000 * m \in Int /\ 2 * b + 10000 \in Int /\ Scale \in Int
    BY <1>1, <1>5
  <2> QED
    BY <1>1, <1>6, <2>1, NoSmaller
<1> QED
  <2>1. s <= m
    BY DEF m
  <2>2. 20000 * s <= 2 * b + 10000
    BY <1>1, <1>5, <1>7, <2>1
  <2> QED
    BY <1>b, <2>2

\* What is taken is within the tolerance if it is no less than the amount and
\* no more than the amount divided by 1 - tolerance.
LEMMA ToleratesSource ==
  ASSUME AmountsResolveTolerance, NEW a \in Nat, NEW s \in Nat,
         s > 0, s >= a, s * (10000 - ToleranceBps) <= a * 10000
  PROVE  WithinTolerance(Scale, EffectiveRate(a, s))
<1> DEFINE E == EffectiveRate(a, s)
           K == (ToleranceBps * Scale) \div 10000
<1>0. Scale \in Nat /\ Scale > 0 /\ ToleranceBps \in Nat /\ ToleranceBps <= 10000
      /\ a * Scale \in Nat /\ s * Scale \in Nat
  BY PricingAssumption
<1>1. /\ E \in Nat /\ E * (2 * s) <= 2 * (a * Scale) + s
      /\ 2 * (a * Scale) + s < E * (2 * s) + 2 * s
  BY <1>0, RoundedIs DEF EffectiveRate
<1>2. K \in Nat /\ 10000 * K = ToleranceBps * Scale
  <2> DEFINE n == ToleranceBps * Scale
  <2>1. n \in Nat /\ n % 10000 = 0
    BY <1>0 DEF AmountsResolveTolerance
  <2> HIDE DEF n
  <2>2. n \div 10000 \in Nat /\ 10000 * (n \div 10000) = n
    BY <2>1
  <2> QED
    BY <2>2 DEF n
<1> HIDE DEF E, K
<1>3. E <= Scale
  <2>1. a * Scale <= s * Scale
    BY <1>0
  <2>2. E * (2 * s) < (Scale + 1) * (2 * s)
    <3>1. (Scale + 1) * (2 * s) = 2 * (s * Scale) + 2 * s
      BY <1>0
    <3> QED
      BY <1>0, <1>1, <2>1, <3>1
  <2>3. ~ (Scale + 1 <= E)
    <3>1. SUFFICES ASSUME Scale + 1 <= E PROVE FALSE
      OBVIOUS
    <3>2. (Scale + 1) * (2 * s) <= E * (2 * s)
      BY <1>0, <1>1, <3>1
    <3>3. E * (2 * s) \in Int /\ (Scale + 1) * (2 * s) \in Int
      BY <1>0, <1>1
    <3> QED
      BY <2>2, <3>2, <3>3
  <2> QED
    BY <1>0, <1>1, <2>3
<1>4. Scale - K <= E
  <2>1. SUFFICES ASSUME E + 1 <= Scale - K PROVE FALSE
    BY <1>0, <1>1, <1>2
  <2>2. (E + 1) * (2 * s) <= (Scale - K) * (2 * s)
    BY <1>0, <1>1, <1>2, <2>1
  <2>3. 2 * (a * Scale) + s < (Scale - K) * (2 * s)
    <3>1. (E + 1) * (2 * s) = E * (2 * s) + 2 * s
      BY <1>1
    <3>2. E * (2 * s) \in Int /\ (Scale - K) * (2 * s) \in Int
      BY <1>0, <1>1, <1>2
    <3> QED
      BY <1>0, <1>1, <2>2, <3>1, <3>2
  <2>4. 10000 * ((Scale - K) * (2 * s)) = 2 * (s * (10000 - ToleranceBps)) * Scale
    <3>1. 10000 * (Scale - K) = (10000 - ToleranceBps) * Scale
      BY <1>0, <1>2
    <3>2. 10000 * ((Scale - K) * (2 * s)) = (10000 * (Scale - K)) * (2 * s)
      BY <1>0, <1>2
    <3> QED
      BY <1>0, <3>1, <3>2
  <2>5. (s * (10000 - ToleranceBps)) * Scale <= (a * 10000) * Scale
    <3>1. s * (10000 - ToleranceBps) \in Int /\ a * 10000 \in Int
      BY <1>0
    <3> QED
      BY <1>0, <3>1
  <2>6. (a * 10000) * Scale = 10000 * (a * Scale)
    BY <1>0
  <2>7. 10000 * ((Scale - K) * (2 * s)) <= 20000 * (a * Scale)
    <3> DEFINE u == (s * (10000 - ToleranceBps)) * Scale
    <3>1. 2 * (s * (10000 - ToleranceBps)) * Scale = 2 * u /\ u \in Int
      BY <1>0
    <3> HIDE DEF u
    <3> QED
      BY <1>0, <2>4, <2>5, <2>6, <3>1 DEF u
  <2>8. (Scale - K) * (2 * s) \in Int
    BY <1>0, <1>2
  <2> QED
    BY <1>0, <2>3, <2>7, <2>8
<1>5. Deviation(E, Scale) = Scale - E
  BY <1>0, <1>1, <1>3 DEF Deviation
<1>6. (Scale - E) * 10000 <= ToleranceBps * Scale
  BY <1>0, <1>1, <1>2, <1>4
<1> QED
  BY <1>5, <1>6 DEF WithinTolerance, E

LEMMA ToleranceNumbers ==
  ToleranceBps \in Nat /\ ToleranceBps <= 10000 /\ Required \in Nat
<1>1. ToleranceBps \in 0 .. 10000
  BY PricingAssumption
<1>2. Required \in Nat
  BY PricingAssumption
<1> QED
  BY <1>1, <1>2

\* SendMax grants 1 + tolerance, which is less than 1 / (1 - tolerance) by the
\* square of the tolerance: that must outweigh its rounding.
LEMMA MaxIsTolerated ==
  ASSUME AmountsResolveTolerance, NEW a \in Nat, NEW s \in Nat, a >= Required,
         s >= a, s <= SendMax(a, Scale)
  PROVE  s * (10000 - ToleranceBps) <= a * 10000
<1>0. ToleranceBps \in Nat /\ ToleranceBps <= 10000 /\ Required \in Nat
  BY ToleranceNumbers
<1>1. 20000 * s <= 2 * a * (10000 + ToleranceBps) + 10000
  BY SendMaxIs
<1>2. CASE ToleranceBps = 0
  BY <1>0, <1>1, <1>2
<1>3. CASE 10000 * (10000 - ToleranceBps) <= 2 * Required * (ToleranceBps * ToleranceBps)
  <2> DEFINE q == ToleranceBps * ToleranceBps
             c == 10000 - ToleranceBps
  <2>1. q \in Nat /\ c \in Nat /\ c * (10000 + ToleranceBps) = 100000000 - q
    BY <1>0
  <2>2. 2 * Required * q <= 2 * a * q
    <3>1. Required * q <= a * q
      BY <1>0, <2>1
    <3> QED
      BY <1>0, <2>1, <3>1
  <2>3. (20000 * s) * c <= (2 * a * (10000 + ToleranceBps) + 10000) * c
    <3>1. 20000 * s \in Int /\ 2 * a * (10000 + ToleranceBps) + 10000 \in Int
      BY <1>0
    <3> QED
      BY <1>1, <2>1, <3>1
  <2>4. (2 * a * (10000 + ToleranceBps) + 10000) * c
          = 2 * a * (100000000 - q) + 10000 * c
    <3>1. (2 * a * (10000 + ToleranceBps)) * c = 2 * a * (c * (10000 + ToleranceBps))
      BY <1>0, <2>1
    <3>2. (2 * a * (10000 + ToleranceBps) + 10000) * c
            = (2 * a * (10000 + ToleranceBps)) * c + 10000 * c
      BY <1>0, <2>1
    <3> QED
      BY <2>1, <3>1, <3>2
  <2>5. 10000 * c <= 2 * a * q
    <3>1. 2 * Required * q \in Int /\ 2 * a * q \in Int /\ 10000 * c \in Int
      BY <1>0, <2>1
    <3> QED
      BY <1>3, <2>2, <3>1
  <2>6. 2 * a * (100000000 - q) = 200000000 * a - 2 * a * q
    BY <2>1
  <2>7. (20000 * s) * c = 20000 * (s * c) /\ s * c \in Int /\ 2 * a * q \in Int
    BY <2>1
  <2> HIDE DEF q, c
  <2>8. 20000 * (s * c) <= 200000000 * a
    BY <2>1, <2>3, <2>4, <2>5, <2>6, <2>7
  <2> QED
    BY <2>7, <2>8 DEF c
<1> QED
  BY <1>2, <1>3 DEF AmountsResolveTolerance

\* A round pays what the group asks of a member, or more.
LEMMA PayoutIsEnough ==
  ASSUME PricingInv
  PROVE  PayoutAmount \in Nat /\ PayoutAmount >= Required
<1>1. Required \in Nat /\ IsFiniteSet(Payers)
  BY PricingAssumption
<1>2. CASE Accepted = {}
  BY <1>1, <1>2 DEF PayoutAmount
<1>3. CASE Accepted # {}
  <2>1. \A p \in Accepted : quotes[p].worth \in Nat /\ quotes[p].worth >= Required
    BY <1>1 DEF PricingInv, PricingTypeOK, Quotes, Accepted
  <2>2. IsFiniteSet(Accepted)
    BY <1>1, FS_Subset DEF Accepted
  <2>3. SumOver(quotes, Accepted) \in Nat
    BY <2>1, <2>2, SumOfNats
  <2>4. PICK p \in Accepted : SumOver(quotes, Accepted) >= quotes[p].worth
    BY <1>3, <2>1, <2>2, SumOfNats
  <2>5. quotes[p].worth \in Nat /\ quotes[p].worth >= Required
    BY <2>1
  <2> QED
    BY <1>1, <1>3, <2>3, <2>4, <2>5, PayoutIs
<1> QED
  BY <1>2, <1>3

\* A payment that was executed and refused has taken less than the amount.
LEMMA RefusedTookLess ==
  ASSUME AmountsResolveTolerance, NEW a \in Nat, NEW s \in Nat, a >= Required, s > 0,
         s <= SendMax(a, LockedRate), ~WithinTolerance(LockedRate, EffectiveRate(a, s))
  PROVE  s * LockedRate < a * Scale
<1>1. LockedRate = Scale /\ Scale \in Nat /\ Scale > 0
  BY PricingNumbers DEF LockedRate
<1>2. ~ (s >= a)
  BY <1>1, MaxIsTolerated, ToleratesSource
<1> QED
  BY <1>1, <1>2

LEMMA SlippageStep ==
  ASSUME AmountsResolveTolerance, PricingInv, SlippageIsNeverWorse, [PricingNext]_pricingVars
  PROVE  SlippageIsNeverWorse'
<1>1. CASE UNCHANGED payout
  BY <1>1 DEF SlippageIsNeverWorse, LockedRate
<1>2. CASE PayDirectly
  <2>1. payout'.outcome \in {"FULL_FILL", "refused"}
    BY <1>2, Zenon DEF PayDirectly, NextRound, DirectResult, NoPayout
  <2> QED
    BY <2>1 DEF SlippageIsNeverWorse
<1>3. CASE PayByPath
  <2> DEFINE a == PayoutAmount
             s == RoundedUp(a * Scale, market)
  <2>1. a \in Nat /\ a >= Required
    BY PayoutIsEnough
  <2>2. s \in Nat
    <3>1. market \in Nat /\ market > 0 /\ Scale \in Nat
      BY PricingNumbers DEF PricingInv, PricingTypeOK
    <3>2. a * Scale \in Nat
      BY <2>1, <3>1
    <3>3. a * Scale + market - 1 \in Nat
      BY <3>1, <3>2
    <3> QED
      BY <3>1, <3>3, Quotient DEF RoundedUp
  <2>3. \/ payout'.sent = FALSE \/ payout'.outcome = "FULL_FILL"
        \/ /\ payout'.amount = a /\ payout'.source = s /\ s > 0
           /\ s <= SendMax(a, LockedRate) /\ ~WithinTolerance(LockedRate, EffectiveRate(a, s))
    BY <1>3 DEF PayByPath, NextRound, PathResult, NoPayout
  <2> HIDE DEF a, s
  <2> QED
    BY <2>1, <2>2, <2>3, RefusedTookLess DEF SlippageIsNeverWorse, LockedRate
<1> QED
  BY <1>1, <1>2, <1>3
  DEF PricingNext, pricingVars, PayInUnit, AskRate, RateArrives, Elsewhere, MarketMoves, TimePasses

-----------------------------------------------------------------------------
(* What the chain is read to say.  The transaction and its report stay as    *)
(* they are and its phase only moves on, so every answer is explained by the *)
(* phase that was reached: what was taken for good had been applied, what    *)
(* was FAILED had failed, and neither turns into the other.                  *)

ThingsSaid == {"XLM", "number", "PENDING", "CONFIRMED", "FAILED", "gateway", "internal", "request"}

SaidGood == said.verified # {} \/ said.amount # {} \/ "CONFIRMED" \in said.verdict
SaidFailed == "FAILED" \in said.verdict

ReadingInv ==
  /\ tx \in Transactions /\ report \in Reports
  /\ phase \in {"unknown", "pending", "success", "failed", "forgotten"}
  /\ said \in [Questions -> SUBSET (Contracts \cup Amounts \cup ThingsSaid)]
  /\ said.verified \subseteq Contracts /\ said.refused \subseteq Contracts
  /\ said.amount \subseteq Amounts
  /\ said.asset \subseteq {"XLM", "number"}
  /\ said.verdict \subseteq {"PENDING", "CONFIRMED", "FAILED"}
  /\ said.error \subseteq {"gateway", "internal", "request"}
  /\ rpcTroubles \in 0 .. MaxRpcTroubles
  /\ SaidGood => phase \in {"success", "forgotten"}
  /\ SaidFailed => phase \in {"failed", "forgotten"}
  /\ ~(SaidGood /\ SaidFailed)
  /\ said.amount \subseteq {AmountOf} /\ (said.amount # {} => Readable # {})
  /\ \A c \in said.verified : IsContributionCall(c)

LEMMA ArgsAreShort ==
  ASSUME tx \in Transactions
  PROVE  /\ Len(tx.args) \in 0 .. 2
         /\ \A i \in 1 .. Len(tx.args) : tx.args[i] \in Args
<1>1. tx.args \in ArgLists
  BY DEF Transactions, ArgLists
<1> QED
  BY <1>1 DEF ArgLists

\* The first argument that reads as a number is one of the numbers.
LEMMA AmountIsAnArgument ==
  ASSUME tx \in Transactions, Readable # {}
  PROVE  /\ AmountOf \in Amounts
         /\ \E i \in 1 .. Len(tx.args) : tx.args[i] = [type |-> "i128", value |-> AmountOf]
<1>1. Readable \subseteq 1 .. Len(tx.args) /\ Readable \subseteq {1, 2}
  BY ArgsAreShort DEF Readable
<1>2. \E i \in Readable : \A j \in Readable : i <= j
  <2>1. CASE 1 \in Readable
    BY <1>1, <2>1
  <2>2. CASE 1 \notin Readable
    <3>1. Readable = {2}
      BY <1>1, <2>2
    <3> QED
      BY <3>1
  <2> QED
    BY <2>1, <2>2
<1>3. AmountAt \in Readable
  BY <1>2 DEF AmountAt
<1> DEFINE arg == tx.args[AmountAt]
<1>4. arg \in Args /\ ReadScValAsString(arg) # Unreadable
  BY <1>1, <1>3, ArgsAreShort DEF Readable
<1>5. \E a \in Amounts : arg = [type |-> "i128", value |-> a]
  BY <1>4 DEF Args, ReadScValAsString, Unreadable
<1>6. AmountOf = arg.value
  BY <1>5 DEF AmountOf, ReadScValAsString
<1>7. AmountOf \in Amounts /\ arg = [type |-> "i128", value |-> AmountOf]
  <2>1. PICK a \in Amounts : arg = [type |-> "i128", value |-> a]
    BY <1>5
  <2>2. AmountOf = a
    BY <1>6, <2>1
  <2> QED
    BY <2>1, <2>2
<1>8. AmountAt \in 1 .. Len(tx.args)
  BY <1>1, <1>3
<1> QED
  BY <1>7, <1>8

LEMMA ReadingStarts == ReadingInit => ReadingInv
<1> SUFFICES ASSUME ReadingInit PROVE ReadingInv
  OBVIOUS
<1>1. \A q \in Questions : said[q] = {}
  BY DEF ReadingInit
<1>2. said \in [Questions -> SUBSET (Contracts \cup Amounts \cup ThingsSaid)]
  BY DEF ReadingInit
<1>3. rpcTroubles \in 0 .. MaxRpcTroubles
  BY ReadingAssumption DEF ReadingInit
<1> QED
  BY <1>1, <1>2, <1>3 DEF ReadingInit, ReadingInv, SaidGood, SaidFailed, Questions

LEMMA ReadingUnchanged ==
  ASSUME ReadOnly
  PROVE  AmountOf' = AmountOf /\ AssetOf' = AssetOf /\ Readable' = Readable /\ HasAmount' = HasAmount
         /\ \A c : IsContributionCall(c)' = IsContributionCall(c)
BY DEF ReadOnly, AmountOf, AmountAt, AssetOf, Readable, HasAmount, IsContributionCall, EnvelopeCalls,
       DirectMethod, DirectContract

\* An answer to one question leaves the others as they were.
LEMMA SayOne ==
  ASSUME ReadingInv, NEW q \in Questions, NEW x, Say(q, x)
  PROVE  /\ said'[q] = said[q] \cup {x}
         /\ \A p \in Questions \ {q} : said'[p] = said[p]
         /\ x \in Contracts \cup Amounts \cup ThingsSaid
              => said' \in [Questions -> SUBSET (Contracts \cup Amounts \cup ThingsSaid)]
BY DEF ReadingInv, Say

LEMMA ErrorKeeps ==
  ASSUME ReadingInv, ReadOnly,
         RpcError \/ (Say("error", "request") /\ UNCHANGED rpcTroubles)
  PROVE  ReadingInv'
<1>1. PICK e \in {"gateway", "internal", "request"} : Say("error", e)
  BY DEF RpcError
<1>2. rpcTroubles' \in 0 .. MaxRpcTroubles
  BY ReadingAssumption DEF ReadingInv, RpcError
<1>3. /\ said'.error = said.error \cup {e}
      /\ \A p \in Questions \ {"error"} : said'[p] = said[p]
      /\ said' \in [Questions -> SUBSET (Contracts \cup Amounts \cup ThingsSaid)]
  BY <1>1, SayOne DEF Questions, ThingsSaid
<1> QED
  BY <1>2, <1>3, ReadingUnchanged DEF ReadingInv, ReadOnly, Questions, SaidGood, SaidFailed

LEMMA VerifyKeeps ==
  ASSUME ReadingInv, NEW g \in Contracts \cup {NoContract}, VerifyContributionForGroup(g)
  PROVE  ReadingInv'
<1> DEFINE c == GroupContract(g)
<1>1. c \in Contracts
  BY ReadingAssumption DEF GroupContract
<1>2. CASE RpcError
  BY <1>2, ErrorKeeps DEF VerifyContributionForGroup
<1>3. CASE Say("verified", c) /\ phase = "success" /\ IsContributionCall(c) /\ UNCHANGED rpcTroubles
  <2>1. /\ said'.verified = said.verified \cup {c}
        /\ \A p \in Questions \ {"verified"} : said'[p] = said[p]
        /\ said' \in [Questions -> SUBSET (Contracts \cup Amounts \cup ThingsSaid)]
    BY <1>1, <1>3, SayOne DEF Questions
  <2>2. ReadOnly
    BY DEF VerifyContributionForGroup
  <2> HIDE DEF c
  <2> QED
    BY <1>1, <1>3, <2>1, <2>2, ReadingUnchanged
    DEF ReadingInv, ReadOnly, Questions, SaidGood, SaidFailed
<1>4. CASE Say("refused", c) /\ UNCHANGED rpcTroubles
  <2>1. /\ said'.refused = said.refused \cup {c}
        /\ \A p \in Questions \ {"refused"} : said'[p] = said[p]
        /\ said' \in [Questions -> SUBSET (Contracts \cup Amounts \cup ThingsSaid)]
    BY <1>1, <1>4, SayOne DEF Questions
  <2>2. ReadOnly
    BY DEF VerifyContributionForGroup
  <2> HIDE DEF c
  <2> QED
    BY <1>1, <1>4, <2>1, <2>2, ReadingUnchanged
    DEF ReadingInv, ReadOnly, Questions, SaidGood, SaidFailed
<1> QED
  BY <1>2, <1>3, <1>4 DEF VerifyContributionForGroup

LEMMA StatusKeeps ==
  ASSUME ReadingInv, GetTransactionStatus
  PROVE  ReadingInv'
<1>1. CASE RpcError
  BY <1>1, ErrorKeeps DEF GetTransactionStatus
<1>2. CASE ~RpcError
  <2>1. PICK v \in {"PENDING", "CONFIRMED", "FAILED"} :
          /\ Say("verdict", v) /\ UNCHANGED rpcTroubles
          /\ v = "CONFIRMED" => phase = "success"
          /\ v = "FAILED" => phase = "failed"
    BY <1>2 DEF GetTransactionStatus
  <2>2. /\ said'.verdict = said.verdict \cup {v}
        /\ \A p \in Questions \ {"verdict"} : said'[p] = said[p]
        /\ said' \in [Questions -> SUBSET (Contracts \cup Amounts \cup ThingsSaid)]
    BY <2>1, SayOne DEF Questions, ThingsSaid
  <2>3. ReadOnly
    BY DEF GetTransactionStatus
  <2> QED
    BY <2>1, <2>2, <2>3, ReadingUnchanged
    DEF ReadingInv, ReadOnly, Questions, SaidGood, SaidFailed
<1> QED
  BY <1>1, <1>2

LEMMA AmountKeeps ==
  ASSUME ReadingInv, GetTransactionAmount
  PROVE  ReadingInv'
<1>0. ReadOnly
  BY DEF GetTransactionAmount
<1>1. CASE RpcError \/ (Say("error", "request") /\ UNCHANGED rpcTroubles)
  BY <1>0, <1>1, ErrorKeeps
<1>2. CASE /\ phase = "success" /\ HasAmount /\ UNCHANGED rpcTroubles
           /\ said' = [said EXCEPT !.amount = @ \cup {AmountOf}, !.asset = @ \cup {AssetOf}]
  <2>1. Readable # {} /\ AmountOf \in Amounts
    BY <1>2, AmountIsAnArgument DEF HasAmount, ReadingInv
  <2>2. AssetOf \in {"XLM", "number"}
    BY DEF AssetOf
  <2>3. PICK a, x : a = AmountOf /\ x = AssetOf
    OBVIOUS
  <2>4. said' = [said EXCEPT !["amount"] = @ \cup {a}, !["asset"] = @ \cup {x}]
    BY <1>2, <2>3
  <2>5. said \in [Questions -> SUBSET (Contracts \cup Amounts \cup ThingsSaid)]
    BY DEF ReadingInv
  <2>6. /\ said'.amount = said.amount \cup {a} /\ said'.asset = said.asset \cup {x}
        /\ \A p \in Questions \ {"amount", "asset"} : said'[p] = said[p]
        /\ said' \in [Questions -> SUBSET (Contracts \cup Amounts \cup ThingsSaid)]
    BY <2>1, <2>2, <2>3, <2>4, <2>5 DEF Questions, ThingsSaid
  <2> QED
    BY <1>0, <1>2, <2>1, <2>2, <2>3, <2>6, ReadingUnchanged
    DEF ReadingInv, ReadOnly, Questions, SaidGood, SaidFailed
<1> QED
  BY <1>1, <1>2 DEF GetTransactionAmount

LEMMA ReadingKeeps == ReadingInv /\ [ReadingNext]_readingVars => ReadingInv'
<1> SUFFICES ASSUME ReadingInv, [ReadingNext]_readingVars PROVE ReadingInv'
  OBVIOUS
<1>1. ASSUME NEW next, NodeHears(next) PROVE ReadingInv'
  <2>1. UNCHANGED <<tx, report, said, rpcTroubles>>
    BY <1>1 DEF NodeHears
  <2>2. /\ AmountOf' = AmountOf /\ Readable' = Readable
        /\ \A c : IsContributionCall(c)' = IsContributionCall(c)
    BY <2>1 DEF AmountOf, AmountAt, Readable, IsContributionCall, EnvelopeCalls, DirectMethod, DirectContract
  <2> QED
    BY <1>1, <2>1, <2>2 DEF NodeHears, ReadingInv, SaidGood, SaidFailed
<1>2. CASE UNCHANGED readingVars
  <2>1. ReadOnly /\ UNCHANGED <<phase, said, rpcTroubles>>
    BY <1>2 DEF readingVars, ReadOnly
  <2> QED
    BY <2>1, ReadingUnchanged DEF ReadingInv, ReadOnly, SaidGood, SaidFailed
<1> QED
  BY <1>1, <1>2, VerifyKeeps, StatusKeeps, AmountKeeps DEF ReadingNext, VerifyContribution

LEMMA ReadingIsRight == ReadingInv => ReadingTypeOK /\ AnswersAgree /\ VerifiedIsOurs
<1> SUFFICES ASSUME ReadingInv PROVE ReadingTypeOK /\ AnswersAgree /\ VerifiedIsOurs
  OBVIOUS
<1>1. ReadingTypeOK
  BY DEF ReadingInv, ReadingTypeOK
<1>2. Cardinality(said.amount) <= 1
  <2>1. said.amount = {} \/ said.amount = {AmountOf}
    BY DEF ReadingInv
  <2>2. Cardinality({}) = 0 /\ Cardinality({AmountOf}) = 1
    BY FS_EmptySet, FS_Singleton
  <2> QED
    BY <2>1, <2>2
<1>3. AnswersAgree
  BY <1>2 DEF ReadingInv, AnswersAgree, SaidGood, SaidFailed
<1>4. VerifiedIsOurs
  <2> SUFFICES ASSUME NEW c \in said.verified
               PROVE  /\ tx.kind = "call" /\ tx.fn = "contribute"
                      /\ tx.contract = c \/ report.direct = "method"
                      /\ \A a \in said.amount : \E i \in 1 .. Len(tx.args) :
                           tx.args[i] = [type |-> "i128", value |-> a]
    BY DEF VerifiedIsOurs
  <2>1. IsContributionCall(c) /\ c \in Contracts
    BY DEF ReadingInv
  <2>2. tx.contract \in Contracts
    BY ReadingAssumption DEF ReadingInv, Transactions
  <2>3. /\ tx.kind = "call" /\ tx.fn = "contribute"
        /\ tx.contract = c \/ report.direct = "method"
    BY <2>1, <2>2, ReadingAssumption
    DEF IsContributionCall, DirectMethod, DirectContract, EnvelopeCalls, ReadingInv, Reports
  <2>4. \A a \in said.amount : \E i \in 1 .. Len(tx.args) :
          tx.args[i] = [type |-> "i128", value |-> a]
    BY AmountIsAnArgument DEF ReadingInv
  <2> QED
    BY <2>3, <2>4
<1> QED
  BY <1>1, <1>3, <1>4

-----------------------------------------------------------------------------
(* Fail-over.  A call goes round the nodes from the one it has begun with,   *)
(* by an index of its own; where the index that all calls share stands in    *)
(* the meantime makes no difference to which nodes have failed it.           *)

NodeAt(start, k) == (start + k) % NumNodes

CallInv(call) ==
  /\ call.node = NodeAt(call.start, call.i)
  /\ \A k \in 0 .. call.i - 1 : NodeAt(call.start, k) \in call.failedOn

RpcInv ==
  /\ currentRpc \in Nodes
  /\ nodeUp \in [Nodes -> BOOLEAN]
  /\ rpcCall \in [RpcCalls -> Calling \cup Ended \cup {NoCall}]
  /\ prechecked \in BOOLEAN
  /\ \A c \in RpcCalls : rpcCall[c] \in Calling => CallInv(rpcCall[c])
  /\ GivesUpAfterAllNodes

LEMMA Remainders ==
  ASSUME NEW n \in Nat
  PROVE  /\ n % NumNodes \in Nodes
         /\ n < NumNodes => n % NumNodes = n /\ (n + NumNodes) % NumNodes = n
<1>1. NumNodes \in Nat \ {0}
  BY RpcAssumption
<1>2. n % NumNodes \in 0 .. NumNodes - 1
  BY <1>1
<1>3. n < NumNodes => n % NumNodes = n
  BY <1>1
<1>4. n < NumNodes => (n + NumNodes) % NumNodes = n
  BY <1>1
<1> QED
  BY <1>2, <1>3, <1>4 DEF Nodes

\* Going on from any node, every node is met within a round.
LEMMA RoundOfNodes ==
  ASSUME NEW s \in Nodes, NEW n \in Nodes
  PROVE  \E k \in Nodes : NodeAt(s, k) = n
<1>1. NumNodes \in Nat /\ s \in Nat /\ n \in Nat /\ s < NumNodes /\ n < NumNodes
  BY RpcAssumption DEF Nodes
<1>2. CASE s <= n
  <2>1. n - s \in Nodes /\ s + (n - s) = n
    BY <1>1, <1>2 DEF Nodes
  <2> QED
    BY <1>1, <2>1, Remainders DEF NodeAt
<1>3. CASE n < s
  <2>1. n + NumNodes - s \in Nodes /\ s + (n + NumNodes - s) = n + NumNodes
    BY <1>1, <1>3 DEF Nodes
  <2> QED
    BY <1>1, <2>1, Remainders DEF NodeAt
<1> QED
  BY <1>1, <1>2, <1>3

LEMMA UnderWayIsCalling ==
  ASSUME RpcInv, NEW c \in RpcCalls
  PROVE  UnderWay(c) <=> rpcCall[c] \in Calling
<1>1. rpcCall[c] \in Calling \cup Ended \cup {NoCall}
  BY DEF RpcInv
<1>2. rpcCall[c] \in Calling => UnderWay(c)
  BY DEF UnderWay, Calling
<1>3. rpcCall[c] \in Ended \cup {NoCall} => ~UnderWay(c) /\ rpcCall[c] \notin Calling
  BY DEF UnderWay, Ended, NoCall, Calling
<1> QED
  BY <1>1, <1>2, <1>3

\* A call begins a round, or goes on to its next node.
LEMMA TryNodeKeeps ==
  ASSUME RpcInv, NEW c \in RpcCalls, NEW call \in Calling, NEW i \in Nodes, TryNode(c, call, i),
         \A k \in 0 .. i - 1 : NodeAt(call.start, k) \in call.failedOn,
         nodeUp' = nodeUp, prechecked' \in BOOLEAN
  PROVE  RpcInv'
<1> DEFINE s == [call EXCEPT !.i = i, !.node = NodeAt(call.start, i)]
<1>1. NodeAt(call.start, i) \in Nodes /\ call.start + i \in Nat
  <2>1. call.start \in Nat /\ i \in Nat
    BY RpcAssumption DEF Calling, Nodes
  <2> QED
    BY <2>1, Remainders DEF NodeAt
<1>2. s \in Calling /\ CallInv(s)
  BY <1>1 DEF Calling, CallInv
<1>3. rpcCall' = [rpcCall EXCEPT ![c] = s] /\ currentRpc' \in Nodes
  BY <1>1 DEF TryNode, NodeAt
<1> HIDE DEF s
<1>4. \A d \in RpcCalls : rpcCall'[d] = IF d = c THEN s ELSE rpcCall[d]
  BY <1>3 DEF RpcInv
<1>5. GivesUpAfterAllNodes'
  <2>1. "stage" \in DOMAIN s
    BY <1>2 DEF Calling
  <2> QED
    BY <1>4, <2>1 DEF RpcInv, GivesUpAfterAllNodes, UnderWay, Nodes
<1> QED
  BY <1>2, <1>3, <1>4, <1>5 DEF RpcInv

LEMMA FailoverKeeps ==
  ASSUME RpcInv, NEW c \in RpcCalls, NEW kind \in Kinds, NEW stage \in Stages,
         NEW attempt \in 0 .. MaxInvokeTries - 1, Failover(c, kind, stage, attempt),
         nodeUp' = nodeUp, prechecked' \in BOOLEAN
  PROVE  RpcInv'
<1> DEFINE call == [kind |-> kind, stage |-> stage, attempt |-> attempt,
                    start |-> currentRpc, i |-> 0, node |-> currentRpc, failedOn |-> {}]
<1>1. 0 \in Nodes /\ call \in Calling
  BY RpcAssumption DEF Nodes, Calling, RpcInv
<1>2. TryNode(c, call, 0)
  BY DEF Failover
<1> QED
  BY <1>1, <1>2, TryNodeKeeps

LEMMA EndCallKeeps ==
  ASSUME RpcInv, NEW c \in RpcCalls, NEW how \in Endings, NEW F \in SUBSET Nodes,
         EndCall(c, how, F), how = "unreachable" => F = Nodes,
         nodeUp' = nodeUp, prechecked' \in BOOLEAN
  PROVE  RpcInv'
<1> DEFINE s == [ended |-> how, failedOn |-> F]
<1>1. s \in Ended /\ s \notin Calling
  BY DEF Ended, Calling
<1>2. rpcCall' = [rpcCall EXCEPT ![c] = s] /\ currentRpc' = currentRpc
  BY DEF EndCall
<1>3. \A d \in RpcCalls : rpcCall'[d] = IF d = c THEN s ELSE rpcCall[d]
  BY <1>2 DEF RpcInv
<1>4. GivesUpAfterAllNodes'
  BY <1>3 DEF RpcInv, GivesUpAfterAllNodes, UnderWay, Nodes
<1> QED
  BY <1>1, <1>2, <1>3, <1>4 DEF RpcInv

LEMMA NodeFailsKeeps ==
  ASSUME RpcInv, NEW c \in RpcCalls, NodeFails(c)
  PROVE  RpcInv'
<1> DEFINE call == [rpcCall[c] EXCEPT !.failedOn = @ \cup {rpcCall[c].node}]
           retries == /\ call.kind = "invoke" /\ call.stage = "simulate"
                      /\ call.attempt < MaxInvokeTries - 1
<1>1. rpcCall[c] \in Calling /\ CallInv(rpcCall[c])
  BY UnderWayIsCalling DEF NodeFails, RpcInv
<1>2. /\ call \in Calling
      /\ call.i = rpcCall[c].i /\ call.start = rpcCall[c].start
      /\ call.failedOn = rpcCall[c].failedOn \cup {rpcCall[c].node}
  BY <1>1 DEF Calling
<1>3. /\ nodeUp' = nodeUp /\ prechecked' \in BOOLEAN
      /\ \/ call.i < NumNodes - 1 /\ TryNode(c, call, call.i + 1)
         \/ retries /\ Failover(c, "invoke", "simulate", call.attempt + 1)
         \/ call.i = NumNodes - 1 /\ EndCall(c, "unreachable", call.failedOn)
  BY DEF NodeFails, RpcInv
<1> HIDE DEF call
<1>4. /\ call.i \in Nat /\ call.attempt \in Nat /\ call.start \in Nodes
      /\ call.failedOn \in SUBSET Nodes /\ NumNodes \in Nat /\ MaxInvokeTries \in Nat
  BY <1>2, RpcAssumption DEF Calling, Nodes
<1>5. \A k \in 0 .. call.i : NodeAt(call.start, k) \in call.failedOn
  BY <1>1, <1>2, <1>4 DEF CallInv
<1>6. CASE call.i < NumNodes - 1 /\ TryNode(c, call, call.i + 1)
  <2>1. call.i + 1 \in Nodes /\ \A k \in 0 .. (call.i + 1) - 1 : NodeAt(call.start, k) \in call.failedOn
    BY <1>4, <1>5, <1>6 DEF Nodes
  <2> QED
    BY <1>2, <1>3, <1>6, <2>1, TryNodeKeeps
<1>7. CASE retries /\ Failover(c, "invoke", "simulate", call.attempt + 1)
  <2>1. call.attempt + 1 \in 0 .. MaxInvokeTries - 1
    BY <1>4, <1>7
  <2> QED
    BY <1>3, <1>7, <2>1, FailoverKeeps DEF Kinds, Stages
<1>8. CASE call.i = NumNodes - 1 /\ EndCall(c, "unreachable", call.failedOn)
  <2>1. ASSUME NEW n \in Nodes PROVE n \in call.failedOn
    <3>1. PICK k \in Nodes : NodeAt(call.start, k) = n
      BY <1>4, RoundOfNodes
    <3> QED
      BY <1>5, <1>8, <3>1 DEF Nodes
  <2>2. call.failedOn = Nodes
    BY <1>4, <2>1
  <2> QED
    BY <1>3, <1>8, <2>2, EndCallKeeps DEF Endings
<1> QED
  BY <1>3, <1>6, <1>7, <1>8

LEMMA RpcStarts == RpcInit => RpcInv
<1> SUFFICES ASSUME RpcInit PROVE RpcInv
  OBVIOUS
<1>1. 0 \in Nodes
  BY RpcAssumption DEF Nodes
<1>2. \A c \in RpcCalls : rpcCall[c] = NoCall /\ rpcCall[c] \notin Calling
  BY DEF RpcInit, NoCall, Calling
<1> QED
  BY <1>1, <1>2 DEF RpcInit, RpcInv, GivesUpAfterAllNodes

LEMMA RpcKeeps == RpcInv /\ [RpcNext]_rpcVars => RpcInv'
<1> SUFFICES ASSUME RpcInv, [RpcNext]_rpcVars PROVE RpcInv'
  OBVIOUS
<1>0. 0 \in 0 .. MaxInvokeTries - 1
  BY RpcAssumption
<1>1. ASSUME NEW c \in RpcCalls, RpcRequest(c) PROVE RpcInv'
  BY <1>0, <1>1, FailoverKeeps, EndCallKeeps
  DEF RpcRequest, Query, InvokeContractMethod, ValidatePreconditions, RpcInv, Kinds, Stages, Endings
<1>2. ASSUME NEW c \in RpcCalls, RpcAnswer(c) PROVE RpcInv'
  <2>1. CASE NodeAnswers(c)
    <3>1. rpcCall[c].kind \in Kinds
      BY <2>1, UnderWayIsCalling DEF NodeAnswers, Calling
    <3>2. nodeUp' = nodeUp /\ prechecked' \in BOOLEAN
      BY <2>1 DEF NodeAnswers, RpcInv
    <3>3. \/ Failover(c, rpcCall[c].kind, "simulate", 0)
          \/ EndCall(c, "answered", {})
      BY <2>1 DEF NodeAnswers
    <3>4. CASE Failover(c, rpcCall[c].kind, "simulate", 0)
      BY <1>0, <3>1, <3>2, <3>4, FailoverKeeps DEF Stages
    <3>5. CASE EndCall(c, "answered", {})
      BY <3>2, <3>5, EndCallKeeps DEF Endings
    <3> QED
      BY <3>3, <3>4, <3>5
  <2>2. CASE NodeRefuses(c)
    BY <2>2, EndCallKeeps DEF NodeRefuses, RpcInv, Endings
  <2> QED
    BY <1>2, <2>1, <2>2, NodeFailsKeeps DEF RpcAnswer
<1>3. CASE NodeChanges
  BY <1>3 DEF NodeChanges, RpcInv, GivesUpAfterAllNodes, UnderWay
<1>4. CASE PrecheckExpires
  BY <1>4 DEF PrecheckExpires, RpcInv, GivesUpAfterAllNodes, UnderWay
<1>5. CASE UNCHANGED rpcVars
  BY <1>5 DEF rpcVars, RpcInv, GivesUpAfterAllNodes, UnderWay
<1> QED
  BY <1>1, <1>2, <1>3, <1>4, <1>5 DEF RpcNext

LEMMA RpcTypes == RpcInv => RpcTypeOK
BY DEF RpcInv, RpcTypeOK

-----------------------------------------------------------------------------
(* The components together.  A step of one leaves the variables of all       *)
(* others alone, so each invariant is kept by the steps of all.              *)

GroupsInv ==
  /\ subject \in Subjects
  /\ MediationInv /\ JobsInv
  /\ EditorsInv /\ RequestsInv
  /\ TemplateInv
  /\ StandingInv
  /\ PenaltyInv /\ LedgerTypes
  /\ PlanInv
  /\ PricingInv
  /\ ReadingInv
  /\ RpcInv

LEMMA GroupsStart == GroupsInit => GroupsInv
BY MediationInvStarts, JobsStart, EditorsStart, TemplatesStart, StandingStarts, PenaltyIsTyped,
   PlanStarts, PricingStarts, ReadingStarts, RpcStarts
DEF GroupsInit, GroupsInv

\* One component takes a step of its own, or none does.
LEMMA OneTakesAStep ==
  ASSUME [GroupsNext]_groupsVars
  PROVE  /\ UNCHANGED subject
         /\ [MediationNext]_mediationVars
         /\ [GroupNext]_groupVars
         /\ [TemplateNext]_templateVars
         /\ [StandingNext]_standingVars
         /\ [PenaltyNext]_penaltyVars
         /\ [PlanNext]_planVars
         /\ [PricingNext]_pricingVars
         /\ [ReadingNext]_readingVars
         /\ [RpcNext]_rpcVars
BY DEF GroupsNext, groupsVars, OthersStay, MediationStep, GroupStep, TemplateStep,
       StandingStep, PenaltyStep, PlanStep, PricingStep, ReadingStep, RpcStep

LEMMA GroupsStep == GroupsInv /\ [GroupsNext]_groupsVars => GroupsInv'
<1> SUFFICES ASSUME GroupsInv, [GroupsNext]_groupsVars PROVE GroupsInv'
  OBVIOUS
<1>1. /\ (MediationInv /\ JobsInv)' /\ (EditorsInv /\ RequestsInv)' /\ TemplateInv' /\ StandingInv'
      /\ (PenaltyInv /\ LedgerTypes)'
  BY OneTakesAStep, MediationInvStep, JobsKeep, EditorsKeep, RequestsKeep, TemplateKeeps, StandingKeeps,
     PenaltyInvStep, LedgerTypesStep
  DEF GroupsInv
<1>2. PlanInv' /\ PricingInv' /\ ReadingInv' /\ RpcInv'
  BY OneTakesAStep, PlanKeeps, PricingKeeps, ReadingKeeps, RpcKeeps
  DEF GroupsInv
<1>3. (subject \in Subjects)'
  BY OneTakesAStep DEF GroupsInv
<1> QED
  BY <1>1, <1>2, <1>3 DEF GroupsInv

LEMMA GroupsInvHolds == GroupsSpec => []GroupsInv
BY GroupsStart, GroupsStep, PTL DEF GroupsSpec

\* Every variable keeps its type, whichever component moves.
THEOREM GroupsTypeTheorem == GroupsSpec => []GroupsTypeOK
<1>1. EditorsInv => GroupTypeOK
  BY DEF EditorsInv, GroupTypeOK
<1>2. PricingInv => PricingTypeOK
  BY DEF PricingInv
<1>3. GroupsInv => GroupsTypeOK
  BY <1>1, <1>2, MediationIsTyped, TemplatesAreReal, StandingIsTyped, PenaltyIsTyped, ScheduleStops,
     ReadingIsRight, RpcTypes
  DEF GroupsInv, GroupsTypeOK
<1> QED
  BY <1>3, GroupsInvHolds, PTL

\* Whatever the workers, the crashes and the locks that lapse, two workers are
\* never between lock and release of one group while their locks last
\* (group-sync.processor.ts:100).
THEOREM OneMediatorTheorem == GroupsSpec => []OneMediatorPerGroup
<1>1. GroupsInv => OneMediatorPerGroup
  BY MediationIsTyped DEF GroupsInv
<1> QED
  BY <1>1, GroupsInvHolds, PTL

\* However many requests of the admin and runs of the status task there are: one
\* that no other has overtaken saves an update over a PENDING group only and takes
\* back no start but its own, and until an overtaken one has saved, or a process
\* has died in a deployment, what runs has its contract or is getting it from one
\* request (groups.service.ts:309, :480-560, group-status.service.ts:94-121).
THEOREM StartedGroupsAreKeptTheorem == GroupsSpec => StartedGroupsAreKept
<1>1. GroupsInv => StartedIsDeployed
  BY DEF GroupsInv, RequestsInv
<1>2. GroupsInv /\ [GroupsNext]_groupsVars
        => [\A e \in Editors :
              editor[e].at # "none" /\ editor'[e] # editor[e] /\ e \notin crossed =>
                /\ editor[e].at = "update" /\ groupRow' # groupRow => groupRow.status = "PENDING"
                /\ groupRow.status = "ACTIVE" /\ groupRow'.status = "PENDING"
                     => editor[e].at = "undeployed"]_groupVars
  BY OneTakesAStep, PendingStep DEF GroupsInv
<1> QED
  BY <1>1, <1>2, GroupsInvHolds, PTL DEF GroupsSpec, StartedGroupsAreKept, OnlyPendingUpdated

\* A group made of a template can hold all its rounds, and a use that is
\* counted is a group that exists, whatever is updated in between
\* (group-templates.service.ts).
THEOREM TemplatesHoldTheorem == GroupsSpec => []TemplatesHold
<1>1. GroupsInv => TemplatesHold
  BY TemplatesAreReal DEF GroupsInv, TemplatesHold
<1> QED
  BY <1>1, GroupsInvHolds, PTL

\* A payout that is recorded stays recorded unless a row was changed under a
\* request, and a round that closed short has a cause
\* (memberships.service.ts:573, round.service.ts:46).
THEOREM StandingHoldsTheorem == GroupsSpec => []StandingHolds
<1>1. GroupsInv => StandingHolds
  BY DEF GroupsInv, StandingInv, StandingHolds
<1> QED
  BY <1>1, GroupsInvHolds, PTL

\* assessPenaltiesForRound: whoever has not contributed to a round of which an
\* assessment has ended without an error has a penalty.
THEOREM NobodyIsLetOffTheorem == GroupsSpec => []NobodyIsLetOff
<1>1. GroupsInv => NobodyIsLetOff
  BY PenaltyIsTyped DEF GroupsInv
<1> QED
  BY <1>1, GroupsInvHolds, PTL

\* However saves overtake each other, no instalment falls due while a plan is
\* paused, and a plan is as much later as it has been paused.
THEOREM ClockStopsTheorem == GroupsSpec => []ClockStopsWhilePaused
<1>1. GroupsInv => ClockStopsWhilePaused
  BY ScheduleStops DEF GroupsInv
<1> QED
  BY <1>1, GroupsInvHolds, PTL

\* The daily total of fees never passes the threshold unnoticed while Redis
\* and the webhooks answer (stellar.service.ts recordFeeSpend).
THEOREM AlertIsRaisedTheorem == GroupsSpec => []AlertIsRaised
<1>1. GroupsInv => AlertIsRaised
  BY DEF GroupsInv, PricingInv
<1> QED
  BY <1>1, GroupsInvHolds, PTL

\* computeSendMax and isRateWithinTolerance are made for each other: for any
\* amounts and rates, a path payment that was executed and is then reported as
\* SLIPPAGE_EXCEEDED has cost less than the locked rate allows, and the daily
\* fees alert as above.  The amounts must resolve the tolerance.
THEOREM PricesHoldTheorem ==
  ASSUME AmountsResolveTolerance
  PROVE  GroupsSpec => []PricesHold
<1>1. GroupsInit => SlippageIsNeverWorse
  BY DEF GroupsInit, PricingInit, NoPayout, SlippageIsNeverWorse
<1>2. GroupsInv /\ SlippageIsNeverWorse /\ [GroupsNext]_groupsVars => SlippageIsNeverWorse'
  BY OneTakesAStep, SlippageStep DEF GroupsInv
<1>3. GroupsInv /\ SlippageIsNeverWorse => PricesHold
  BY DEF GroupsInv, PricingInv, PricesHold
<1> QED
  BY <1>1, <1>2, <1>3, GroupsInvHolds, PTL DEF GroupsSpec

\* For any transaction, report and number of nodes: the ways to ask for a
\* transaction agree, what is verified is a call of one's own contract, and a
\* call is given up only when every node has failed it (stellar.service.ts).
THEOREM NodesAreHeardTheorem == GroupsSpec => []NodesAreHeard
<1>1. GroupsInv => NodesAreHeard
  BY ReadingIsRight DEF GroupsInv, RpcInv, NodesAreHeard
<1> QED
  BY <1>1, GroupsInvHolds, PTL
=============================================================================
