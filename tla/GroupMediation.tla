--------------------------- MODULE GroupMediation ---------------------------
(***************************************************************************)
(* Rows of groups brought in line with their contracts: the jobs of the    *)
(* group-sync queue (bullmq/group-sync.processor.ts), the Redlock a job    *)
(* holds while it copies the contract's round and status, and the task     *)
(* that flags groups nobody has touched for days.  All of them read a row, *)
(* await, and save it whole.                                               *)
(***************************************************************************)
EXTENDS Integers, FiniteSets

CONSTANTS
  Groups,
  Workers,           \* of all servers; each processor has concurrency 2
  BatchSize,         \* groups dispatched by page
  SyncAttempts,      \* RETRY_CONFIG.attempts
  MaxRound,          \* bound: rounds of a group
  MaxMediationFaults \* bound: failed calls, crashes and locks that lapse

Nobody == "nobody"

ASSUME MediationAssumption ==
  /\ IsFiniteSet(Groups) /\ IsFiniteSet(Workers)
  /\ {BatchSize, SyncAttempts, MaxRound} \subseteq Nat \ {0}
  /\ MaxMediationFaults \in Nat /\ Nobody \notin Workers

VARIABLES
  row,        \* the row of each group in the database
  chain,      \* what the contract of each group says
  syncJob,    \* the job whose id is the group's
  lockOf,     \* mediation:group:<id>: the worker whose token it holds
  worker,     \* what each worker of the queue does
  lapsed,     \* the workers whose lock ended before they did
  dispatched, \* the page a SYNC_ALL_GROUPS job is at, or NoPage
  flagging,   \* rows the stale-group task has read and not yet saved
  mediationFaults

mediationVars == <<row, chain, syncJob, lockOf, worker, lapsed, dispatched,
                   flagging, mediationFaults>>

-----------------------------------------------------------------------------
NewRow == [round |-> 0, status |-> "ACTIVE", stale |-> FALSE, old |-> FALSE]
NoPage == -1
Statuses == {"ACTIVE", "COMPLETED"}
States == [round : 0 .. MaxRound, status : Statuses]
\* old: updatedAt is MAX_STALE_GROUP_DAYS ago.
GroupRows == [round : 0 .. MaxRound, status : Statuses, stale : BOOLEAN,
              old : BOOLEAN]
SyncJobs == [state : {"none", "waiting", "active", "completed", "failed"},
             made : 0 .. SyncAttempts]
NoJob == [state |-> "none", made |-> 0]
Resting == [at |-> "resting"]
Working == [at : {"lock", "find", "ask", "save", "release"}, group : Groups,
            seen : GroupRows, failed : BOOLEAN]

MediationTypeOK ==
  /\ row \in [Groups -> GroupRows] /\ chain \in [Groups -> States]
  /\ syncJob \in [Groups -> SyncJobs]
  /\ lockOf \in [Groups -> Workers \cup {Nobody}]
  /\ \A w \in Workers : worker[w] \in Working \cup {Resting}
  /\ lapsed \subseteq Workers
  /\ dispatched \in NoPage .. Cardinality(Groups)
  /\ flagging \subseteq [group : Groups, seen : GroupRows]
  /\ mediationFaults \in 0 .. MaxMediationFaults

Mediates(w) == worker[w].at \in {"find", "ask", "save", "release"}
MediationFault == /\ mediationFaults < MaxMediationFaults
                  /\ mediationFaults' = mediationFaults + 1
Step(w, next) == worker' = [worker EXCEPT ![w] = next]
\* What becomes of the job when the handler is done: a failed one waits for
\* its next attempt, or is moved to the dead letters and kept.
EndJob(w) ==
  LET g == worker[w].group
      outcome == CASE ~worker[w].failed -> "completed"
                   [] syncJob[g].made < SyncAttempts -> "waiting"
                   [] OTHER -> "failed"
  IN  /\ syncJob' = [syncJob EXCEPT ![g].state =
                       IF @ = "active" THEN outcome ELSE @]
      /\ Step(w, Resting)

-----------------------------------------------------------------------------
\* SYNC_ALL_GROUPS: the ACTIVE groups, page by page, one job each.  A group
\* whose id a job of the queue still bears is not added again.

SyncAllStarts ==
  /\ dispatched = NoPage /\ dispatched' = 0
  /\ UNCHANGED <<row, chain, syncJob, lockOf, worker, lapsed, flagging,
                 mediationFaults>>

SyncAllPage ==
  LET active == {g \in Groups : row[g].status = "ACTIVE"}
      left == Cardinality(active) - BatchSize * dispatched
      \* skip / take without an order: any groups the database may return
      Pages == {p \in SUBSET active :
                  Cardinality(p) = IF left > BatchSize THEN BatchSize
                                   ELSE IF left > 0 THEN left ELSE 0}
  IN  /\ dispatched # NoPage
      /\ \E page \in Pages :
           syncJob' = [g \in Groups |->
             IF g \in page /\ syncJob[g] = NoJob
             THEN [state |-> "waiting", made |-> 0] ELSE syncJob[g]]
      /\ dispatched' = IF left < BatchSize THEN NoPage ELSE dispatched + 1
      /\ UNCHANGED <<row, chain, lockOf, worker, lapsed, flagging,
                     mediationFaults>>

\* A completed job is removed in time, a failed one stays (removeOnFail).
JobRemoved(g) ==
  /\ syncJob[g].state = "completed"
  /\ syncJob' = [syncJob EXCEPT ![g] = NoJob]
  /\ UNCHANGED <<row, chain, lockOf, worker, lapsed, dispatched, flagging,
                 mediationFaults>>

-----------------------------------------------------------------------------
\* SYNC_GROUP_STATE.

TakeJob(w, g) ==
  /\ worker[w] = Resting /\ syncJob[g].state = "waiting"
  /\ syncJob' = [syncJob EXCEPT ![g].state = "active", ![g].made = @ + 1]
  /\ Step(w, [at |-> "lock", group |-> g, seen |-> NewRow, failed |-> FALSE])
  /\ UNCHANGED <<row, chain, lockOf, lapsed, dispatched, flagging,
                 mediationFaults>>

\* BullMQ gives a job to another worker when the first seems to have stalled.
Stalled(g) ==
  /\ syncJob[g].state = "active" /\ syncJob[g].made < SyncAttempts
  /\ MediationFault
  /\ syncJob' = [syncJob EXCEPT ![g].state = "waiting"]
  /\ UNCHANGED <<row, chain, lockOf, worker, lapsed, dispatched, flagging>>

\* One attempt (retryCount 0).
Acquire(w) ==
  LET g == worker[w].group
  IN  /\ worker[w].at = "lock" /\ lockOf[g] = Nobody
      /\ lockOf' = [lockOf EXCEPT ![g] = w]
      /\ lapsed' = lapsed \ {w}
      /\ Step(w, [worker[w] EXCEPT !.at = "find"])
      /\ UNCHANGED <<row, chain, syncJob, dispatched, flagging, mediationFaults>>

\* Mutation of Skip: without the lock the handler goes on all the same.
SkipNot(w) ==
  /\ worker[w].at = "lock" /\ lockOf[worker[w].group] # Nobody
  /\ Step(w, [worker[w] EXCEPT !.at = "find"])
  /\ UNCHANGED <<row, chain, syncJob, lockOf, lapsed, dispatched, flagging,
                 mediationFaults>>

\* Without the lock, taken or not to be had, the job is SKIPPED, and done.
Skip(w) ==
  /\ worker[w].at = "lock"
  /\ IF lockOf[worker[w].group] # Nobody THEN UNCHANGED mediationFaults
                                         ELSE MediationFault
  /\ EndJob(w)
  /\ UNCHANGED <<row, chain, lockOf, lapsed, dispatched, flagging>>

\* The TTL is 1.2 times the longest time mediation is expected to take.
LockLapses(g) ==
  /\ lockOf[g] # Nobody /\ MediationFault
  /\ lapsed' = lapsed \cup {lockOf[g]}
  /\ lockOf' = [lockOf EXCEPT ![g] = Nobody]
  /\ UNCHANGED <<row, chain, syncJob, worker, dispatched, flagging>>

FindGroup(w) ==
  /\ worker[w].at = "find"
  /\ Step(w, [worker[w] EXCEPT !.at = "ask", !.seen = row[worker[w].group]])
  /\ UNCHANGED <<row, chain, syncJob, lockOf, lapsed, dispatched, flagging,
                 mediationFaults>>

\* getGroupState: the row as the contract has it, nothing to do when it is as
\* it was, when the answer is null, or when the call throws.
AskContract(w) ==
  LET g == worker[w].group
      seen == worker[w].seen
      synced == [seen EXCEPT !.round = chain[g].round,
                             !.status = chain[g].status, !.stale = FALSE]
      changed == <<seen.round, seen.status>> # <<synced.round, synced.status>>
  IN  /\ worker[w].at = "ask"
      /\ \/ /\ Step(w, IF changed
                       THEN [worker[w] EXCEPT !.at = "save", !.seen = synced]
                       ELSE [worker[w] EXCEPT !.at = "release", !.seen = NewRow])
            /\ UNCHANGED mediationFaults
         \/ /\ MediationFault
            /\ \E throws \in BOOLEAN :
                 Step(w, [worker[w] EXCEPT !.at = "release", !.seen = NewRow,
                                       !.failed = throws])
      /\ UNCHANGED <<row, chain, syncJob, lockOf, lapsed, dispatched, flagging>>

SaveSynced(w) ==
  /\ worker[w].at = "save"
  /\ row' = [row EXCEPT ![worker[w].group] = [worker[w].seen EXCEPT !.old = FALSE]]
  /\ Step(w, [worker[w] EXCEPT !.at = "release", !.seen = NewRow])
  /\ UNCHANGED <<chain, syncJob, lockOf, lapsed, dispatched, flagging,
                 mediationFaults>>

\* The finally: Redlock deletes the key only while it holds one's own token.
Release(w) ==
  LET g == worker[w].group
  IN  /\ worker[w].at = "release"
      /\ lockOf' = [lockOf EXCEPT ![g] = IF @ = w THEN Nobody ELSE @]
      /\ EndJob(w)
      /\ UNCHANGED <<row, chain, lapsed, dispatched, flagging, mediationFaults>>

-----------------------------------------------------------------------------
\* StaleGroupDetectionService.  The condition staleAt: null is none to TypeORM,
\* so a group flagged already is flagged, and its admin told, again.

DetectStaleGroups ==
  /\ flagging = {}
  /\ flagging' = {[group |-> g, seen |-> row[g]] :
                    g \in {h \in Groups : row[h].status = "ACTIVE" /\ row[h].old}}
  /\ UNCHANGED <<row, chain, syncJob, lockOf, worker, lapsed, dispatched,
                 mediationFaults>>

FlagStaleGroup ==
  \E f \in flagging :
    /\ flagging' = flagging \ {f}
    /\ \/ /\ row' = [row EXCEPT ![f.group] =
                       [f.seen EXCEPT !.stale = TRUE, !.old = FALSE]]
          /\ UNCHANGED mediationFaults
       \/ MediationFault /\ UNCHANGED row
    /\ UNCHANGED <<chain, syncJob, lockOf, worker, lapsed, dispatched>>

ClearStaleFlag(g) ==
  /\ row[g].stale
  /\ row' = [row EXCEPT ![g].stale = FALSE, ![g].old = FALSE]
  /\ UNCHANGED <<chain, syncJob, lockOf, worker, lapsed, dispatched, flagging,
                 mediationFaults>>

-----------------------------------------------------------------------------
\* What else happens to a row and to its contract.

RoundAdvances(g) ==
  /\ row[g].status = "ACTIVE" /\ row[g].round < MaxRound
  /\ row' = [row EXCEPT ![g].round = @ + 1, ![g].stale = FALSE,
                        ![g].old = FALSE]
  /\ UNCHANGED <<chain, syncJob, lockOf, worker, lapsed, dispatched, flagging,
                 mediationFaults>>

GroupAges(g) ==
  /\ ~row[g].old
  /\ row' = [row EXCEPT ![g].old = TRUE]
  /\ UNCHANGED <<chain, syncJob, lockOf, worker, lapsed, dispatched, flagging,
                 mediationFaults>>

ContractAdvances(g) ==
  /\ chain[g].status = "ACTIVE"
  /\ chain' = IF chain[g].round < MaxRound
              THEN [chain EXCEPT ![g].round = @ + 1]
              ELSE [chain EXCEPT ![g].status = "COMPLETED"]
  /\ UNCHANGED <<row, syncJob, lockOf, worker, lapsed, dispatched, flagging,
                 mediationFaults>>

\* The job stays active until BullMQ finds it Stalled.
WorkerCrash(w) ==
  /\ worker[w] # Resting /\ MediationFault
  /\ Step(w, Resting)
  /\ lapsed' = lapsed \ {w}
  /\ UNCHANGED <<row, chain, syncJob, lockOf, dispatched, flagging>>

MediationInit ==
  /\ row = [g \in Groups |-> NewRow]
  /\ chain = [g \in Groups |-> [round |-> 0, status |-> "ACTIVE"]]
  /\ syncJob = [g \in Groups |-> NoJob]
  /\ lockOf = [g \in Groups |-> Nobody]
  /\ worker = [w \in Workers |-> Resting]
  /\ lapsed = {} /\ dispatched = NoPage /\ flagging = {}
  /\ mediationFaults = 0

MediationNext ==
  \/ SyncAllStarts \/ SyncAllPage
  \/ DetectStaleGroups \/ FlagStaleGroup
  \/ \E g \in Groups :
       \/ JobRemoved(g) \/ Stalled(g) \/ LockLapses(g) \/ ClearStaleFlag(g)
       \/ RoundAdvances(g) \/ GroupAges(g) \/ ContractAdvances(g)
  \/ \E w \in Workers :
       \/ \E g \in Groups : TakeJob(w, g)
       \/ Acquire(w) \/ Skip(w) \/ FindGroup(w) \/ AskContract(w)
       \/ SaveSynced(w) \/ Release(w) \/ WorkerCrash(w)

MediationSpec == MediationInit /\ [][MediationNext]_mediationVars

-----------------------------------------------------------------------------
\* Two workers are never between lock and release of one group, unless the
\* lock of one of them ended before it did: a job that finds the lock taken is
\* skipped, and a worker that outlived its lock does not delete the next one's.
OneMediatorPerGroup ==
  \A v, w \in Workers \ lapsed :
    v # w /\ Mediates(v) /\ Mediates(w) => worker[v].group # worker[w].group
=============================================================================
