# A formal model of the Ahjoor backend

Ahjoor is the backend of rotating savings groups (ROSCAs): the members of a group each contribute
once per round, and each round pays the pot to one of them, over a Soroban contract on the Stellar
network. The backend (NestJS, TypeORM on PostgreSQL, Redis, BullMQ) lives in `ahjoorxmr/`; paths
below are relative to `ahjoorxmr/src/` unless they begin with another directory.

This directory holds TLA+ specifications of the backend where state and truth can part: several
server processes, cron tasks, queue workers and client retries interleave at every `await`, any of
them may die, whole entities are saved as they were read, caches outlive what they hold, and the
network answers late, twice or not at all. TLC checks every specification on small instances; TLAPS
checks theorems about most of the safety properties for every value of the constants.
`PROJECT.json` lists components, runs, mutants, hazards, theorems and, definition by definition, the
lines of the source each one models.

Contents: [the system](#1-the-system) · [the modules](#2-the-modules) · [runs](#3-runs-bounds-and-what-they-show)
· [fairness](#4-fairness) · [proofs](#5-proofs) · [divergences](#6-what-the-code-does-otherwise-than-it-says)
· [not modelled](#7-what-is-not-modelled) · [plan](#8-what-is-left)

## 1. The system

### 1.1 Components, their state and what makes them correct

| component | state it keeps | operations | what makes it correct | modules |
|---|---|---|---|---|
| payout settlement (`groups/payout.service.ts`, `bullmq/payout-reconciliation.processor.ts`) | `payout_transactions`, `hasReceivedPayout`, the reconciliation queue | `distributePayout`, the sweep, the processor, manual retry | an order is paid once; what is on the network is on record; verdicts agree with the chain | `PayoutSettlement`, `PayoutPromise` |
| round advancement (`groups/round.service.ts`, `groups.service.ts`, `scheduler/services/round-advance.service.ts`) | `group.status`, `currentRound`, `hasPaidCurrentRound` | `tryAdvanceRound`, deadline task, `advanceRound`, `activateGroup`, status task, manual payout, `RoundCompleted` | rounds move by one; unless an administrator asks for it by hand, nobody is paid out before all have paid in; full rounds close | `RoundAdvance` |
| contribution intake (`contributions/`, `bullmq/tx-confirmation.processor.ts`) | `contributions`, in-flight locks | `createContribution`, confirmation job, reconciliation | one submission per key; CONFIRMED is true and final; everything settles | `ContributionIntake` |
| event listener (`event-listener/`) | Redis checkpoint, processed marks | polls, four handlers | nothing is passed over; effects once and in order | `EventListener` |
| event sync jobs (`bullmq/event-sync.processor.ts`) | `contributions`, `memberships` | transfer and approval jobs | a transfer is recorded for good and counted once | `EventSync` |
| memberships, waitlist, invites | `memberships`, `waitlist`, `usedCount` | add, remove, leave, suspend, reinstate, join by code, wait, admit | capacity; one member per order; nobody waits beside a free place | `MembershipWaitlist`, `MemberStanding` |
| group administration (`groups/`) | the group row, templates, announcements | create, update, activate, hand over, archive, the status task; templates; the board | no update over a running group, and no running group stopped, by a request that nothing has overtaken; a group can hold its rounds; the cap of the board | `GroupLifecycle`, `GroupTemplates`, `Announcements` |
| group state mediation, stale groups (`bullmq/group-sync.processor.ts`) | group rows, Redlock, stale flags | copy the contract's state under a lock; flag | one mediator per group | `GroupMediation` |
| penalties (`penalties/`) | `penalties` | hourly assessment, waive, dispute, resolve | nobody is let off | `PenaltyLedger` |
| payments (`payments/`) | installment plans | settle, pause, resume, accrue | the clock stops while a plan is paused | `InstallmentPlans` |
| exchange rates and fees (`fx/`, `stellar/`) | rate cache, locked rates, daily totals | price, quote, count | no payout costs more than its quote allows; the alert is raised | `PayoutPricing` |
| Stellar client (`stellar/`) | current node, precondition cache, breaker, balances | invoke, fail over, verify, watch | a call is given up only when every node has failed it; answers agree; alerts come | `StellarRpc`, `ChainReading`, `BalanceMonitor` |
| task locks and cron (`scheduler/`, `common/redis/`) | Redis locks, marks | sweeps, reminders, summaries | tasks get done, also after a crash | `ScheduledTasks` |
| trust scores, KYC | scores; documents, cases | nightly recalculation; upload, callback, sweep | scores converge; nobody waits unnoticed | `TrustScores`, `KycReview` |
| queues and dead letters (`bullmq/`) | jobs, letters, `job_failures` | add, process, fail, retry | a retry loses nothing | `JobQueue` |
| webhooks (`webhooks/`) | subscriptions, deliveries | dispatch, deliver, test, replay | SUCCESS was answered | `WebhookDelivery` |
| authentication (`auth/`) | tokens, versions and their cache, challenges | sign in, refresh, revoke, validate | the cache turns nobody away without cause | `Sessions` |
| accounts and GDPR (`users/`) | jobs, cooldowns, personal data | export, erase | what is called erased is gone, but for what came too late or S3 refused | `AccountErasure` |
| rate limits (`throttler/`) | buckets, blocks | count, refuse, block | limits hold; waiting pays off | `RateLimits` |
| idempotency, caching, maintenance (`common/`) | cached answers | look, run, store, expire | staleness is bounded | `RequestCaching` |
| encryption (`common/encryption/`, `scripts/`) | ciphertexts, checkpoint | rotate, backfill | resuming skips nothing; no ciphertext without a version is encrypted twice | `KeyRotation`, `EncryptionBackfill` |
| feature flags | one Redis key, caches per instance | look up, edit, boot | no flag is lost by an edit that is alone; the delay is bounded | `FeatureFlags` |
| notifications and push | rows, preferences, slots, device tokens | notify, stream, push | no device gets a message twice; stream limit | `Notifications`, `PushDelivery` |
| files (`File Upload Service/`) | objects, thumbnails, rows, links | upload, delete, sign | a row has its objects; a deleted file leaves nothing | `FileUploads` |
| audit trail, health and metrics, configuration, drafts kept in the tree, tests | | | | not modelled (section 7) |

### 1.2 How they interact

* **Calls.** `createContribution` calls `tryAdvanceRound`, which calls `distributePayout`; `removeMember`,
  `leaveGroup` and `suspendMember` schedule `admitFromWaitlist` with `setImmediate`.
* **Queues.** `distributePayout` enqueues a reconciliation job, `createContribution` a confirmation
  job, GDPR requests, pushes, mails and webhooks jobs of their own; BullMQ hands each to some worker,
  retries it when it throws, and hands it out again when its worker stalls.
* **Shared rows.** Group, membership, plan, template and delivery rows are written by requests, cron
  tasks, workers and the listener. `Repository.save` writes back the entity as it was read, so a late
  save undoes what others wrote since. The modules therefore keep what a process has *seen* beside
  what is stored.
* **Redis.** Locks, caches, counters, marks and checkpoints. `RedisService` swallows errors and
  answers as if nothing were there; a step that calls Redis chooses whether it answers.
* **Time.** Sweeps and fallbacks run from cron, caches and locks expire, windows slide.
* **The network.** `sendTransaction` may be refused, taken, or taken with its answer lost; a taken
  transaction is applied, fails, or expires. Horizon pages transactions by ledger. RPC nodes describe
  one transaction in different forms.

### 1.3 What is hard

Check-then-act over an `await`; crashes between two writes that belong together; whole-entity saves;
retries of jobs that were half done; locks without owners, or that exclude nobody; sweeps that select
by status; checkpoints coarser than what they count; caches filled from a read that is outdated by
then. `PROJECT.json` lists 40 such places, each with the property that watches it and,
where the property excepts what the code does not handle, a note that says so.

## 2. The modules

Every module uses the code's grain: one action per stretch between two awaits, named after the call
it stands for. A process that runs through several awaits has a program counter, and whatever it
carries over an await is a field or variable of its own. Definitions marked "Mutation of ..." are what
a plausible bug would make of the definition after them; nothing but the mutation runs uses them.
The header of each module says which files it models.

**One subject to a behaviour.** Components whose modules share no variable are instances of one composite module
each: `MCEvents` (2 components), `MCBackground` (4), `MCGroups` (9) and `MCPlatform` (13). The
variable `subject` (in `MCBackground`, `chore`), chosen once, says which component moves; the others' variables keep their initial
values, and where a component may begin in several states, only its own behaviours do. A run of the
composite is thus a run of each component by itself, and its properties are those of the components
joined by what they are about. Where the order of steps of several components decides a property, they are in one
module: what the listener, the tasks and requests do to a round is in `RoundAdvance`, what the status task does between
the steps of a request of the administrators in `GroupLifecycle`, what departures do to the waitlist in
`MembershipWaitlist`, what a user uploads and signs in to during an erasure in `AccountErasure`. What is left of the
interactions, a component gets as steps that may come at any time, without the state that causes them: members come
and go in `GroupLifecycle`, rounds move in `EventSync` and `MemberStanding`, a payout falls due in `AccountErasure`.

**`PayoutSettlement`**, with **`PayoutPromise`**. `row` is the row of each `payoutOrderId`, `pc` where
each call of `distributePayout` stands, `chain` what the network made of each transaction, `sweep`,
`job` and `work` the five-minute sweep, the BullMQ job and what its worker has read. A
transaction is named after the call that built it; `InsertOrIgnore` is the insert with its unique
index. `PayoutPromise` is what the service promises, without calls, jobs or crashes: *intend*,
*submit* once, *mark* once; `Promise` in `PayoutSettlement` is the refinement mapping.

**`RoundAdvance`**. Six procedures run by generic processes `Procs`, each holding in `seen` the group
it has read. `given` is what the members have contributed on the chain, `unheard` what of it the
listener has not seen: the flags follow the chain late. `payouts` are rounds taken on by
`distributePayout`, `transfers` the contract's payouts of each round, `closings` the `RoundCompleted` events those
cause. A manual payout (`ManualPayout`) has any round paid out at any time and is a step of its own; `byHand` records
it. `activateGroup` starts in round 1 and the status task, for a group with a contract, in the round it finds; `starters`
records who did. A group may have its contract from the start.

**`ContributionIntake`**. Requests carry keys; a key stands for its body. The lock has no owner and
expires: `LockOutlives` says whether its 60 seconds outlast every request. Enqueueing may fail;
`CallFails` and `Crash` are bounded by `MaxFaults`.

**`EventListener`**. The loop of `pollNow` over numbered transactions; a page is the interval
`next .. end`. `ledgerOf` spreads transactions over ledgers. Polls overlap, since `pollTick` does
not ask whether the last one has ended; `overlapped` records whether they have. How Horizon reads a
cursor is outside the repository: the model takes it for what the code means by it, a ledger number.
**`EventSync`**. Transfer and approval jobs (the same event may arrive twice), with the member as it
was read in `seen`, while the round advances and a payout marks the member.

**`MembershipWaitlist`**. One PENDING group. `addMember` and the admission batch are transactions under
the lock of the group's row; `leaveGroup` finds, deletes, lists and then shifts the members behind
one by one; `suspendMember` and `reinstateMember` find and save; the waitlist's handlers find, save and
shift. `gen` stands for a row's id. `missed` collects users whom the code does not promise a place,
`mixed` records that something came between the delete and the list of a leave.

**`GroupMediation`** (workers, Redlock and what is lapsed of it), **`GroupLifecycle`** (requests of the
administrators and runs of the status task on one row; `crossed` are those whose row others have written since they read it), **`GroupTemplates`** (the merged terms of a group and the usage count),
**`MemberStanding`** (`recordPayout`, suspension, reinstatement and the flag of the round over one
row per member), **`PenaltyLedger`** (assessment on several servers, one action per insert),
**`InstallmentPlans`** (deadlines in ledgers, a plan saved whole), **`PayoutPricing`** (rates, quotes,
slippage, fees, daily totals, in smallest units), **`ChainReading`** (what each question makes of each
form of a node's report), **`StellarRpc`** (the shared index of the current node).

**`ScheduledTasks`** (the lock as it is, the retries, every body not in another module),
**`TrustScores`**, **`BalanceMonitor`** (with breaker and congestion monitor), **`KycReview`**.

**`JobQueue`**, **`WebhookDelivery`**, **`Sessions`**, **`AccountErasure`**, **`RateLimits`**,
**`RequestCaching`**, **`KeyRotation`**, **`EncryptionBackfill`**, **`FeatureFlags`**,
**`PushDelivery`**, **`Notifications`**, **`FileUploads`**, **`Announcements`**: the platform. In `AccountErasure` each
attempt of an export stores a file of its own, S3 refuses objects one by one without failing the call, and rows, exports and
tokens that come after an erasure has passed their step are in `overtook` and `lateSignIn`. In `EncryptionBackfill`
`versions` says whether there is a ring of keys, whose ciphertexts carry a version.

## 3. Runs, bounds and what they show

| run | instance | distinct states | shows |
|---|---|---|---|
| `payout` | 1 order, 2 calls, 2 attempts, 1 crash | 96 K | no order is broadcast twice, what is sent is recorded first, rows tell the truth, the service implements `PayoutPromise`, recorded payouts settle |
| `payout_slippage_paid` | 1 order, 1 call | violation | section 6, first |
| `rounds_alone` | 2 members, one suspended, 2 rounds, round 2's recipient penalised, 1 process of any kind, manual payouts, 1 crash, 3 payouts of a round | 198 K | a round is paid once, and once more if it was paid by hand; rounds move by one, full rounds close |
| `rounds_overlap` | 2 members, 3 rounds, 2 processes of any kind but the listener, manual payouts, 1 crash, 2 payouts of a round | 3.03 M | what survives any overlap: only by hand is a round paid out before it is full, no flag outlives its round |
| `intake` | 3 requests with one key, 1 fault | 165 K | one submitter, CONFIRMED true and final, locks freed, submissions settled |
| `events` | 3 transactions in 3 or 2 ledgers, page of 2, 2 polls, 1 crash, 1 handler error; 1 transfer delivered twice, 1 approval, 2 attempts, 2 faults | 211 K | nothing passed over, effects once and in order; counted at most once, every job ends |
| `members` | 3 users, 2 places, waitlist of 2, 1 invite, crashes | 1.25 M | capacity, distinct orders, no forgotten waiter |
| `background` | 2 servers; 2 workers on the scores of 1 user; 1 account, breaker threshold 3; 1 upload, 1 callback, 2 providers | 215 K | tasks get done, scores converge, alerts converge, stuck documents are flagged |
| `groups` | nine components, two requests, runs or workers each (one assessor), 1 or 2 faults | 2.14 M | the nine properties of `MCGroups` |
| `platform` | thirteen components, two requests each where they race; two workers on two jobs of one user with two attempts each, beside his uploads and sign-ins; 1 or 2 faults | 1.58 M | the eight properties of `MCPlatform` |
| `standing_round` | 2 members, 2 rounds, 2 requests | violation | section 6, second |
| `rotation_live` | 2 rows, 2 keys, 2 instances | violation | section 6, third |

Why the bounds are enough. Orders, keys, groups and accounts share nothing in these components, so one
of each suffices where nothing is moved between them. Two calls are what it takes to race on an index or
a row, and a third finds what the second does; three requests of one key are a holder, one that is
turned away and one that comes after the lock is gone. Two processes show every overlap of two
procedures of each pair of kinds; three rounds are the first, a middle and the last, and one process by itself meets in two
rounds all it meets in more. `rounds_overlap` has the CONSTRAINT `Spoken`: of what follows once `blind` or `TwoStarts` holds its two
invariants say nothing, since both stay once they hold. Three
transactions over a page of two split a fetch, and two of them in one ledger split a ledger. A faulty
step and its retry need one fault, a retry that fails too needs two. Three users overfill a group of two,
and one of them may leave, return and wait. Three nodes let two calls move the shared index past each
other. Rates, amounts, limits, windows and lifetimes are the smallest numbers with something on either
side: an amount within and beyond the tolerance, an estimate below, at and beyond the cap, a limit of one
with two requests, a lifetime of two ticks with a request of one. Every bound is a named constant
(`Max...` in the cfg files, explained where it is declared); `PageSize`, `BatchSize`, `Attempts`,
`MaxMembers` and the like are parameters of the code, small here.

`Serial = TRUE` in `members` means departures and suspensions do not overlap *each other*; additions,
admissions and the waitlist overlap with them. `SYMMETRY` (users; members and processes) is used
in runs of safety properties only. The runs say `CHECK_DEADLOCK FALSE` since these systems may come to
rest: all calls made, all rounds over, all jobs done, all attempts used up.

Conditions inside the properties, and why they are there. Each marks a limit of the code found while
checking: `overlapped` and `NothingCutShort` in the
listener (it promises order and uniqueness for one poll at a time; a page that ends, or a poll that dies,
inside a ledger loses the rest of it), `NoEcho` (the listener counts again a `RoundCompleted`
that `advanceRound` caused), `blind` (`advanceRound` moves on another round than it checked), `TwoStarts` (the administrator and the status task have both
activated the group), `byHand` (a payout triggered by hand), `crashes = 0` where a crash really breaks the statement, `versions`
(a ring of keys), `LockOutlives`, `Serial`, `missed`, `mixed`, `lapsed`, `careless`, `doubtful`, `slack`, `lateEntry`, `excused`, `unsent`,
`crossed`, `undone`, `overtook`, `lateSignIn`, `refused`, `overlapped` and `short` in
`MemberStanding`. `LockOutlives` and `Serial` are assumptions about the timing of the code that the runs make throughout: they are
constants, TRUE in the cfg files, and what holds without them is not checked. Of all others the runs reach states on
both sides. Those from `missed` on are history variables: they record that something came between two
steps of a handler, so that a property can say what holds when nothing did, and what no overlap can break. Where such a
condition excuses the very case a hazard names, `PROJECT.json` says so in the note of the hazard.

## 4. Fairness

Assumed: what has started goes on (a request, poll, job or procedure between two awaits), a waiting
job is taken, cron tasks fire, ledgers close, time passes and locks expire: weak fairness of
those steps. A Stellar node that is asked for ever answers some time, and a fallback that is called again and
again gets its turn among other work of its process: strong fairness of `ReconcileQuery`, `Fetch` and
`TryLoad`. This is what Node's event loop, BullMQ and `@nestjs/schedule` provide. Not assumed:
that anybody makes a request, contributes, presses an administrator's button or retries a failed job,
nor that anything crashes or fails. Liveness is stated of payouts (`SettlesUnlessExhausted`),
rounds, intake, events and the four components of `MCBackground`. The other modules state no fairness;
"no lost wake-up" of the waitlist is the invariant `NobodyIsForgotten`, that an admission is pending
whenever a place and a waiter are.

## 5. Proofs

Checked by TLAPS, for every value of the constants that meets the named assumptions of the modules
(`ASSUME ...Assumption`: sets are finite where the code counts them, numbers are natural,
limits positive); bounds on faults and counters are arbitrary numbers. Three theorems have a hypothesis of their own, named below:
one process at a time (two of them), and amounts that resolve the tolerance.

| module | theorem | states, of the specification |
|---|---|---|
| `PayoutSettlementProofs` | `TypeCorrect`, `NoDoublePayout`, `WriteAhead`, `RowsAreTrue` | `TypeOK`, `AtMostOneBroadcast`, `BroadcastIsRecorded`, `RowsTellTheTruth` |
| | `PromiseIsKept` | `KeepsPromise`: every step is a step of `PayoutPromise` or a stutter |
| | `VerdictsStandTheorem` | the safety half of `SettlesUnlessExhausted`: recorded hashes stay, and settled rows but for the call that saves late |
| `RoundAdvanceProofs` | `PaidOutRoundsAreFullTheorem`, `FlagsAreCurrentTheorem` | the properties of `rounds_overlap` |
| | `RoundIsPaidOnceTheorem`, `RoundsInOrderTheorem` | with one process at a time, `RoundIsPaidOnce`, and rounds move by one |
| `ContributionIntakeProofs` | `SerialisesRetries` | `OneSubmitterPerKey` |
| | `ConfirmedIsTrue`, `NeverUnsettledTheorem` | the safety half of `RecordsSettle` |
| `BackgroundProofs` | `EventsTypeTheorem`, `PollsAreSafeTheorem`, `NeverCountedTwice` | `EventsTypeOK`, `PollsAreSafe`, `CountedAtMostOnce` |
| | `EventsInOrderTheorem` | the safety half of `EventsSettle`: `HandledInOrder`, `CheckpointAdvances`, `RecordedForGood` |
| | `BackgroundTypeTheorem` | `BackgroundTypeOK` |
| | `NobodyMarkedUnmailed`, `BreakerTripsOnRealFailures` | the safety halves of `TasksSettle` and `AlertsConverge` |
| `MembershipWaitlistProofs` | `PlacesAndOrdersHoldTheorem`, `NobodyIsForgottenTheorem` | the properties of `members` |
| `GroupsProofs` | `GroupsTypeTheorem`, `OneMediatorTheorem`, `TemplatesHoldTheorem`, `StandingHoldsTheorem`, `NobodyIsLetOffTheorem`, `ClockStopsTheorem`, `NodesAreHeardTheorem`, `StartedGroupsAreKeptTheorem` | eight of the nine properties of `groups` |
| | `PricesHoldTheorem` | the ninth, `PricesHold`, where amounts resolve the tolerance |
| | `AlertIsRaisedTheorem` | the half of it that needs no hypothesis |
| `SafeguardProofs` | `FlagsAreKeptTheorem`, `ResumingSkipsNothing` | of `FlagsSpec`, `FlagsAreKept`; of `RotationSpec`, `BehindCheckpointRotated` |
| `PlatformProofs` | `PlatformTypeTheorem`, `DeliveriesTheorem`, `CachesTheorem`, `RetriesTheorem`, `LimitsTheorem`, `RotationTheorem`, `FlagsTheorem`, `ErasureTheorem` | of `PlatformSpec`, `PlatformTypeOK`, `DeliveriesAreHonest`, `CachesAreCurrent`, `RetriesRepeatNothing`, `LimitsHold`, `BehindCheckpointRotated`, `FlagsAreKept`, `ErasureIsReal` |

The arguments. None of these properties is inductive; each module states the invariant that is,
TLC has checked it on the run's instance, and its name is in parentheses.

*Payouts* (`IInv`, `TruthInv`). `AtMostOneBroadcast` does not say why a second caller cannot be about
to send. The call whose insert won the unique index owns the order until it ends; there is at most one
owner; before the owner sends, nothing has been sent; and a row once inserted stays, so after a
crash of the owner nobody can become one. For write-ahead, the owner's row holds no hash but the
owner's, and a worker writes back only the hash it has read, which is still the row's. For truth, a
verdict under way agrees with what the chain said when it was asked, and the chain does not change its mind. What a worker has in
hand is not settled yet (`WorkIsOpen`), so no verdict replaces another; only the call itself can take one back, if the processor has
found its transaction before it comes to save that it was sent. The row then counts as unconfirmed once more, under the same hash.

*Rounds* (`RoundInv`, `AloneInv`). A flag in `paid` of the open round has its contribution in
`given`; a process about to pay has seen a round that was full, and rounds that were full stay so. The
save of an older group moves the round back, but never past a round that was full; this needs that the group was not
started twice (`TwoStarts`), since the second start takes the round back whatever its flags. Payouts by hand are counted on
top of the others, and change nothing these are decided by. With one process at a
time, the round a process holds is the stored one, which orders payouts, resets and saves. That only one process
runs is a hypothesis of two theorems (the constant `Procs` has one element), since the code does not
keep two administrators or tasks apart.

*Intake* (`Holding`, `SettledInv`). If the lock outlives its holders, every call between acquiring and releasing has
its key's lock set and is alone there: a caller that was turned away never comes to release. A
contribution has one writer of each kind at a time, and whatever verdict is on its way is what the chain said.

*Events* (`ListenerInv`, `CInv`). Whatever lies behind the checkpoint, behind what a poll has read of
it, and behind its place in the page is processed or in a page (`Behind`). After crashes this needs that each
transaction is alone in its ledger; without them, that pages end with ledgers. Repeated effects are
bounded by crashes because a crash leaves at most one transaction written and not marked (`Loose`), and handling that one
again turns it from loose to repeated. As to the order (`OrderInv`): a poll that is alone begins at the checkpoint, beyond which at
most the first transaction was written, by a poll that died before it moved the checkpoint; at its place in the page nothing further on
is written, nor does the checkpoint lie further on. For the sync jobs, the count a job writes back is one more than a count read
before its transfer was on record, and a transfer on record stays there; no job has read a round yet to come (`RoundsReached`).

*Background* (`BackgroundInv`: `TasksInv`, `ScoresInv`, `BalanceInv`, `KycInv`). A run that is about to mark a
user has mailed that one, and a crash forgets the run, not the mail. No count is higher than the number of changes there have been, which
bounds what a score is computed from. A closed breaker has counted no load more than twice, so the one that opens it closes a streak of
half the threshold; whatever ends the streak closes the breaker. An account whose last alert could not be sent is in `unsent`, one whose
alert was sent has been told what the monitor holds of it. KYC rows are sequences that only grow, and a user's latest row exists
whenever there is one, by well-foundedness of the numbers below it.

*Members* (`MembersInv`: `WaitInv`, `PlacesInv`, `OrderInv`). Additions and admissions hold the row of the
group from their check to their commit (`LockHolds`), so what they counted is still there
(`SlotsAreFree`); a departure that shifts members leaves exactly one gap, at the place it has come to
(`GapIsFree`); a departure schedules its admission before it ends.

*Groups* (`GroupsInv`). Mediation: a worker that mediates and has not lapsed holds the lock, and jobs keep to their groups
(`MediationInv`). Lifecycle: a request nobody has overtaken holds the row as it is, so what an update has seen PENDING
still is (`EditorsInv`, `RequestsInv`); as long as none has saved an overtaken row, a deployment on its way is the only one, and its group ACTIVE. Templates: uses not yet counted belong to groups already saved (`TemplateInv`, by counting the makers between
save and increment). Standing: what a request has seen of a row nobody changed is current (`StandingInv`). Penalties: an assessment
under way has dealt with the members it has passed (`PenaltyInv`, `Underway`). Plans: deadlines are where the settled,
paused and resumed time puts them (`PlanInv`, `OnSchedule`). Pricing, reading and nodes: `PricingInv`, `ReadingInv`, `RpcInv`.

*Slippage* (`SlippageStep`). A round pays at least what the group asks of one member: the sum of the accepted amounts is natural and
no smaller than one of them. The sum is a recursive function on the subsets of the contributors; that there is one, and that its
values are natural, is shown of a smallest counterexample (`HasLeast`, `SumsExist`, `SumOfNats`). `computeSendMax` allows the
factor 1 + t over the amount, and `isRateWithinTolerance` accepts what is taken up to the factor 1 / (1 - t), which is more, by
t² of the amount. Both round to the smallest unit, and t² has to outweigh that: `AmountsResolveTolerance` says that it does for
the least amount a round can pay, or that nothing is tolerated, and that the decimals of a rate resolve the tolerance (seven decimals resolve every
number of basis points). At the default of 200 basis points it asks for a `contributionAmount` of 1225 smallest units (0.0001225)
or more; the run's instance meets it. Below it the theorem is false, and so is the claim about the code: the rounding of
`computeSendMax` itself can exceed the tolerance, so that an amount of 3 units with 17 % may be taken at a worse rate than is tolerated and then be reported as refused.

*Platform* (`PlatformInv`). The thirteen components share no variable, so a step of the whole is a step of one and a
stutter of the others (`PlatformSteps`), and the invariants are proved one component at a time: the six that guard users and
their data in `SafeguardProofs`, the others in `PlatformProofs`, which puts all together.

* Sessions (`SessionInv`): a cached version that is not the row's is about to be dropped by the request that raised it, or was
  cached by a check that had read the row before, or its drop was lost (`lateEntry`); this is inductive with the types alone.
* Accounts (`GdprInv`, `Removed`): once any erasure has come to a step, the rows, exports and tokens left are those that came when one had
  passed the step that removes them, and the exports S3 has refused. However many servers there are: what is stored while no erasure has
  passed that step is still in the way of each one under way, and what comes later is recorded when it comes (`overtook`, `lateSignIn`).
* Rate limits (`RateInv`): the hits of a bucket lie in the order in which they expire, so that the hits let through are among the first
  `LimitOf` of those still counted. A closed bucket outlasts all its hits but those of requests that have passed the check and not yet closed
  it (`Outlast`), which is why waiting pays off.
* Caches (`CachingInv`): what a reader has read is outdated by no more than its own age, an entry by that and the time it has lain there.
* Key rotation (`RotationInv`): a batch holds every row it will have passed, or the row was written under another key meanwhile.
* Encryption script (`BackfillInv`, `NeverTwice`): neither a row, nor what a rollback would restore, nor a page holds a bare ciphertext
  encrypted again, nor, without a ring of keys, one with a version.
* Flags (`FlagsHold`): an edit that is alone knows the flags as they are; an entry of a cache was Redis's when it was stored.
* Queues (`JobsInv`): whoever is to mark a dead letter as retried, or to remove a row, has queued its payload anew, and nothing takes a
  queued payload away. Webhooks (`HooksInv`): an answer under way to a row is one its endpoint has given.
* Push messages (`PushInv`): unless it is `doubtful`, a job that waits, or a device it has still to send to, has had no push.
  Streams (`NotesInv`): every stream that is opening or open has a slot.
* Files (`FilesInv`): uploads and deletions pass object, thumbnail and row in one order, so how far each has come says what is there.
* Announcements (`BoardInv`): the live announcements and what requests under way may still add never exceed the cap by more than `slack`.
  The invariant names the one request, if any, that started alone (`CapHolds`): all others have paid slack for what they may add.

Only model-checked. Liveness and everything under fairness: of `SettlesUnlessExhausted`, `RoundsProgress`, `RecordsSettle`,
`EventsSettle`, `TasksSettle` and `AlertsConverge` the safety halves are proved, as the table says; `ScoresConverge` and
`NobodyWaitsUnflagged` are liveness throughout. The three runs that expect a violation state what does not hold.

## 6. What the code does otherwise than it says

Three have a run in which TLC finds them.

1. `payout_slippage_paid`. `submitPathPayment` judges the rate after the network has taken the payment
   (`stellar/stellar.service.ts:537`); the row is FAILED, and the recipient paid.
   `stellar.service.ts:419` says "no fill was accepted".
2. `standing_round`. The flags of a round are reset for active members only (`groups/round.service.ts:104`): who is
   suspended in a round that was paid, and reinstated in a later one, counts as having paid that one too.
3. `rotation_live`. A batch of the key rotation is written back by id over what the live application
   wrote since it was read (`common/encryption/key-rotation.ts:204`); `scripts/rotate-encryption-keys.ts:5`
   says "Safe to run against a live database".

The others are stated as definitions that no run checks, named in parentheses, or are conditions of
properties, or were met while reading.

*Payouts and rounds.*
* `tryAdvanceRound` saves COMPLETED (`round.service.ts:68`) and then asks for the last payout, which `distributePayout`
  refuses in a group that is not ACTIVE (`payout.service.ts:70`) (`LastRoundIsPaidOut`).
* `advanceRound` reads the group again in its transaction, without a lock and without the check
  (`groups.service.ts:785`); its on-chain payout comes before the transaction (`:758`), so a crash between the two pays again.
* A payout row without a hash stays PENDING_SUBMISSION for ever, since the sweep selects rows with one (`payout.service.ts:367`), and
  blocks its order (`:170`). A confirmed payout whose call died never marks its member.
* The reconciliation job's id is its row's, and a job that used up its attempts is kept, so later adds are ignored (`queue.service.ts:208`).
* The status task completes a group a round earlier than `round.service.ts:31` (`group-status.service.ts:110`) and
  activates groups with round 0 (`:99`) where `activateGroup` starts at 1. A deadline tick that read the group before another
  advanced it resets the new round's flags (`round-advance.service.ts:125`); a crash between reset and save forgets a full
  round's payments (`round.service.ts:104`). The listener increments the round for a `RoundCompleted` that
  `advanceRound` has counted already (`event-listener.service.ts:400`).
* A manual payout (`groups.controller.ts:505`) pays any round of an ACTIVE group at any time: it asks neither which round is current nor
  who has contributed. `advanceRound` pays the round again (`groups.service.ts:752-762`), and one that `advanceRound` has paid can be paid
  by hand, since that payout leaves no row; neither takes a crash.
* A PENDING group with a contract is started by the status task too, in round 0. If the administrator activates it meanwhile, the one
  that saves last, or the roll-back of a failed deployment, sets the round back while the flags of the other start stay.
* The rate of a path payment is judged against 1, not the locked rate (`payout.service.ts:193`) (`LockedRateIsHonoured`); the fee
  buffer may exceed the cap (`stellar.service.ts:360`) (`FeeIsCapped`); `BigInt("150.0000000")` throws, and the payout is given a hash of its
  own making (`stellar.service.ts:317`) (`SubmittedWasSent`).

*Contributions and events.*
* A request that finds the lock of its own key taken answers 409 even if the holder has just finished
  (`contributions.service.ts:128`); a contribution left PENDING is not reconciled (`:394`); the confirmation's deadline fails a transaction
  without asking the chain (`tx-confirmation.processor.ts:99`).
* A transfer job that fails between its two saves finds its own contribution when retried and returns (`event-sync.processor.ts:134`, `:173`): the member is
  never marked as paid (`CountedWhenSettled`). One that saves late sets the flag for a round already over (`:181`).
* The listener's checkpoint is a ledger, where Horizon takes a paging token; a page or a poll that ends inside a ledger loses the rest of it.
  `SYNC_ON_CHAIN_EVENT` and `addSyncGroupState` have no producer.
* What is taken for the asset of a transaction may be a number of its arguments (`stellar.service.ts:972`) (`AssetsAreAssets`).

*Members.*
* `member.payoutOrder > null` (`memberships.service.ts:462`): when a member who was invited, and so has no order, leaves, order 1
  becomes a second order 0 (`OneMemberPerOrder`). A leave saves again members removed since it listed them. `DELETE :id/members/me` is
  unreachable behind `:id/members/:userId` (`memberships.controller.ts:222`, `:122`).
* `joinByCode` looks neither at the capacity nor at the status. Admissions do not move waitlist positions
  up (`waitlist.service.ts:154`). An entry whose user was added directly makes every later batch fail. A user who cancelled or was admitted cannot wait
  again. A wake-up is lost if the place comes free between the check and the save of `joinWaitlist`.
* Requests of the administrators and the status task save whole rows over each other: an update over an activation
  (`groups.service.ts:309`), by the task too; a hand-over during a deployment takes the contract off the row again. If the second save of an
  activation fails, the roll-back leaves a PENDING group with the contract (`groups.service.ts:526-554`), and a process that dies
  between the two leaves an ACTIVE one without.
* Two servers, or a retry, assess one penalty twice (`OnePenaltyPerRound`); `deductPenaltiesFromContribution` and
  `GroupMaintenanceMixin` have no caller.

*Tasks and accounts.*
* The scheduler's lock is a plain `SET` followed by a look at the key it has just set
  (`scheduler/services/distributed-lock.service.ts:16-40`), so it excludes nobody; `scheduler/README.md:97` says NX (`OneInstanceExecutes`).
* The balance monitor wraps each read in the breaker twice (`balance-monitor.service.ts:187`, `:211`), so a half-open probe refuses itself
  (`BreakerRecovers`); escrow accounts are never watched; an account may be told to have recovered although it was read low (`RecoveredIsRecovered`). An alert whose webhook fails is caught and logged
  (`:302-326`) after the account was noted as low (`:263`, `:282`), so it is never sent again.
* An upload may reuse a case that is closed (`OpenCasesReused`). Erasure deletes the KYC files in the export bucket
  (`gdpr.processor.ts:130`, against `kyc.service.ts:68`), so they stay in their own. It does not read the errors S3 reports key by key (`:130`,
  `:142`), and what is uploaded, exported or signed in to after it has passed the step concerned stays beside ERASURE_COMPLETED.
* A failed row of the rotation is skipped when it is run again; the backfill pages with LIMIT and OFFSET without ORDER BY and misses rows
  (`AllAreEncrypted`); with a ring of keys it takes every ciphertext, which then begins with its version
  (`field-encryption.transformer.ts:251`), for plaintext (`scripts/encrypt-existing-records.ts:42-52`), and encrypts again what a rerun, or a row that has moved, brings before it; `emailBlindIndex` is written by nobody.

*Platform.*
* `RedisService.get` parses an answer the idempotency interceptor parses again, which throws (`idempotency.interceptor.ts:121`): a repeated
  request runs again (`AnswerIsReplayed`). `CacheInvalidator` has no caller. The maintenance switch refuses the route that ends maintenance.
* The poison tracker is told of no failure (`PoisonIsMarked`).
* A duplicate notification that is older than a day, or that is inserted meanwhile, undoes its whole batch (`DuplicatesAreDropped`). A client that leaves while its stream subscribes keeps
  its slot (`SlotsAreActive`). Trusted addresses are read by no guard.
* Signed URLs of the local storage never serve a file; spreadsheets are allowed by the service and refused by its pipe.

## 7. What is not modelled

XDR, signatures and ciphers, message texts and templates of mails; the transport of websockets; second factors and API keys, which
decide per request over one row; the inspection of uploaded KYC files; the fee estimate endpoint; read-only endpoints, exports,
metrics and health; the audit trail, whose anchoring is registered in no module; the drafts in
directories that `app.module.ts` does not import (except the file service), some of which duplicate code in use. Payout order strategies RANDOM and
ADMIN_DEFINED, and several groups sharing a wallet are left out of the modules above. Code outside the repository
(PostgreSQL, Redis, BullMQ, Stellar RPC, Horizon, Firebase) appears as the code in `src/` relies on it and is marked external in
the map. The status of every component, with what is left out of it, is in `PROJECT.json`.

## 8. What is left

The liveness halves of the temporal properties stay with TLC, as the prover does not reason about fairness. In a model with several
groups, accounts or orders nothing new is expected, as they share no state. A proof of `RoundIsPaidOnce` for several processes would need the code to serialise the procedures that move a
group.
