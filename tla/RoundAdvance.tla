---------------------------- MODULE RoundAdvance ----------------------------
(***************************************************************************)
(* The life of one savings group, and everything that moves its rounds:    *)
(*   "try"       RoundService.tryAdvanceRound, run after each contribution *)
(*               and by the stalled-round fallback of GroupStatusService;  *)
(*   "deadline"  RoundAdvanceService.processDeadlinedGroups, every minute; *)
(*   "admin"     GroupsService.advanceRound, on an administrator's request;*)
(*   "activate"  GroupsService.activateGroup, likewise;                    *)
(*   "status"    GroupStatusService.updateGroupStatuses, from cron;        *)
(*   "listener"  EventListenerService.handleRoundCompleted;                *)
(*   "manual"    GroupsController.triggerManualPayout, by which he has any  *)
(*               round paid out at any time; in one step, without a process.*)
(*                                                                         *)
(* Each runs as a process that reads, awaits and writes, one action per    *)
(* await.  Repository.save writes back the whole entity a process has read *)
(* (TypeORM updates every column that differs), so a late save also undoes *)
(* what others wrote since: a process keeps the group it saw in `seen`.    *)
(***************************************************************************)
EXTENDS Naturals, FiniteSets, TLC

CONSTANTS
  Members,       \* memberships of the group, and
  Suspended,     \* those of them with status SUSPENDED
  Procs,         \* how many of the procedures can run at a time
  Kinds,         \* the procedures considered
  TotalRounds,   \* group.totalRounds
  Penalised,     \* rounds whose recipient owes a penalty
  MaxTransfers,  \* bound: on-chain payouts of one round
  MaxCrashes     \* bound: crashes of a process

ASSUME MembersAssumption == Suspended \subseteq Members
ASSUME RoundsAssumption == TotalRounds \in Nat \ {0} /\ MaxTransfers \in Nat /\ MaxCrashes \in Nat

VARIABLES
  group,      \* the row of the group
  paid,       \* members with hasPaidCurrentRound
  given,      \* contributions the chain has, <<member, round>>
  unheard,    \* those the event listener has not processed
  payouts,    \* rounds whose payout distributePayout has taken on
  transfers,  \* on-chain payouts per round
  closings,   \* RoundCompleted events per round not yet processed
  byHand,     \* (history) rounds whose payout was triggered by hand
  at,         \* where each process stands, and
  seen,       \* the group it has read
  blind,      \* (history) an advanceRound has moved on another round than it checked
  starters,   \* (history) who has activated the group, activateGroup or the status task
  crashes

moneyVars == <<given, unheard>>
chainVars == <<payouts, transfers, closings, byHand>>
vars == <<group, paid, given, unheard, payouts, transfers, closings, byHand, at, seen,
          blind, starters, crashes>>

-----------------------------------------------------------------------------
Active == Members \ Suspended
Rounds == 0 .. TotalRounds
Statuses == {"PENDING", "ACTIVE", "COMPLETED"}
Groups == [status : Statuses, round : Nat, contract : BOOLEAN]
Steps == {"idle", "try", "full_try", "reset_try", "saved_try", "full_deadline",
          "reset_deadline", "admin", "paid_admin", "tx_admin", "activate",
          "deploy_activate", "status", "listener"}

TypeOK ==
  /\ group \in Groups
  /\ paid \in SUBSET Members
  /\ given \in SUBSET (Members \X Rounds)
  /\ unheard \in SUBSET given
  /\ payouts \in SUBSET (1 .. TotalRounds)
  /\ transfers \in [1 .. TotalRounds -> 0 .. MaxTransfers]
  /\ closings \in [1 .. TotalRounds -> 0 .. MaxTransfers]
  /\ at \in [Procs -> Steps]
  /\ seen \in [Procs -> Groups]
  /\ byHand \in SUBSET payouts
  /\ blind \in BOOLEAN
  /\ starters \in SUBSET {"admin", "task"}
  /\ crashes \in 0 .. MaxCrashes

\* A group may be created with a contractAddress; activation gives it one.
Init ==
  /\ \E contract \in BOOLEAN :
       group = [status |-> "PENDING", round |-> 0, contract |-> contract]
  /\ paid = {}
  /\ given = {}
  /\ unheard = {}
  /\ payouts = {}
  /\ transfers = [r \in 1 .. TotalRounds |-> 0]
  /\ closings = transfers
  /\ byHand = {}
  /\ at = [p \in Procs |-> "idle"]
  /\ seen = [p \in Procs |-> group]
  /\ blind = FALSE
  /\ starters = {}
  /\ crashes = 0

-----------------------------------------------------------------------------
\* Process p reads the group and goes on to step s; an idle process only
\* starts a procedure that is considered.
Start(p, kind, s) ==
  /\ kind \in Kinds
  /\ at[p] = "idle"
  /\ at' = [at EXCEPT ![p] = s]
  /\ seen' = [seen EXCEPT ![p] = group]

Goto(p, from, to) == at[p] = from /\ at' = [at EXCEPT ![p] = to]

\* The write-back of what p has read, with the changes made to it.
SaveGroup(g) == group' = g

Advanced(g, status) ==
  [status |-> status, round |-> g.round + 1, contract |-> g.contract]
IsLast(g) == g.round + 1 > TotalRounds

Full(ms) == ms \subseteq paid

TryLoad(p) ==
  /\ group.status = "ACTIVE"
  /\ Start(p, "try", "try")
  /\ UNCHANGED <<group, paid, moneyVars, chainVars, blind, starters, crashes>>

\* Mutation of TryCheck: one payment is enough.
TryCheckSome(p) ==
  /\ Goto(p, "try", IF Active \cap paid # {} THEN "full_try" ELSE "idle")
  /\ UNCHANGED <<group, paid, moneyVars, chainVars, seen, blind, starters, crashes>>

\* Mutation of TryCheck: suspended members have to pay as well.
TryCheckEverybody(p) ==
  /\ Goto(p, "try", IF Active # {} /\ Full(Members) THEN "full_try" ELSE "idle")
  /\ UNCHANGED <<group, paid, moneyVars, chainVars, seen, blind, starters, crashes>>

\* The ACTIVE memberships are read: there must be some, and all paid.
TryCheck(p) ==
  /\ Goto(p, "try", IF Active # {} /\ Full(Active) THEN "full_try" ELSE "idle")
  /\ UNCHANGED <<group, paid, moneyVars, chainVars, seen, blind, starters, crashes>>

\* Groups and memberships are read together; no ACTIVE member is no obstacle.
\* The deadline itself is left open: it may have passed at any time.
DeadlineLoad(p) ==
  /\ group.status = "ACTIVE" /\ Full(Active)
  /\ Start(p, "deadline", "full_deadline")
  /\ UNCHANGED <<group, paid, moneyVars, chainVars, blind, starters, crashes>>

\* Past the last round the group is COMPLETED; the flags are left alone.
Complete(p) ==
  /\ IsLast(seen[p])
  /\ Goto(p, "full_try", "saved_try") \/ Goto(p, "full_deadline", "idle")
  /\ SaveGroup(Advanced(seen[p], "COMPLETED"))
  /\ UNCHANGED <<paid, moneyVars, chainVars, seen, blind, starters, crashes>>

\* Mutation of ResetFlags: nobody's flag is reset.
ResetNobody(p) ==
  /\ ~IsLast(seen[p])
  /\ Goto(p, "full_try", "reset_try") \/ Goto(p, "full_deadline", "reset_deadline")
  /\ UNCHANGED <<group, paid, moneyVars, chainVars, seen, blind, starters, crashes>>

\* The flags of the ACTIVE members are reset before the round is saved.
ResetFlags(p) ==
  /\ ~IsLast(seen[p])
  /\ Goto(p, "full_try", "reset_try") \/ Goto(p, "full_deadline", "reset_deadline")
  /\ paid' = paid \ Active
  /\ UNCHANGED <<group, moneyVars, chainVars, seen, blind, starters, crashes>>

SaveRound(p) ==
  /\ Goto(p, "reset_try", "saved_try") \/ Goto(p, "reset_deadline", "idle")
  /\ SaveGroup(Advanced(seen[p], seen[p].status))
  /\ UNCHANGED <<paid, moneyVars, chainVars, seen, blind, starters, crashes>>

\* distributePayout reads the group afresh and only pays in an ACTIVE group with
\* a contract, a scheduled recipient without penalties, once.
Payable(r) ==
  group.status = "ACTIVE" /\ group.contract /\ r \in (1 .. TotalRounds) \ (payouts \cup Penalised)

\* The contract transfers the payout of a round, and says so in an event.
Transfer(r) ==
  /\ transfers[r] < MaxTransfers
  /\ transfers' = [transfers EXCEPT ![r] = @ + 1]
  /\ closings' = [closings EXCEPT ![r] = @ + 1]

\* distributePayout for the round just closed; its refusal is logged and
\* forgotten.
DistributePayout(p) ==
  LET r == seen[p].round IN
  /\ Goto(p, "saved_try", "idle")
  /\ \/ Payable(r) /\ Transfer(r) /\ payouts' = payouts \cup {r} /\ UNCHANGED byHand
     \/ ~(Payable(r) /\ transfers[r] < MaxTransfers) /\ UNCHANGED chainVars
  /\ UNCHANGED <<group, paid, moneyVars, seen, blind, starters, crashes>>

\* The administrator names the round: nothing asks whether it is the current
\* one, whether anybody has contributed to it, or whether advanceRound has paid it.
ManualPayout(r) ==
  /\ "manual" \in Kinds
  /\ Payable(r) /\ Transfer(r)
  /\ payouts' = payouts \cup {r}
  /\ byHand' = byHand \cup {r}
  /\ UNCHANGED <<group, paid, moneyVars, at, seen, blind, starters, crashes>>

-----------------------------------------------------------------------------
\* advanceRound checks the group and all its memberships, whatever their
\* status, outside the transaction.
AdminLoad(p) ==
  /\ group.status = "ACTIVE" /\ Full(Members)
  /\ Start(p, "admin", "admin")
  /\ UNCHANGED <<group, paid, moneyVars, chainVars, blind, starters, crashes>>

\* disbursePayout is called directly if the group has a contract and the round
\* a recipient; when it throws, the request ends.
AdminDisburse(p) ==
  LET r == seen[p].round IN
  /\ IF seen[p].contract /\ r \in 1 .. TotalRounds
     THEN \/ Goto(p, "admin", "paid_admin") /\ Transfer(r)
          \/ Goto(p, "admin", "idle") /\ UNCHANGED <<transfers, closings>>
     ELSE Goto(p, "admin", "paid_admin") /\ UNCHANGED <<transfers, closings>>
  /\ UNCHANGED <<group, paid, moneyVars, payouts, byHand, seen, blind, starters, crashes>>

\* The transaction reads the group again, without a lock and without repeating
\* the checks, ...
AdminRefetch(p) ==
  /\ Goto(p, "paid_admin", "tx_admin")
  /\ seen' = [seen EXCEPT ![p] = group]
  /\ blind' = (blind \/ group.round # seen[p].round)
  /\ UNCHANGED <<group, paid, moneyVars, chainVars, starters, crashes>>

\* ... and commits the next round with all flags reset, or COMPLETED.
AdminCommit(p) ==
  /\ Goto(p, "tx_admin", "idle")
  /\ IF IsLast(seen[p])
     THEN /\ SaveGroup(Advanced(seen[p], "COMPLETED"))
          /\ UNCHANGED paid
     ELSE /\ SaveGroup(Advanced(seen[p], seen[p].status))
          /\ paid' = {}
  /\ UNCHANGED <<moneyVars, chainVars, seen, blind, starters, crashes>>

-----------------------------------------------------------------------------
\* Mutation of ActivateLoad: the status of the group is not looked at.
ActivateLoadAny(p) ==
  /\ Start(p, "activate", "activate")
  /\ UNCHANGED <<group, paid, moneyVars, chainVars, blind, starters, crashes>>

ActivateLoad(p) ==
  /\ group.status = "PENDING"
  /\ Start(p, "activate", "activate")
  /\ UNCHANGED <<group, paid, moneyVars, chainVars, blind, starters, crashes>>

ActivateSave(p) ==
  LET g == [seen[p] EXCEPT !.status = "ACTIVE", !.round = 1] IN
  /\ Goto(p, "activate", "deploy_activate")
  /\ seen' = [seen EXCEPT ![p] = g]
  /\ SaveGroup(g)
  /\ starters' = starters \cup {"admin"}
  /\ UNCHANGED <<paid, moneyVars, chainVars, blind, crashes>>

\* deployRoscaContract answers and its address is saved; or it throws, or that
\* save does, and the activation is rolled back, with the new address in the
\* row or without.
Deploy(p) ==
  /\ Goto(p, "deploy_activate", "idle")
  /\ \/ SaveGroup([seen[p] EXCEPT !.contract = TRUE])
     \/ \E contract \in {seen[p].contract, TRUE} :
          SaveGroup([seen[p] EXCEPT !.status = "PENDING", !.round = 0, !.contract = contract])
  /\ UNCHANGED <<paid, moneyVars, chainVars, seen, blind, starters, crashes>>

\* updateGroupStatuses reads the groups that are not COMPLETED, ...
StatusLoad(p) ==
  /\ group.status # "COMPLETED"
  /\ Start(p, "status", "status")
  /\ UNCHANGED <<group, paid, moneyVars, chainVars, blind, starters, crashes>>

\* ... activates those with a contract (and minMembers members) and completes
\* those that have reached their last round.
StatusSave(p) ==
  LET started == seen[p].status = "ACTIVE" \/ seen[p].contract
      status == IF ~started THEN "PENDING"
                ELSE IF seen[p].round >= TotalRounds THEN "COMPLETED" ELSE "ACTIVE" IN
  /\ Goto(p, "status", "idle")
  /\ IF status # seen[p].status THEN SaveGroup([seen[p] EXCEPT !.status = status])
                                ELSE UNCHANGED group
  /\ starters' = starters \cup (IF seen[p].status = "PENDING" /\ started THEN {"task"} ELSE {})
  /\ UNCHANGED <<paid, moneyVars, chainVars, seen, blind, crashes>>

-----------------------------------------------------------------------------
\* A member contributes, once, to the round an ACTIVE group shows.  Bound: what
\* is given after the last round is left out.
Contribute(m) ==
  /\ group.status = "ACTIVE" /\ group.round \in Rounds
  /\ <<m, group.round>> \notin given
  /\ given' = given \cup {<<m, group.round>>}
  /\ unheard' = unheard \cup {<<m, group.round>>}
  /\ UNCHANGED <<group, paid, chainVars, at, seen, blind, starters, crashes>>

\* handleContributionReceived marks the member as paid, whatever the round.
HearContribution(m, r) ==
  /\ <<m, r>> \in unheard
  /\ unheard' = unheard \ {<<m, r>>}
  /\ paid' = paid \cup {m}
  /\ UNCHANGED <<group, given, chainVars, at, seen, blind, starters, crashes>>

\* handleRoundCompleted: one SQL increment, whatever the round of the event, ...
HearClosing(p, r) ==
  /\ closings[r] > 0 /\ closings' = [closings EXCEPT ![r] = @ - 1]
  /\ Start(p, "listener", "listener")
  /\ group' = Advanced(group, group.status)
  /\ UNCHANGED <<paid, moneyVars, payouts, transfers, byHand, blind, starters, crashes>>

\* ... then the flags of all members.
ClearFlags(p) ==
  /\ Goto(p, "listener", "idle")
  /\ paid' = {}
  /\ UNCHANGED <<group, moneyVars, chainVars, seen, blind, starters, crashes>>

\* The process dies; its unfinished transaction is rolled back.
Crash(p) ==
  /\ crashes < MaxCrashes /\ crashes' = crashes + 1
  /\ at[p] # "idle"
  /\ at' = [at EXCEPT ![p] = "idle"]
  /\ UNCHANGED <<group, paid, moneyVars, chainVars, seen, blind, starters>>

-----------------------------------------------------------------------------
Continue(p) ==
  \/ TryCheck(p) \/ Complete(p) \/ ResetFlags(p) \/ SaveRound(p) \/ DistributePayout(p)
  \/ AdminDisburse(p) \/ AdminRefetch(p) \/ AdminCommit(p)
  \/ ActivateSave(p) \/ Deploy(p) \/ StatusSave(p) \/ ClearFlags(p)

Next ==
  \/ \E p \in Procs :
       \/ TryLoad(p) \/ DeadlineLoad(p) \/ AdminLoad(p) \/ ActivateLoad(p)
       \/ StatusLoad(p) \/ Continue(p) \/ Crash(p)
       \/ \E r \in 1 .. TotalRounds : HearClosing(p, r)
  \/ \E r \in 1 .. TotalRounds : ManualPayout(r)
  \/ \E m \in Members : Contribute(m) \/ \E r \in Rounds : HearContribution(m, r)

\* What has started goes on, the listener gets through the events it has, and
\* the fallback cron keeps calling tryAdvanceRound, whatever else is run in
\* between.  Nobody has to contribute or to press a button.
Fairness ==
  /\ \A p \in Procs : WF_vars(Continue(p)) /\ SF_vars(TryLoad(p))
  /\ \A m \in Members : \A r \in Rounds : WF_vars(HearContribution(m, r))

Safety == Init /\ [][Next]_vars
Spec == Safety /\ Fairness
-----------------------------------------------------------------------------
Gave(r) == \A m \in Active : <<m, r>> \in given

\* The listener has not yet counted a RoundCompleted event on top of the
\* advance of the service that made the payout.
NoEcho == closings = transfers

\* The group has been activated both by the administrator, in round 1, and by the
\* status task, which starts a group with a contract in the round it finds, 0: the
\* second of them to save, or a rollback between them, takes it back to a
\* round whose flags are still those of the other.
TwoStarts == starters = {"admin", "task"}

\* Payouts of a round made by hand, which nothing holds back.
Manual(r) == IF r \in byHand THEN 1 ELSE 0

\* Whoever advances the group and however they overlap or crash, no round is
\* paid out by them before every ACTIVE member has contributed to it:
\* tryAdvanceRound and advanceRound check the flags, and the flags speak of that
\* round.  Only a payout the administrator triggers by hand comes when it is
\* told to.  An advanceRound that finds the round moved on in its transaction
\* checks nothing again, and closes a round nobody need have paid for.
PaidOutRoundsAreFull ==
  NoEcho /\ ~blind /\ ~TwoStarts =>
    \A r \in 1 .. TotalRounds : r \in payouts \ byHand \/ transfers[r] > Manual(r) => Gave(r)

\* As long as procedures neither overlap nor crash, distributePayout and the
\* administrator's direct transfer between them pay no round twice; a round
\* paid by hand is paid once more at most (advanceRound does not look whether
\* it has been, nor does distributePayout see what advanceRound has paid).
OneTransferPerRound ==
  crashes = 0 => \A r \in 1 .. TotalRounds : transfers[r] <= 1 + Manual(r)

\* No flag of an ACTIVE member is left over from an earlier round: a member who
\* counts as paid contributed to the current round, or to one still to come.
FlagsAreCurrent ==
  group.status = "ACTIVE" /\ NoEcho /\ ~blind /\ ~TwoStarts =>
    \A m \in Active \cap paid : \E r \in group.round .. TotalRounds : <<m, r>> \in given

\* Nor is a contribution the listener has processed forgotten while its round
\* is open, except while a process is closing that round.
HeardIsRemembered ==
  group.status = "ACTIVE" /\ crashes = 0 /\ NoEcho /\ ~TwoStarts =>
    \A m \in Active : \/ m \in paid
                      \/ <<m, group.round>> \notin given \ unheard
                      \/ \E p \in Procs : at[p] \in {"reset_try", "reset_deadline"}

\* One round, one transfer and one by hand, and no contribution the chain
\* reported for a round is forgotten by it (payouts from tryAdvanceRound, the
\* deadline task, advanceRound and triggerManualPayout).
RoundIsPaidOnce == TypeOK /\ OneTransferPerRound /\ HeardIsRemembered

\* The round of a running group moves by one and never back.
RoundsInOrder ==
  [][group.status = "ACTIVE" /\ group'.status # "PENDING"
       => group'.round \in {group.round, group.round + 1}]_vars

\* A completed group stays so.
CompletedIsFinal ==
  [][group.status = "COMPLETED" => group'.status = "COMPLETED"]_vars

\* A round everybody has contributed to is closed in the end, unless a process
\* dies: the fallback "catches groups that stalled because a contribution event
\* was missed".
FullRoundCloses ==
  \A r \in Rounds : group.status = "ACTIVE" /\ group.round = r /\ Gave(r)
                    ~> \/ group.status # "ACTIVE" \/ group.round > r
                       \/ crashes > 0 \/ ~NoEcho \/ TwoStarts

\* Rounds move forward one by one, COMPLETED stays, and a round that everybody
\* has paid is closed (tryAdvanceRound and the deadline task).
RoundsProgress == RoundsInOrder /\ CompletedIsFinal /\ FullRoundCloses

\* Where the two invariants say nothing any more, neither do they of what follows.
Spoken == ~blind /\ ~TwoStarts

\* Members are alike, and so are processes.
Alike == Permutations(Members) \cup Permutations(Procs)

-----------------------------------------------------------------------------
\* "Trigger payout for the last round": a group completed by its members'
\* payments pays its last recipient too.
LastRoundIsPaidOut ==
  group.status = "COMPLETED" /\ TotalRounds \notin Penalised ~> TotalRounds \in payouts
=============================================================================
