------------------------- MODULE RoundAdvanceProofs -------------------------
(***************************************************************************)
(* Proofs about RoundAdvance, for any members, rounds and processes.       *)
(***************************************************************************)
EXTENDS RoundAdvance, TLAPS

(***************************************************************************)
(* Why PaidOutRoundsAreFull and FlagsAreCurrent hold.  The rounds in view  *)
(* are those the group or a process shows, or is about to save.  All the   *)
(* rounds before one in view are closed: every ACTIVE member has given to  *)
(* them and has been heard; a flag speaks for every round in view; and a   *)
(* process that found the flags full works on a round that is.  A late save*)
(* only ever brings an older round into view again.                        *)
(***************************************************************************)
Heard(m, r) == <<m, r>> \in given \ unheard
Closed(r) == \A m \in Active : Heard(m, r)

\* The round the group is activated in: the status task leaves the round it
\* finds.
First == IF "task" \in starters THEN 0 ELSE 1
Played == First .. TotalRounds

LEMMA PlayedRounds ==
  /\ First \in {0, 1} /\ Played \subseteq Rounds /\ Rounds \subseteq Nat
  /\ 1 .. TotalRounds \subseteq Played
BY RoundsAssumption DEF First, Played, Rounds

Trying == {"try", "full_try", "reset_try", "saved_try", "full_deadline",
           "reset_deadline"}
Resetting == {"reset_try", "reset_deadline"}
Checked == {"full_try", "reset_try", "saved_try", "full_deadline",
            "reset_deadline", "admin", "paid_admin", "tx_admin"}

Shown(p, r) ==
  /\ at[p] # "idle"
  /\ \/ r = seen[p].round
     \/ at[p] \in Resetting /\ r = seen[p].round + 1
InView(r) == r = group.round \/ \E p \in Procs : Shown(p, r)

\* A round that may be in view: all rounds before it are closed, and whoever
\* has a flag has given to it.
Open(v) ==
  /\ \A q \in Played : q < v => Closed(q)
  /\ v \in Played => \A m \in Active \cap paid : Heard(m, v)

\* What is true of every group ever saved.
Sound(g) ==
  /\ g.status # "PENDING" => g.round >= First
  /\ g.status = "ACTIVE" => g.round <= TotalRounds

\* What a process knows of the group it has read, by where it stands.
Knows(p) ==
  /\ Sound(seen[p])
  /\ at[p] \in Trying => seen[p].status = "ACTIVE"
  /\ at[p] = "activate" => seen[p].status = "PENDING"
  /\ at[p] = "deploy_activate" =>
       seen[p].status = "ACTIVE" /\ seen[p].round = 1 /\ "admin" \in starters
  /\ at[p] \in Resetting => ~IsLast(seen[p])
  /\ at[p] \in Checked /\ seen[p].round \in Played => Closed(seen[p].round)

\* Nobody has activated the group yet.
Fresh ==
  /\ group.status = "PENDING" /\ group.round = 0
  /\ \A p \in Procs : /\ seen[p].status = "PENDING" /\ seen[p].round = 0
                      /\ at[p] \in {"idle", "activate", "status"}
  /\ paid = {} /\ given = {}

\* A round paid otherwise than by hand was closed.
PaidOut(r) == r \in payouts \ byHand \/ transfers[r] > Manual(r)
PaidClosed == \A r \in 1 .. TotalRounds : PaidOut(r) => Closed(r)

RoundsClosed ==
  /\ Sound(group)
  /\ \A p \in Procs : Knows(p)
  /\ \A v \in Nat : InView(v) => Open(v)
  /\ \A m \in Active \cap paid : \E r \in Played : Heard(m, r)
  /\ \A m \in Members, r \in Rounds : <<m, r>> \in given =>
       r >= First /\ \A q \in First .. r - 1 : Closed(q)
  /\ PaidClosed
  /\ starters = {} => Fresh

\* A RoundCompleted event is heard after its transfer.
ClosingsMade == \A r \in 1 .. TotalRounds : closings[r] <= transfers[r]

RoundInv ==
  /\ TypeOK
  /\ ClosingsMade
  /\ NoEcho /\ ~blind /\ ~TwoStarts => RoundsClosed
-----------------------------------------------------------------------------
\* Transfers and their events: one more of both, one event less, or neither.
LEMMA CountersStep ==
  ASSUME TypeOK, ClosingsMade, [Next]_vars
  PROVE  /\ transfers' \in [1 .. TotalRounds -> 0 .. MaxTransfers]
         /\ closings' \in [1 .. TotalRounds -> 0 .. MaxTransfers]
         /\ ClosingsMade'
         /\ NoEcho' => NoEcho /\ \A p \in Procs, r \in 1 .. TotalRounds : ~HearClosing(p, r)
<1>1. CASE UNCHANGED <<transfers, closings>> /\ \A p \in Procs, r \in 1 .. TotalRounds : ~HearClosing(p, r)
  BY <1>1 DEF TypeOK, ClosingsMade, NoEcho
<1>2. ASSUME NEW r \in 1 .. TotalRounds, transfers[r] < MaxTransfers,
             transfers' = [transfers EXCEPT ![r] = @ + 1],
             closings' = [closings EXCEPT ![r] = @ + 1]
      PROVE  /\ transfers' \in [1 .. TotalRounds -> 0 .. MaxTransfers]
             /\ closings' \in [1 .. TotalRounds -> 0 .. MaxTransfers]
             /\ ClosingsMade'
             /\ NoEcho' => NoEcho /\ \A p \in Procs, q \in 1 .. TotalRounds : ~HearClosing(p, q)
  <2>1. transfers[r] \in 0 .. MaxTransfers /\ closings[r] \in 0 .. MaxTransfers
        /\ closings[r] <= transfers[r]
    BY DEF TypeOK, ClosingsMade
  <2>2. transfers[r] + 1 \in 0 .. MaxTransfers /\ closings[r] + 1 \in 0 .. MaxTransfers
    BY <2>1, <1>2, RoundsAssumption
  <2>3. transfers' \in [1 .. TotalRounds -> 0 .. MaxTransfers]
    BY <2>2, <1>2 DEF TypeOK
  <2>4. closings' \in [1 .. TotalRounds -> 0 .. MaxTransfers]
    BY <2>2, <1>2 DEF TypeOK
  <2>5. \A q \in 1 .. TotalRounds :
          /\ transfers'[q] = IF q = r THEN transfers[r] + 1 ELSE transfers[q]
          /\ closings'[q] = IF q = r THEN closings[r] + 1 ELSE closings[q]
    BY <1>2 DEF TypeOK
  <2>6. ClosingsMade' BY <2>1, <2>5 DEF ClosingsMade
  <2>7. NoEcho' => NoEcho
    <3>1. SUFFICES ASSUME closings' = transfers' PROVE closings = transfers
      BY DEF NoEcho
    <3>2. \A q \in 1 .. TotalRounds : closings[q] = transfers[q]
      BY <2>1, <2>5, <3>1, RoundsAssumption
    <3>3. /\ closings = [q \in 1 .. TotalRounds |-> closings[q]]
          /\ transfers = [q \in 1 .. TotalRounds |-> transfers[q]]
      BY DEF TypeOK
    <3>4. [q \in 1 .. TotalRounds |-> closings[q]] = [q \in 1 .. TotalRounds |-> transfers[q]]
      BY <3>2
    <3> QED BY <3>3, <3>4
  <2>8. \A p \in Procs, q \in 1 .. TotalRounds : ~HearClosing(p, q)
    <3>1. transfers'[r] # transfers[r] BY <2>1, <2>5
    <3> QED BY <3>1 DEF HearClosing
  <2> QED BY <2>3, <2>4, <2>6, <2>7, <2>8
<1>3. ASSUME NEW p \in Procs, NEW r \in 1 .. TotalRounds, HearClosing(p, r)
      PROVE  /\ transfers' \in [1 .. TotalRounds -> 0 .. MaxTransfers]
             /\ closings' \in [1 .. TotalRounds -> 0 .. MaxTransfers]
             /\ ClosingsMade' /\ ~NoEcho'
  <2>1. transfers[r] \in Nat /\ closings[r] \in Nat /\ closings[r] <= transfers[r]
        /\ closings[r] <= MaxTransfers /\ closings[r] > 0
    BY <1>3, RoundsAssumption DEF TypeOK, ClosingsMade, HearClosing
  <2>2. closings[r] - 1 \in 0 .. MaxTransfers BY <2>1, RoundsAssumption
  <2>3. closings' = [closings EXCEPT ![r] = @ - 1] /\ transfers' = transfers
    BY <1>3 DEF HearClosing
  <2>4. closings' \in [1 .. TotalRounds -> 0 .. MaxTransfers]
    BY <2>2, <2>3 DEF TypeOK
  <2>5. \A q \in 1 .. TotalRounds :
          closings'[q] = IF q = r THEN closings[r] - 1 ELSE closings[q]
    BY <2>3 DEF TypeOK
  <2>6. ClosingsMade' BY <2>1, <2>3, <2>5 DEF ClosingsMade
  <2>7. ~NoEcho' BY <2>1, <2>3, <2>5 DEF NoEcho
  <2> QED BY <2>3, <2>4, <2>6, <2>7 DEF TypeOK
<1>4. ASSUME \/ \E p \in Procs : DistributePayout(p) \/ AdminDisburse(p)
             \/ \E r \in 1 .. TotalRounds : ManualPayout(r)
      PROVE  \/ UNCHANGED <<transfers, closings>>
             \/ \E r \in 1 .. TotalRounds :
                  /\ transfers[r] < MaxTransfers
                  /\ transfers' = [transfers EXCEPT ![r] = @ + 1]
                  /\ closings' = [closings EXCEPT ![r] = @ + 1]
  BY <1>4 DEF DistributePayout, AdminDisburse, ManualPayout, Transfer, Payable, chainVars
<1>5. \/ \E p \in Procs, r \in 1 .. TotalRounds : HearClosing(p, r)
      \/ \E p \in Procs : DistributePayout(p) \/ AdminDisburse(p)
      \/ \E r \in 1 .. TotalRounds : ManualPayout(r)
      \/ UNCHANGED <<transfers, closings>>
  BY DEF Next, Continue, vars, chainVars, TryLoad, DeadlineLoad, AdminLoad, ActivateLoad,
         StatusLoad, TryCheck, Complete, ResetFlags, SaveRound, AdminRefetch, AdminCommit,
         ActivateSave, Deploy, StatusSave, ClearFlags, Crash, Contribute, HearContribution
<1> QED BY <1>1, <1>2, <1>3, <1>4, <1>5

\* What the edits of a group leave of it.
LEMMA Edits ==
  ASSUME NEW g \in Groups
  PROVE  /\ g.status \in Statuses /\ g.round \in Nat /\ g.contract \in BOOLEAN
         /\ \A st \in Statuses : Advanced(g, st) \in Groups /\ [g EXCEPT !.status = st] \in Groups
         /\ [g EXCEPT !.status = "ACTIVE", !.round = 1] \in Groups
         /\ [g EXCEPT !.contract = TRUE] \in Groups
<1>1. g.status \in Statuses /\ g.round \in Nat /\ g.round + 1 \in Nat /\ g.contract \in BOOLEAN
  BY DEF Groups
<1>2. ASSUME NEW st \in Statuses
      PROVE  Advanced(g, st) \in Groups /\ [g EXCEPT !.status = st] \in Groups
  BY <1>1 DEF Groups, Advanced
<1>3. ASSUME NEW st \in Statuses, NEW n \in Nat
      PROVE  [g EXCEPT !.status = st, !.round = n] \in Groups
  BY DEF Groups
<1>4. [g EXCEPT !.contract = TRUE] \in Groups BY DEF Groups
<1> QED BY <1>1, <1>2, <1>3, <1>4 DEF Statuses

LEMMA RolledBack ==
  ASSUME NEW g \in Groups, NEW c \in BOOLEAN
  PROVE  /\ [g EXCEPT !.status = "PENDING", !.round = 0, !.contract = c] \in Groups
         /\ [g EXCEPT !.status = "PENDING", !.round = 0, !.contract = c].status = "PENDING"
         /\ [g EXCEPT !.status = "PENDING", !.round = 0, !.contract = c].round = 0
  BY DEF Groups, Statuses

LEMMA TypeStep ==
  ASSUME TypeOK, ClosingsMade, [Next]_vars
  PROVE  TypeOK'
<1> USE DEF TypeOK, moneyVars, chainVars
<1>1. ASSUME NEW p \in Procs, TryLoad(p) \/ DeadlineLoad(p) \/ AdminLoad(p) \/ ActivateLoad(p) \/ StatusLoad(p)
      PROVE  TypeOK'
  BY <1>1 DEF TryLoad, DeadlineLoad, AdminLoad, ActivateLoad, StatusLoad, Start, Steps
<1>2. ASSUME NEW p \in Procs, TryCheck(p) \/ ResetFlags(p) PROVE TypeOK'
  BY <1>2 DEF TryCheck, ResetFlags, Goto, Steps
<1>3. ASSUME NEW p \in Procs, Complete(p) \/ SaveRound(p) PROVE TypeOK'
  <2>1. group' = Advanced(seen[p], "COMPLETED")
        \/ group' = Advanced(seen[p], seen[p].status)
    BY <1>3 DEF Complete, SaveRound, SaveGroup
  <2>2. group' \in Groups
    <3>1. seen[p] \in Groups /\ seen[p].status \in Statuses BY Edits
    <3>2. "COMPLETED" \in Statuses BY DEF Statuses
    <3> HIDE DEF TypeOK
    <3> QED BY <2>1, <3>1, <3>2, Edits
  <2> QED BY <1>3, <2>2 DEF Complete, SaveRound, Goto, Steps
<1>4. ASSUME NEW p \in Procs, DistributePayout(p) \/ AdminDisburse(p) PROVE TypeOK'
  <2>1. payouts' \in SUBSET (1 .. TotalRounds) /\ byHand' \in SUBSET payouts'
    BY <1>4 DEF DistributePayout, AdminDisburse, Payable
  <2> QED BY <1>4, <2>1, CountersStep DEF DistributePayout, AdminDisburse, Goto, Steps
<1>5. ASSUME NEW p \in Procs, NEW r \in 1 .. TotalRounds, HearClosing(p, r) PROVE TypeOK'
  <2>1. group' = Advanced(group, group.status)
    BY <1>5 DEF HearClosing
  <2>2. group' \in Groups BY <2>1, Edits DEF Statuses
  <2> QED BY <1>5, <2>2, CountersStep DEF HearClosing, Start, Steps
<1>6. ASSUME NEW p \in Procs, AdminRefetch(p) \/ AdminCommit(p) PROVE TypeOK'
  <2>0. \/ group' = Advanced(seen[p], "COMPLETED")
        \/ group' = Advanced(seen[p], seen[p].status)
        \/ group' = group
    BY <1>6 DEF AdminRefetch, AdminCommit, SaveGroup
  <2>1. group' \in Groups
    <3>1. group \in Groups /\ seen[p] \in Groups /\ seen[p].status \in Statuses BY Edits
    <3>2. "COMPLETED" \in Statuses BY DEF Statuses
    <3> HIDE DEF TypeOK
    <3> QED BY <2>0, <3>1, <3>2, Edits
  <2>2. paid' \in SUBSET Members BY <1>6 DEF AdminRefetch, AdminCommit
  <2>3. blind' \in BOOLEAN BY <1>6 DEF AdminRefetch, AdminCommit
  <2> QED BY <1>6, <2>1, <2>2, <2>3 DEF AdminRefetch, AdminCommit, Goto, Steps
<1>7. ASSUME NEW p \in Procs, ActivateSave(p) \/ Deploy(p) \/ StatusSave(p) PROVE TypeOK'
  <2>1. group' \in Groups
    <3>1. CASE ActivateSave(p)
      BY <3>1, Edits DEF ActivateSave, SaveGroup, Statuses
    <3>2. CASE Deploy(p)
      <4>1. seen[p] \in Groups OBVIOUS
      <4>2. \/ group' = [seen[p] EXCEPT !.contract = TRUE]
            \/ \E c \in BOOLEAN :
                 group' = [seen[p] EXCEPT !.status = "PENDING", !.round = 0, !.contract = c]
        <5>1. seen[p].contract \in BOOLEAN BY <4>1, Edits
        <5> QED BY <3>2, <5>1 DEF Deploy, SaveGroup
      <4>3. [seen[p] EXCEPT !.contract = TRUE] \in Groups BY <4>1, Edits
      <4>4. \A c \in BOOLEAN :
              [seen[p] EXCEPT !.status = "PENDING", !.round = 0, !.contract = c] \in Groups
        BY <4>1, RolledBack
      <4> HIDE DEF TypeOK
      <4> QED BY <4>2, <4>3, <4>4
    <3>3. CASE StatusSave(p)
      <4>1. group' = group \/ \E st \in Statuses : group' = [seen[p] EXCEPT !.status = st]
        BY <3>3 DEF StatusSave, SaveGroup, Statuses
      <4>2. \A st \in Statuses : [seen[p] EXCEPT !.status = st] \in Groups
        BY Edits
      <4> QED BY <4>1, <4>2
    <3> QED BY <1>7, <3>1, <3>2, <3>3
  <2>2. seen' \in [Procs -> Groups]
    BY <1>7, <2>1 DEF ActivateSave, Deploy, StatusSave, SaveGroup
  <2>3. starters' \in SUBSET {"admin", "task"}
    BY <1>7 DEF ActivateSave, Deploy, StatusSave
  <2> QED BY <1>7, <2>1, <2>2, <2>3 DEF ActivateSave, Deploy, StatusSave, Goto, Steps
<1>8. ASSUME NEW p \in Procs, ClearFlags(p) \/ Crash(p) PROVE TypeOK'
  <2>1. crashes' \in 0 .. MaxCrashes BY <1>8, RoundsAssumption DEF ClearFlags, Crash
  <2> QED BY <1>8, <2>1 DEF ClearFlags, Crash, Goto, Steps
<1>10. ASSUME NEW m \in Members, Contribute(m) PROVE TypeOK'
  BY <1>10 DEF Contribute
<1>11. ASSUME NEW m \in Members, NEW r \in Rounds, HearContribution(m, r) PROVE TypeOK'
  BY <1>11 DEF HearContribution
<1>12. CASE UNCHANGED vars BY <1>12 DEF vars
<1>13. ASSUME NEW r \in 1 .. TotalRounds, ManualPayout(r) PROVE TypeOK'
  <2>1. payouts' \in SUBSET (1 .. TotalRounds) /\ byHand' \in SUBSET payouts'
    BY <1>13 DEF ManualPayout
  <2> QED BY <1>13, <2>1, CountersStep DEF ManualPayout
<1> QED
  BY <1>1, <1>2, <1>3, <1>4, <1>5, <1>6, <1>7, <1>8, <1>10, <1>11, <1>12, <1>13
     DEF Next, Continue
\* A process that finds every ACTIVE member flagged finds every round in view
\* closed.
LEMMA FullCloses ==
  ASSUME RoundsClosed, Full(Active), NEW v \in Played, InView(v)
  PROVE  Closed(v)
  BY PlayedRounds DEF RoundsClosed, Full, Open, Closed

\* A step of one process that takes no contribution: what it saves and shows
\* must be in view already, or open.
LEMMA ProcessMoves ==
  ASSUME RoundsClosed, NEW p \in Procs, UNCHANGED <<moneyVars, starters>>, paid' \subseteq paid,
         starters = {} => Fresh',
         \A q \in Procs \ {p} : at'[q] = at[q] /\ seen'[q] = seen[q],
         Sound(group)', Knows(p)',
         \A v \in Nat : v = group'.round \/ Shown(p, v)' => InView(v) \/ Open(v)',
         \A r \in 1 .. TotalRounds : PaidOut(r)' => Closed(r)
  PROVE  RoundsClosed'
<1>0. First' = First /\ Played' = Played BY DEF First, Played
<1>1. \A m, r : Heard(m, r)' <=> Heard(m, r) BY DEF Heard, moneyVars
<1>2. \A r : Closed(r)' <=> Closed(r) BY <1>1 DEF Closed
<1>3. \A v \in Nat : Open(v) => Open(v)' BY <1>0, <1>1, <1>2 DEF Open
<1>4. \A q \in Procs : Knows(q)'
  <2> SUFFICES ASSUME NEW q \in Procs, q # p PROVE Knows(q)' OBVIOUS
  <2>1. at'[q] = at[q] /\ seen'[q] = seen[q] /\ Knows(q) BY DEF RoundsClosed
  <2> QED BY <2>1, <1>0, <1>2 DEF Knows, Sound
<1>5. \A v \in Nat : InView(v)' => Open(v)'
  <2> SUFFICES ASSUME NEW v \in Nat, InView(v)' PROVE Open(v)' OBVIOUS
  <2>1. v = group'.round \/ Shown(p, v)' \/ \E q \in Procs \ {p} : Shown(q, v)'
    BY DEF InView
  <2>2. ASSUME NEW q \in Procs \ {p}, Shown(q, v)' PROVE InView(v)
    BY <2>2 DEF Shown, InView
  <2>3. InView(v) => Open(v)' BY <1>3 DEF RoundsClosed
  <2> QED BY <2>1, <2>2, <2>3
<1>6. \A m \in Active \cap paid' : \E r \in Played' : Heard(m, r)'
  BY <1>0, <1>1 DEF RoundsClosed
<1>7. \A m \in Members, r \in Rounds : <<m, r>> \in given' =>
        r >= First' /\ \A q \in First' .. r - 1 : Closed(q)'
  BY <1>0, <1>2 DEF RoundsClosed, moneyVars
<1>8. PaidClosed'
  BY <1>2 DEF PaidClosed
<1> QED BY <1>4, <1>5, <1>6, <1>7, <1>8 DEF RoundsClosed

\* Reading the group shows what is in view anyway.
LEMMA LoadsKeep ==
  ASSUME TypeOK, RoundsClosed, NEW p \in Procs,
         TryLoad(p) \/ DeadlineLoad(p) \/ AdminLoad(p) \/ ActivateLoad(p) \/ StatusLoad(p)
  PROVE  RoundsClosed'
<1> DEFINE Load(s) == /\ at' = [at EXCEPT ![p] = s]
                      /\ seen' = [seen EXCEPT ![p] = group]
                      /\ UNCHANGED <<group, paid, moneyVars, chainVars, starters>>
<1>1. group \in Groups /\ group.round \in Nat BY Edits DEF TypeOK
<1>2. InView(group.round) BY DEF InView
<1>3. ASSUME NEW s \in Steps \ Resetting, Load(s), Knows(p)',
             s \in {"activate", "status"} \/ group.status # "PENDING"
      PROVE  RoundsClosed'
  <2>1. /\ at'[p] = s /\ seen'[p] = group
        /\ \A q \in Procs \ {p} : at'[q] = at[q] /\ seen'[q] = seen[q]
    BY <1>3 DEF TypeOK
  <2>2. \A v \in Nat : v = group'.round \/ Shown(p, v)' => InView(v)
    BY <1>2, <1>3, <2>1 DEF Shown
  <2>3. Sound(group)' BY <1>3 DEF RoundsClosed, Sound, First
  <2>4. \A r \in 1 .. TotalRounds : PaidOut(r)' => Closed(r)
    BY <1>3 DEF RoundsClosed, chainVars, PaidClosed, PaidOut, Manual
  <2>5. starters = {} => Fresh'
    BY <1>3, <2>1 DEF RoundsClosed, Fresh, moneyVars
  <2> QED BY <1>3, <2>1, <2>2, <2>3, <2>4, <2>5, ProcessMoves
<1> HIDE DEF Load
<1>4. CASE TryLoad(p)
  <2>1. Load("try") /\ group.status = "ACTIVE" BY <1>4 DEF TryLoad, Start, Load
  <2>2. at'[p] = "try" /\ seen'[p] = group BY <2>1 DEF TypeOK, Load
  <2>3. Knows(p)' BY <2>1, <2>2 DEF Load, Knows, Sound, First, Played, Checked, Resetting, RoundsClosed
  <2> QED BY <2>1, <2>3, <1>3 DEF Resetting, Steps
<1>5. CASE DeadlineLoad(p)
  <2>1. Load("full_deadline") /\ group.status = "ACTIVE" /\ Full(Active)
    BY <1>5 DEF DeadlineLoad, Start, Load
  <2>2. at'[p] = "full_deadline" /\ seen'[p] = group BY <2>1 DEF TypeOK, Load
  <2>3. group.round \in Played => Closed(group.round)'
    BY <2>1, <1>2, FullCloses DEF Closed, Heard, moneyVars, Load
  <2>4. Knows(p)' BY <2>1, <2>2, <2>3 DEF Load, Knows, Sound, First, Played, Resetting, RoundsClosed
  <2> QED BY <2>1, <2>4, <1>3 DEF Resetting, Steps
<1>6. CASE AdminLoad(p)
  <2>1. Load("admin") /\ Full(Active) /\ group.status = "ACTIVE"
    BY <1>6 DEF AdminLoad, Start, Load, Full, Active
  <2>2. at'[p] = "admin" /\ seen'[p] = group BY <2>1 DEF TypeOK, Load
  <2>3. group.round \in Played => Closed(group.round)'
    BY <2>1, <1>2, FullCloses DEF Closed, Heard, moneyVars, Load
  <2>4. Knows(p)' BY <2>1, <2>2, <2>3 DEF Load, Knows, Sound, First, Played, Resetting, Trying, RoundsClosed
  <2> QED BY <2>1, <2>4, <1>3 DEF Resetting, Steps
<1>7. CASE ActivateLoad(p)
  <2>1. Load("activate") /\ group.status = "PENDING" BY <1>7 DEF ActivateLoad, Start, Load
  <2>2. at'[p] = "activate" /\ seen'[p] = group BY <2>1 DEF TypeOK, Load
  <2>3. Knows(p)' BY <2>1, <2>2 DEF Load, Knows, Sound, First, Played, Checked, Resetting, Trying, RoundsClosed
  <2> QED BY <2>1, <2>3, <1>3 DEF Resetting, Steps
<1>8. CASE StatusLoad(p)
  <2>1. Load("status") BY <1>8 DEF StatusLoad, Start, Load
  <2>2. at'[p] = "status" /\ seen'[p] = group BY <2>1 DEF TypeOK, Load
  <2>3. Knows(p)' BY <2>1, <2>2 DEF Load, Knows, Sound, First, Played, Checked, Resetting, Trying, RoundsClosed
  <2> QED BY <2>1, <2>3, <1>3 DEF Resetting, Steps
<1> QED BY <1>4, <1>5, <1>6, <1>7, <1>8
\* What p has read is in view, typed and sound, and the steps below leave the
\* other processes alone.
LEMMA Mover ==
  ASSUME TypeOK, RoundsClosed, NEW p \in Procs, NEW from \in Steps \ {"idle"}, NEW to \in Steps,
         Goto(p, from, to)
  PROVE  /\ at[p] = from /\ at'[p] = to
         /\ Knows(p) /\ Sound(seen[p]) /\ seen[p] \in Groups /\ seen[p].round \in Nat
         /\ InView(seen[p].round) /\ Open(seen[p].round)
         /\ \A q \in Procs \ {p} : at'[q] = at[q]
         /\ starters = {} => Fresh /\ from \in {"activate", "status"}
<1>1. /\ at[p] = from /\ at'[p] = to /\ seen[p] \in Groups
      /\ \A q \in Procs \ {p} : at'[q] = at[q]
  BY DEF TypeOK, Goto
<1>2. seen[p].round \in Nat BY <1>1, Edits
<1>3. InView(seen[p].round)
  <2>1. Shown(p, seen[p].round) BY <1>1 DEF Shown
  <2> QED BY <2>1 DEF InView
<1>4. Knows(p) /\ Sound(seen[p]) /\ Open(seen[p].round)
  BY <1>2, <1>3 DEF RoundsClosed, Knows
<1>5. starters = {} => Fresh /\ from \in {"activate", "status"}
  BY <1>1 DEF RoundsClosed, Fresh
<1> QED BY <1>1, <1>2, <1>3, <1>4, <1>5

\* The round after one that is closed is open, once the flags are reset or
\* when there is no such round.
LEMMA NextIsOpen ==
  ASSUME NEW r \in Nat, Open(r), r \in Played => Closed(r),
         UNCHANGED <<moneyVars, starters>>, Active \cap paid' = {} \/ r + 1 > TotalRounds
  PROVE  Open(r + 1)'
<1>0. First' = First /\ Played' = Played BY DEF First, Played
<1>1. \A q \in Played : q < r + 1 => Closed(q)'
  <2> SUFFICES ASSUME NEW q \in Played, q < r + 1 PROVE Closed(q)
    BY DEF Closed, Heard, moneyVars
  <2>1. q \in Nat /\ (q < r \/ q = r) BY PlayedRounds
  <2> QED BY <2>1 DEF Open
<1>2. r + 1 > TotalRounds => r + 1 \notin Played
  BY PlayedRounds, RoundsAssumption DEF Played
<1> QED BY <1>0, <1>1, <1>2 DEF Open

\* tryAdvanceRound and the deadline task.
LEMMA TryKeeps ==
  ASSUME TypeOK, RoundsClosed, NEW p \in Procs,
         TryCheck(p) \/ Complete(p) \/ ResetFlags(p) \/ SaveRound(p) \/ DistributePayout(p)
  PROVE  RoundsClosed'
<1> USE DEF chainVars
<1>1. CASE TryCheck(p)
  <2>1. PICK to \in {"full_try", "idle"} :
          Goto(p, "try", to) /\ (to = "full_try" => Full(Active))
    BY <1>1 DEF TryCheck, Goto
  <2>2. UNCHANGED <<group, paid, moneyVars, payouts, transfers, byHand, starters, seen>> BY <1>1 DEF TryCheck
  <2>3. /\ at[p] = "try" /\ at'[p] = to
        /\ Knows(p) /\ Sound(seen[p]) /\ seen[p].round \in Nat /\ InView(seen[p].round)
        /\ \A q \in Procs \ {p} : at'[q] = at[q]
        /\ starters # {}
    BY <2>1, Mover DEF Steps
  <2>4. to = "full_try" /\ seen[p].round \in Played => Closed(seen[p].round)
    BY <2>1, <2>3, FullCloses
  <2>5. Knows(p)'
    BY <2>1, <2>2, <2>3, <2>4 DEF Knows, Sound, First, Played, Trying, Checked, Resetting, Closed, Heard, moneyVars
  <2>6. \A v \in Nat : v = group'.round \/ Shown(p, v)' => InView(v)
    BY <2>1, <2>2, <2>3 DEF Shown, Resetting, InView
  <2>7. Sound(group)' BY <2>2 DEF RoundsClosed, Sound, First
  <2>8. \A r \in 1 .. TotalRounds : PaidOut(r)' => Closed(r)
    BY <2>2 DEF RoundsClosed, PaidClosed, PaidOut, Manual
  <2> QED BY <2>2, <2>3, <2>5, <2>6, <2>7, <2>8, ProcessMoves
<1>2. CASE Complete(p)
  <2>1. PICK from \in {"full_try", "full_deadline"}, to \in {"saved_try", "idle"} :
          Goto(p, from, to)
    BY <1>2 DEF Complete
  <2>2. /\ group' = Advanced(seen[p], "COMPLETED") /\ IsLast(seen[p])
        /\ UNCHANGED <<paid, moneyVars, payouts, transfers, byHand, starters, seen>>
    BY <1>2 DEF Complete, SaveGroup
  <2>3. /\ at[p] = from /\ at'[p] = to
        /\ Knows(p) /\ Sound(seen[p]) /\ seen[p].round \in Nat /\ InView(seen[p].round)
        /\ Open(seen[p].round)
        /\ \A q \in Procs \ {p} : at'[q] = at[q]
        /\ starters # {}
    BY <2>1, Mover DEF Steps
  <2>4. seen[p].round \in Played => Closed(seen[p].round)
    BY <2>1, <2>3 DEF Knows, Checked
  <2>5. Open(seen[p].round + 1)' BY <2>2, <2>3, <2>4, NextIsOpen DEF IsLast
  <2>6. group'.round = seen[p].round + 1 /\ Sound(group)'
    <3>1. First' = First BY <2>2 DEF First
    <3> QED BY <2>2, <2>3, <3>1, PlayedRounds DEF Advanced, Sound
  <2>7. Knows(p)'
    BY <2>1, <2>2, <2>3, <2>4 DEF Knows, Sound, First, Played, Trying, Checked, Resetting, Closed, Heard, moneyVars
  <2>8. \A v \in Nat : v = group'.round \/ Shown(p, v)' => InView(v) \/ Open(v)'
    BY <2>1, <2>2, <2>3, <2>5, <2>6 DEF Shown, Resetting
  <2>9. \A r \in 1 .. TotalRounds : PaidOut(r)' => Closed(r)
    BY <2>2 DEF RoundsClosed, PaidClosed, PaidOut, Manual
  <2> QED BY <2>2, <2>3, <2>6, <2>7, <2>8, <2>9, ProcessMoves
<1>3. CASE ResetFlags(p)
  <2>1. PICK from \in {"full_try", "full_deadline"}, to \in Resetting : Goto(p, from, to)
    BY <1>3 DEF ResetFlags, Resetting
  <2>2. /\ ~IsLast(seen[p]) /\ paid' = paid \ Active
        /\ UNCHANGED <<group, moneyVars, payouts, transfers, byHand, starters, seen>>
    BY <1>3 DEF ResetFlags
  <2>3. /\ at[p] = from /\ at'[p] = to
        /\ Knows(p) /\ Sound(seen[p]) /\ seen[p].round \in Nat /\ InView(seen[p].round)
        /\ Open(seen[p].round)
        /\ \A q \in Procs \ {p} : at'[q] = at[q]
        /\ starters # {}
    BY <2>1, Mover DEF Steps, Resetting
  <2>4. seen[p].round \in Played => Closed(seen[p].round)
    BY <2>1, <2>3 DEF Knows, Checked
  <2>5. Open(seen[p].round + 1)' BY <2>2, <2>3, <2>4, NextIsOpen
  <2>6. Knows(p)'
    BY <2>1, <2>2, <2>3, <2>4
       DEF Knows, Sound, First, Played, Trying, Checked, Resetting, Closed, Heard, moneyVars, IsLast
  <2>7. \A v \in Nat : v = group'.round \/ Shown(p, v)' => InView(v) \/ Open(v)'
    BY <2>1, <2>2, <2>3, <2>5 DEF Shown, InView
  <2>8. Sound(group)' BY <2>2 DEF RoundsClosed, Sound, First
  <2>9. \A r \in 1 .. TotalRounds : PaidOut(r)' => Closed(r)
    BY <2>2 DEF RoundsClosed, PaidClosed, PaidOut, Manual
  <2> QED BY <2>2, <2>3, <2>6, <2>7, <2>8, <2>9, ProcessMoves
<1>4. CASE SaveRound(p)
  <2>1. PICK from \in Resetting, to \in {"saved_try", "idle"} : Goto(p, from, to)
    BY <1>4 DEF SaveRound, Resetting
  <2>2. /\ group' = Advanced(seen[p], seen[p].status)
        /\ UNCHANGED <<paid, moneyVars, payouts, transfers, byHand, starters, seen>>
    BY <1>4 DEF SaveRound, SaveGroup
  <2>3. /\ at[p] = from /\ at'[p] = to
        /\ Knows(p) /\ Sound(seen[p]) /\ seen[p].round \in Nat /\ InView(seen[p].round)
        /\ \A q \in Procs \ {p} : at'[q] = at[q]
        /\ starters # {}
    BY <2>1, Mover DEF Steps, Resetting
  <2>4. /\ seen[p].round \in Played => Closed(seen[p].round)
        /\ ~IsLast(seen[p]) /\ seen[p].status = "ACTIVE"
    BY <2>1, <2>3 DEF Knows, Checked, Resetting, Trying
  <2>5. Sound(group)' /\ group'.round = seen[p].round + 1
    <3>1. First' = First BY <2>2 DEF First
    <3> QED BY <2>2, <2>3, <2>4, <3>1, PlayedRounds, RoundsAssumption DEF Advanced, Sound, IsLast
  <2>6. Knows(p)'
    BY <2>1, <2>2, <2>3, <2>4 DEF Knows, Sound, First, Played, Trying, Checked, Resetting, Closed, Heard, moneyVars
  <2>7. InView(seen[p].round + 1)
    <3>1. Shown(p, seen[p].round + 1) BY <2>1, <2>3 DEF Shown, Resetting
    <3> QED BY <3>1 DEF InView
  <2>8. \A v \in Nat : v = group'.round \/ Shown(p, v)' => InView(v)
    BY <2>1, <2>2, <2>3, <2>5, <2>7 DEF Shown, Resetting
  <2>9. \A r \in 1 .. TotalRounds : PaidOut(r)' => Closed(r)
    BY <2>2 DEF RoundsClosed, PaidClosed, PaidOut, Manual
  <2> QED BY <2>2, <2>3, <2>5, <2>6, <2>8, <2>9, ProcessMoves
<1>5. CASE DistributePayout(p)
  <2>1. Goto(p, "saved_try", "idle") BY <1>5 DEF DistributePayout
  <2>2. UNCHANGED <<group, paid, moneyVars, starters, seen>> BY <1>5 DEF DistributePayout
  <2>3. /\ at[p] = "saved_try" /\ at'[p] = "idle" /\ Knows(p) /\ Sound(seen[p])
        /\ seen[p].round \in Nat
        /\ \A q \in Procs \ {p} : at'[q] = at[q]
        /\ starters # {}
    BY <2>1, Mover DEF Steps
  <2>4. seen[p].round \in Played => Closed(seen[p].round)
    BY <2>3 DEF Knows, Checked
  <2>5. \A r \in 1 .. TotalRounds : PaidOut(r)' => Closed(r)
    <3>1. \/ UNCHANGED chainVars
          \/ /\ seen[p].round \in 1 .. TotalRounds /\ byHand' = byHand
             /\ payouts' = payouts \cup {seen[p].round}
             /\ transfers' = [transfers EXCEPT ![seen[p].round] = @ + 1]
      BY <1>5 DEF DistributePayout, Transfer, Payable
    <3>2. \A r \in 1 .. TotalRounds : PaidOut(r)' => PaidOut(r) \/ r = seen[p].round
      BY <3>1 DEF PaidOut, Manual, TypeOK
    <3> QED BY <2>4, <3>2, PlayedRounds DEF RoundsClosed, PaidClosed
  <2>6. Knows(p)' BY <2>2, <2>3 DEF Knows, Sound, First, Played, Trying, Checked, Resetting
  <2>7. \A v \in Nat : v = group'.round \/ Shown(p, v)' => InView(v)
    BY <2>2, <2>3 DEF Shown, InView
  <2>8. Sound(group)' BY <2>2 DEF RoundsClosed, Sound, First
  <2> QED BY <2>2, <2>3, <2>5, <2>6, <2>7, <2>8, ProcessMoves
<1> QED BY <1>1, <1>2, <1>3, <1>4, <1>5
\* advanceRound, as long as the round it moves on is the one it checked.
LEMMA AdminKeeps ==
  ASSUME TypeOK, RoundsClosed, NEW p \in Procs, ~blind',
         AdminDisburse(p) \/ AdminRefetch(p) \/ AdminCommit(p)
  PROVE  RoundsClosed'
<1>1. CASE AdminDisburse(p)
  <2>1. PICK to \in {"paid_admin", "idle"} : Goto(p, "admin", to)
    BY <1>1 DEF AdminDisburse
  <2>2. UNCHANGED <<group, paid, moneyVars, payouts, byHand, starters, seen>> BY <1>1 DEF AdminDisburse
  <2>3. /\ at[p] = "admin" /\ at'[p] = to /\ Knows(p) /\ Sound(seen[p])
        /\ seen[p].round \in Nat /\ InView(seen[p].round)
        /\ \A q \in Procs \ {p} : at'[q] = at[q]
        /\ starters # {}
    BY <2>1, Mover DEF Steps
  <2>4. seen[p].round \in Played => Closed(seen[p].round)
    BY <2>3 DEF Knows, Checked
  <2>5. \A r \in 1 .. TotalRounds : PaidOut(r)' => Closed(r)
    BY <1>1, <2>2, <2>4, PlayedRounds
       DEF AdminDisburse, Transfer, RoundsClosed, PaidClosed, PaidOut, Manual, TypeOK
  <2>6. Knows(p)'
    BY <2>1, <2>2, <2>3, <2>4 DEF Knows, Sound, First, Played, Trying, Checked, Resetting, Closed, Heard, moneyVars
  <2>7. \A v \in Nat : v = group'.round \/ Shown(p, v)' => InView(v)
    BY <2>1, <2>2, <2>3 DEF Shown, Resetting, InView
  <2>8. Sound(group)' BY <2>2 DEF RoundsClosed, Sound, First
  <2> QED BY <2>2, <2>3, <2>5, <2>6, <2>7, <2>8, ProcessMoves
<1>2. CASE AdminRefetch(p)
  <2>1. Goto(p, "paid_admin", "tx_admin") BY <1>2 DEF AdminRefetch
  <2>2. /\ UNCHANGED <<group, paid, moneyVars, payouts, transfers, byHand, starters>>
        /\ group.round = seen[p].round
    BY <1>2 DEF AdminRefetch, chainVars
  <2>3. /\ at[p] = "paid_admin" /\ at'[p] = "tx_admin" /\ Knows(p)
        /\ \A q \in Procs \ {p} : at'[q] = at[q]
        /\ starters # {}
    BY <2>1, Mover DEF Steps
  <2>4. seen'[p] = group /\ \A q \in Procs \ {p} : seen'[q] = seen[q]
    BY <1>2 DEF AdminRefetch, TypeOK
  <2>5. group.round \in Played => Closed(group.round)
    BY <2>2, <2>3 DEF Knows, Checked
  <2>6. Knows(p)'
    BY <2>2, <2>3, <2>4, <2>5
       DEF Knows, Sound, First, Played, Trying, Checked, Resetting, Closed, Heard, moneyVars, RoundsClosed
  <2>7. \A v \in Nat : v = group'.round \/ Shown(p, v)' => InView(v)
    BY <2>2, <2>3, <2>4 DEF Shown, Resetting, InView
  <2>8. Sound(group)' BY <2>2 DEF RoundsClosed, Sound, First
  <2>9. \A r \in 1 .. TotalRounds : PaidOut(r)' => Closed(r)
    BY <2>2 DEF RoundsClosed, PaidClosed, PaidOut, Manual
  <2> QED BY <2>2, <2>3, <2>4, <2>6, <2>7, <2>8, <2>9, ProcessMoves
<1>3. CASE AdminCommit(p)
  <2>1. Goto(p, "tx_admin", "idle") BY <1>3 DEF AdminCommit
  <2>2. /\ UNCHANGED <<moneyVars, payouts, transfers, byHand, starters, seen>>
        /\ \/ IsLast(seen[p]) /\ group' = Advanced(seen[p], "COMPLETED") /\ paid' = paid
           \/ ~IsLast(seen[p]) /\ group' = Advanced(seen[p], seen[p].status) /\ paid' = {}
    BY <1>3 DEF AdminCommit, SaveGroup, chainVars
  <2>3. /\ at[p] = "tx_admin" /\ at'[p] = "idle" /\ Knows(p) /\ Sound(seen[p])
        /\ seen[p].round \in Nat /\ Open(seen[p].round)
        /\ \A q \in Procs \ {p} : at'[q] = at[q]
        /\ starters # {}
    BY <2>1, Mover DEF Steps
  <2>4. seen[p].round \in Played => Closed(seen[p].round)
    BY <2>3 DEF Knows, Checked
  <2>5. Open(seen[p].round + 1)' BY <2>2, <2>3, <2>4, NextIsOpen DEF IsLast
  <2>6. group'.round = seen[p].round + 1 /\ Sound(group)'
    <3>1. First' = First BY <2>2 DEF First
    <3> QED BY <2>2, <2>3, <3>1, PlayedRounds, RoundsAssumption DEF Advanced, Sound, IsLast
  <2>7. Knows(p)' BY <2>2, <2>3 DEF Knows, Sound, First, Played, Trying, Checked, Resetting
  <2>8. \A v \in Nat : v = group'.round \/ Shown(p, v)' => InView(v) \/ Open(v)'
    BY <2>2, <2>3, <2>5, <2>6 DEF Shown
  <2>9. \A r \in 1 .. TotalRounds : PaidOut(r)' => Closed(r)
    BY <2>2 DEF RoundsClosed, PaidClosed, PaidOut, Manual
  <2> QED BY <2>2, <2>3, <2>6, <2>7, <2>8, <2>9, ProcessMoves
<1> QED BY <1>1, <1>2, <1>3

LEMMA OneStart ==
  ASSUME NEW st \in SUBSET {"admin", "task"}, st # {"admin", "task"}
  PROVE  /\ st = {} \/ st = {"admin"} \/ st = {"task"}
         /\ "admin" \in st => "task" \notin st
  OBVIOUS

\* The first activation: nobody has contributed and no flag is set, so that the
\* round it starts in is open whichever it is.
LEMMA FirstStart ==
  ASSUME TypeOK, RoundsClosed, starters = {}, NEW p \in Procs,
         starters' \in {{"admin"}, {"task"}}, UNCHANGED <<paid, moneyVars, chainVars>>,
         \A q \in Procs \ {p} : at'[q] = at[q] /\ seen'[q] = seen[q],
         Sound(group)', Knows(p)',
         \A v \in Nat : v = group'.round \/ Shown(p, v)' => v = 0 \/ (v = 1 /\ starters' = {"admin"})
  PROVE  RoundsClosed'
<1>1. Fresh BY DEF RoundsClosed
<1>2. \A q \in Procs : Knows(q)'
  <2> SUFFICES ASSUME NEW q \in Procs, q # p PROVE Knows(q)' OBVIOUS
  <2>1. /\ at'[q] \in {"idle", "activate", "status"}
        /\ seen'[q].status = "PENDING"
    BY <1>1 DEF Fresh
  <2> QED BY <2>1 DEF Knows, Sound, Trying, Checked, Resetting
<1>3. starters' = {"admin"} => First' = 1 BY DEF First
<1>4. paid' = {} /\ given' = {} BY <1>1 DEF Fresh, moneyVars
<1>5. \A v \in Nat : InView(v)' => Open(v)'
  <2> SUFFICES ASSUME NEW v \in Nat, InView(v)' PROVE Open(v)' OBVIOUS
  <2>1. ASSUME NEW q \in Procs \ {p}, Shown(q, v)' PROVE v = 0
    <3>1. at'[q] \in {"idle", "activate", "status"} /\ seen'[q].round = 0
      BY <1>1 DEF Fresh
    <3> QED BY <2>1, <3>1 DEF Shown, Resetting
  <2>2. v = 0 \/ (v = 1 /\ starters' = {"admin"})
    <3>1. v = group'.round \/ Shown(p, v)' \/ \E q \in Procs \ {p} : Shown(q, v)'
      BY DEF InView
    <3> QED BY <2>1, <3>1
  <2>3. \A q \in Played' : ~(q < v)
    <3>1. First' \in {0, 1} /\ (v = 1 => First' = 1) BY <1>3, <2>2 DEF First
    <3> QED BY <2>2, <3>1, RoundsAssumption DEF Played
  <2> QED BY <1>4, <2>3 DEF Open
<1>6. PaidClosed'
  BY DEF RoundsClosed, PaidClosed, PaidOut, Manual, Closed, Heard, moneyVars, chainVars
<1> QED BY <1>2, <1>4, <1>5, <1>6 DEF RoundsClosed

\* Activation brings round 1 into view, which every flag speaks for when it is
\* the first, or round 0; the status task saves the round it has read.
LEMMA StatusKeeps ==
  ASSUME TypeOK, RoundsClosed, ~TwoStarts', NEW p \in Procs,
         ActivateSave(p) \/ Deploy(p) \/ StatusSave(p)
  PROVE  RoundsClosed'
<1> USE DEF chainVars
<1>1. ASSUME starters' = starters, "admin" \in starters, UNCHANGED <<moneyVars, paid>>
      PROVE  First = 1 /\ First' = 1 /\ Open(0)' /\ Open(1)'
  <2>1. First = 1 /\ First' = 1 /\ \A q \in Played : q \in Nat /\ q >= 1
    <3>1. "task" \notin starters BY <1>1, OneStart DEF TwoStarts, TypeOK
    <3> QED BY <1>1, <3>1, PlayedRounds DEF First, Played
  <2>2. \A m \in Active \cap paid : Heard(m, 1)
    <3> SUFFICES ASSUME NEW m \in Active \cap paid PROVE Heard(m, 1) OBVIOUS
    <3>1. PICK r \in Played : Heard(m, r) BY DEF RoundsClosed
    <3>2. m \in Members /\ r \in Rounds /\ <<m, r>> \in given
      BY <3>1, PlayedRounds DEF Active, Heard
    <3>3. CASE r = 1 BY <3>1, <3>3
    <3>4. CASE r # 1
      <4>1. 1 \in 1 .. r - 1 BY <2>1, <3>4
      <4> QED BY <2>1, <3>2, <4>1 DEF RoundsClosed, Closed
    <3> QED BY <3>3, <3>4
  <2>3. Played' = Played BY <2>1 DEF Played
  <2> QED BY <1>1, <2>1, <2>2, <2>3 DEF Open, Heard, moneyVars
<1>2. UNCHANGED <<paid, moneyVars, payouts, transfers, closings, byHand>>
  BY DEF ActivateSave, Deploy, StatusSave
<1>3. \A r \in 1 .. TotalRounds : PaidOut(r)' => Closed(r)
  BY <1>2 DEF RoundsClosed, PaidClosed, PaidOut, Manual
<1>4. CASE ActivateSave(p)
  <2> DEFINE g == [seen[p] EXCEPT !.status = "ACTIVE", !.round = 1]
  <2>1. /\ Goto(p, "activate", "deploy_activate") /\ group' = g
        /\ seen' = [seen EXCEPT ![p] = g] /\ starters' = starters \cup {"admin"}
    BY <1>4 DEF ActivateSave, SaveGroup
  <2>2. /\ at[p] = "activate" /\ at'[p] = "deploy_activate"
        /\ Knows(p) /\ Sound(seen[p]) /\ seen[p] \in Groups
        /\ \A q \in Procs \ {p} : at'[q] = at[q]
    BY <2>1, Mover DEF Steps
  <2>3. g.status = "ACTIVE" /\ g.round = 1
    BY <2>2 DEF Groups, Knows, Sound
  <2> HIDE DEF g
  <2>4. seen'[p] = g /\ \A q \in Procs \ {p} : seen'[q] = seen[q]
    BY <2>1 DEF TypeOK
  <2>5. starters' = {"admin"} /\ First' = 1 /\ (starters = {} \/ starters = {"admin"})
    BY <2>1 DEF TwoStarts, TypeOK, First
  <2>6. Sound(group)' /\ Knows(p)'
    BY <2>1, <2>2, <2>3, <2>4, <2>5, RoundsAssumption DEF Sound, Knows, Trying, Checked, Resetting
  <2>7. \A v \in Nat : v = group'.round \/ Shown(p, v)' => v = 1
    BY <2>1, <2>2, <2>3, <2>4 DEF Shown, Resetting
  <2>8. CASE starters = {}
    BY <1>2, <2>2, <2>4, <2>5, <2>6, <2>7, <2>8, FirstStart
  <2>9. CASE starters = {"admin"}
    <3>1. Open(1)' BY <1>1, <1>2, <2>5, <2>9
    <3> QED BY <1>2, <1>3, <2>2, <2>4, <2>5, <2>6, <2>7, <2>9, <3>1, ProcessMoves
  <2> QED BY <2>5, <2>8, <2>9
<1>5. CASE Deploy(p)
  <2>1. Goto(p, "deploy_activate", "idle") /\ seen' = seen /\ starters' = starters
    BY <1>5 DEF Deploy
  <2>2. /\ at[p] = "deploy_activate" /\ at'[p] = "idle"
        /\ Knows(p) /\ Sound(seen[p]) /\ seen[p] \in Groups /\ InView(seen[p].round)
        /\ \A q \in Procs \ {p} : at'[q] = at[q]
        /\ starters # {}
    BY <2>1, Mover DEF Steps
  <2>3. seen[p].status = "ACTIVE" /\ seen[p].round = 1 /\ "admin" \in starters
    BY <2>2 DEF Knows
  <2>4. First = 1 /\ First' = 1 /\ Open(0)' /\ Open(1)' BY <1>1, <1>2, <2>1, <2>3
  <2>5. Sound(group)' /\ group'.round \in {0, 1}
    <3>1. CASE group' = [seen[p] EXCEPT !.contract = TRUE]
      <4>1. group'.status = seen[p].status /\ group'.round = 1
        BY <2>2, <2>3, <3>1 DEF Groups
      <4> QED BY <2>3, <2>4, <4>1, RoundsAssumption DEF Sound
    <3>2. ASSUME NEW c \in BOOLEAN,
                 group' = [seen[p] EXCEPT !.status = "PENDING", !.round = 0, !.contract = c]
          PROVE  Sound(group)' /\ group'.round \in {0, 1}
      <4>1. group'.status = "PENDING" /\ group'.round = 0 BY <2>2, <3>2, RolledBack
      <4> QED BY <4>1 DEF Sound
    <3>3. seen[p].contract \in BOOLEAN BY <2>2, Edits
    <3> QED BY <1>5, <3>1, <3>2, <3>3 DEF Deploy, SaveGroup
  <2>6. Knows(p)' BY <2>1, <2>2 DEF Knows, Sound, First, Trying, Checked, Resetting
  <2>7. \A v \in Nat : v = group'.round \/ Shown(p, v)' => InView(v) \/ Open(v)'
    BY <2>2, <2>4, <2>5 DEF Shown
  <2> QED BY <1>2, <1>3, <2>1, <2>2, <2>5, <2>6, <2>7, ProcessMoves
<1>6. CASE StatusSave(p)
  <2> DEFINE started == seen[p].status = "ACTIVE" \/ seen[p].contract
             last == seen[p].round >= TotalRounds
             status == IF ~started THEN "PENDING"
                       ELSE IF last THEN "COMPLETED" ELSE "ACTIVE"
             first == seen[p].status = "PENDING" /\ started
  <2>1. /\ Goto(p, "status", "idle") /\ seen' = seen
        /\ starters' = starters \cup (IF first THEN {"task"} ELSE {})
        /\ group' = group \/ group' = [seen[p] EXCEPT !.status = status]
    BY <1>6 DEF StatusSave, SaveGroup
  <2>2. /\ at[p] = "status" /\ at'[p] = "idle"
        /\ Knows(p) /\ Sound(seen[p]) /\ seen[p] \in Groups /\ InView(seen[p].round)
        /\ \A q \in Procs \ {p} : at'[q] = at[q]
        /\ starters = {} => Fresh
    BY <2>1, Mover DEF Steps
  <2>3. /\ seen[p].round \in Nat /\ seen[p].status \in Statuses
        /\ first => starters' = {"task"} /\ (starters = {} \/ starters = {"task"}) /\ First' = 0
        /\ ~first => starters' = starters /\ First' = First
        /\ starters = {"task"} => First = 0
    <3>1. seen[p].round \in Nat /\ seen[p].status \in Statuses BY <2>2, Edits
    <3>2. first => starters' = starters \cup {"task"} BY <2>1
    <3>3. ~first => starters' = starters BY <2>1
    <3>4. ASSUME first
          PROVE  starters' = {"task"} /\ (starters = {} \/ starters = {"task"})
      <4>1. "admin" \notin starters BY <3>2, <3>4 DEF TwoStarts, TypeOK
      <4> QED BY <3>2, <3>4, <4>1 DEF TypeOK
    <3> HIDE DEF first
    <3> QED BY <3>1, <3>3, <3>4 DEF First
  <2>4. Sound(group)' /\ (group'.round = group.round \/ group'.round = seen[p].round)
    <3>1. CASE group' = group
      BY <2>3, <3>1, PlayedRounds DEF RoundsClosed, Sound, TypeOK, Groups
    <3>2. CASE group' = [seen[p] EXCEPT !.status = status]
      <4>1. group'.status = status /\ group'.round = seen[p].round
        BY <3>2, <2>2 DEF Groups
      <4>2. ~last => seen[p].round <= TotalRounds BY <2>3, RoundsAssumption
      <4>3. started => seen[p].round >= First'
        BY <2>2, <2>3 DEF Sound, Statuses
      <4>4. (status # "PENDING" <=> started) /\ (status = "ACTIVE" => ~last) OBVIOUS
      <4> HIDE DEF started, last, status
      <4> QED BY <4>1, <4>2, <4>3, <4>4 DEF Sound
    <3> QED BY <2>1, <3>1, <3>2
  <2> HIDE DEF first, status
  <2>5. Knows(p)'
    <3>1. Sound(seen[p])' BY <2>1, <2>2, <2>3, PlayedRounds DEF Sound
    <3> QED BY <2>1, <2>2, <3>1 DEF Knows, Trying, Checked, Resetting
  <2>6. \A v \in Nat : v = group'.round \/ Shown(p, v)' => InView(v)
    BY <2>2, <2>4 DEF Shown, InView
  <2>7. CASE first /\ starters = {}
    <3>1. \A v \in Nat : v = group'.round \/ Shown(p, v)' => v = 0
      <4>1. at'[p] = "idle" /\ group.round = 0 /\ seen[p].round = 0
        BY <2>2, <2>7 DEF Fresh
      <4> QED BY <2>4, <4>1 DEF Shown
    <3>2. /\ starters' \in {{"admin"}, {"task"}} /\ UNCHANGED <<paid, moneyVars, chainVars>>
          /\ \A q \in Procs \ {p} : at'[q] = at[q] /\ seen'[q] = seen[q]
      BY <1>2, <2>1, <2>2, <2>3, <2>7
    <3> QED BY <2>4, <2>5, <2>7, <3>1, <3>2, FirstStart
  <2>8. CASE ~(first /\ starters = {})
    <3>1. starters' = starters BY <2>3, <2>8
    <3>2. starters = {} => Fresh'
      <4>1. starters = {} => group' = group
        <5> SUFFICES ASSUME starters = {} PROVE group' = group OBVIOUS
        <5>1. seen[p].status = "PENDING" /\ ~started BY <2>2, <2>8 DEF Fresh, first
        <5> QED BY <1>6, <5>1 DEF StatusSave
      <4> QED BY <1>2, <2>1, <2>2, <4>1 DEF Fresh, moneyVars
    <3> QED BY <1>2, <1>3, <2>1, <2>2, <2>4, <2>5, <2>6, <3>1, <3>2, ProcessMoves
  <2> QED BY <2>7, <2>8
<1> QED BY <1>4, <1>5, <1>6

\* A process that clears the flags or dies shows nothing any more.
LEMMA EndsKeep ==
  ASSUME TypeOK, RoundsClosed, NEW p \in Procs, ClearFlags(p) \/ Crash(p)
  PROVE  RoundsClosed'
<1>1. at' = [at EXCEPT ![p] = "idle"] /\ at[p] # "idle"
  BY DEF ClearFlags, Crash, Goto
<1>2. /\ UNCHANGED <<group, moneyVars, payouts, transfers, byHand, starters, seen>>
      /\ paid' = paid \/ paid' = {}
  BY DEF ClearFlags, Crash, chainVars
<1>3. at'[p] = "idle" /\ \A q \in Procs \ {p} : at'[q] = at[q]
  BY <1>1 DEF TypeOK
<1>4. Knows(p)' BY <1>2, <1>3 DEF Knows, Sound, First, Trying, Checked, Resetting, RoundsClosed
<1>5. \A v \in Nat : v = group'.round \/ Shown(p, v)' => InView(v)
  BY <1>2, <1>3 DEF Shown, InView
<1>6. Sound(group)' BY <1>2 DEF RoundsClosed, Sound, First
<1>7. \A r \in 1 .. TotalRounds : PaidOut(r)' => Closed(r)
  BY <1>2 DEF RoundsClosed, PaidClosed, PaidOut, Manual
<1>8. starters = {} => Fresh'
  BY <1>2, <1>3 DEF RoundsClosed, Fresh, moneyVars
<1> QED BY <1>2, <1>3, <1>4, <1>5, <1>6, <1>7, <1>8, ProcessMoves

\* A payout by hand is excepted, and finds its round not paid by
\* distributePayout; it disturbs nothing else.
LEMMA ManualKeeps ==
  ASSUME TypeOK, RoundsClosed, NEW r \in 1 .. TotalRounds, ManualPayout(r)
  PROVE  RoundsClosed'
<1>1. /\ UNCHANGED <<group, paid, moneyVars, at, seen, starters>>
      /\ group.status = "ACTIVE" /\ r \notin payouts /\ r \notin byHand
      /\ payouts' = payouts \cup {r} /\ byHand' = byHand \cup {r}
      /\ transfers' = [transfers EXCEPT ![r] = @ + 1]
  BY DEF ManualPayout, Payable, Transfer, TypeOK
<1>2. \A q \in 1 .. TotalRounds : PaidOut(q)' => PaidOut(q)
  <2> SUFFICES ASSUME NEW q \in 1 .. TotalRounds, PaidOut(q)' PROVE PaidOut(q) OBVIOUS
  <2>1. CASE q # r BY <1>1, <2>1 DEF PaidOut, Manual, TypeOK
  <2>2. CASE q = r
    <3>1. transfers[r] \in Nat /\ transfers'[r] = transfers[r] + 1 /\ r \in byHand'
      BY <1>1, RoundsAssumption DEF TypeOK
    <3> QED BY <1>1, <2>2, <3>1 DEF PaidOut, Manual
  <2> QED BY <2>1, <2>2
<1>3. PaidClosed'
  BY <1>1, <1>2 DEF RoundsClosed, PaidClosed, Closed, Heard, moneyVars
<1> QED
  BY <1>1, <1>3 DEF RoundsClosed, Sound, First, Played, Knows, IsLast, InView, Shown, Open, Closed,
     Heard, Fresh, moneyVars

\* A contribution is to the round the group shows; it unsays nothing that has
\* been heard.
LEMMA ContributeKeeps ==
  ASSUME TypeOK, RoundsClosed, NEW m \in Members, Contribute(m)
  PROVE  RoundsClosed'
<1> DEFINE r == group.round
<1>1. UNCHANGED <<group, paid, payouts, transfers, byHand, starters, at, seen>>
  BY DEF Contribute, chainVars
<1>2. /\ given' = given \cup {<<m, r>>} /\ unheard' = unheard \cup {<<m, r>>}
      /\ <<m, r>> \notin given /\ group.status = "ACTIVE" /\ r \in Rounds
  BY DEF Contribute
<1>3. \A n, q : Heard(n, q)' <=> Heard(n, q) BY <1>2 DEF Heard
<1>4. \A q : Closed(q)' <=> Closed(q) BY <1>3 DEF Closed
<1>0. First' = First /\ Played' = Played /\ First \in {0, 1} BY <1>1 DEF First, Played
<1>5. r \in Nat /\ r >= First /\ Open(r)
  BY <1>2, Edits DEF TypeOK, RoundsClosed, Sound, InView
<1>6. \A v \in Nat : Open(v)' <=> Open(v) BY <1>0, <1>1, <1>3, <1>4 DEF Open
<1>7. \A v \in Nat : InView(v)' <=> InView(v) BY <1>1 DEF InView, Shown
<1>8. \A p \in Procs : Knows(p)' BY <1>0, <1>1, <1>4 DEF Knows, Sound, RoundsClosed
<1>9. \A n \in Members, k \in Rounds : <<n, k>> \in given' =>
        k >= First /\ \A q \in First .. k - 1 : Closed(q)
  <2> SUFFICES ASSUME NEW n \in Members, NEW k \in Rounds, <<n, k>> \in given'
               PROVE  k >= First /\ \A q \in First .. k - 1 : Closed(q)
    OBVIOUS
  <2>1. CASE <<n, k>> \in given BY <2>1 DEF RoundsClosed
  <2>2. CASE <<n, k>> \notin given
    <3>1. k = r BY <2>2, <1>2
    <3>2. \A q \in First .. r - 1 : q \in Played /\ q < r
      BY <1>0, <1>2, <1>5, RoundsAssumption DEF Rounds, Played
    <3> HIDE DEF r
    <3> QED BY <3>1, <3>2, <1>5 DEF Open
  <2> QED BY <2>1, <2>2
<1>10. \A n \in Active \cap paid' : \E k \in Played : Heard(n, k)'
  BY <1>1, <1>3 DEF RoundsClosed
<1>11. Sound(group)' BY <1>0, <1>1 DEF RoundsClosed, Sound
<1>12. PaidClosed'
  BY <1>1, <1>4 DEF RoundsClosed, PaidClosed, PaidOut, Manual
<1>13. starters # {} BY <1>2 DEF RoundsClosed, Fresh
<1> QED
  BY <1>0, <1>1, <1>13, <1>4, <1>6, <1>7, <1>8, <1>9, <1>10, <1>11, <1>12 DEF RoundsClosed

\* A contribution is only heard while no round after it is in view, so that the
\* flag speaks for every round in view.
LEMMA HearKeeps ==
  ASSUME TypeOK, RoundsClosed, NEW m \in Members, NEW r \in Rounds, HearContribution(m, r)
  PROVE  RoundsClosed'
<1>1. UNCHANGED <<group, given, payouts, transfers, byHand, starters, at, seen>>
  BY DEF HearContribution, chainVars
<1>2. /\ <<m, r>> \in unheard /\ <<m, r>> \in given
      /\ unheard' = unheard \ {<<m, r>>} /\ paid' = paid \cup {m}
  BY DEF HearContribution, TypeOK
<1>3. \A n, q : Heard(n, q) => Heard(n, q)' BY <1>1, <1>2 DEF Heard
<1>4. Heard(m, r)' BY <1>1, <1>2 DEF Heard
<1>5. \A q : Closed(q) => Closed(q)' BY <1>3 DEF Closed
<1>0. First' = First /\ Played' = Played /\ First \in {0, 1} BY <1>1 DEF First, Played
<1>6. r \in Nat /\ r \in Played /\ \A q \in First .. r - 1 : Closed(q)
  BY <1>0, <1>2, RoundsAssumption DEF RoundsClosed, Rounds, Played
<1>7. \A v \in Nat : InView(v)' <=> InView(v) BY <1>1 DEF InView, Shown
<1>8. ASSUME NEW v \in Nat, InView(v) PROVE Open(v)'
  <2>1. Open(v) BY <1>8 DEF RoundsClosed
  <2>2. ASSUME v \in Played, m \in Active PROVE Heard(m, v)'
    <3>1. CASE v = r BY <3>1, <1>4
    <3>2. CASE v < r
      <4>1. v \in First .. r - 1 BY <3>2, <2>2, <1>0, <1>6, RoundsAssumption DEF Played
      <4> QED BY <4>1, <1>6, <1>3, <2>2 DEF Closed
    <3>3. CASE r < v
      <4>1. Heard(m, r) BY <3>3, <2>1, <2>2, <1>6 DEF Open, Closed
      <4> QED BY <4>1, <1>2 DEF Heard
    <3> QED BY <3>1, <3>2, <3>3, <2>2, <1>6, RoundsAssumption
  <2> QED BY <2>1, <2>2, <1>0, <1>2, <1>3, <1>5 DEF Open
<1>9. \A p \in Procs : Knows(p)' BY <1>0, <1>1, <1>5 DEF Knows, Sound, RoundsClosed
<1>10. \A n \in Active \cap paid' : \E k \in Played : Heard(n, k)'
  BY <1>2, <1>3, <1>4, <1>6 DEF RoundsClosed
<1>11. \A n \in Members, k \in Rounds : <<n, k>> \in given' =>
         k >= First /\ \A q \in First .. k - 1 : Closed(q)'
  BY <1>1, <1>5 DEF RoundsClosed
<1>12. Sound(group)' BY <1>0, <1>1 DEF RoundsClosed, Sound
<1>13. PaidClosed'
  BY <1>1, <1>5 DEF RoundsClosed, PaidClosed, PaidOut, Manual
<1>14. starters # {} BY <1>2 DEF RoundsClosed, Fresh
<1> QED BY <1>0, <1>1, <1>14, <1>7, <1>8, <1>9, <1>10, <1>11, <1>12, <1>13 DEF RoundsClosed

LEMMA RoundInvStarts == Init => RoundInv
<1> SUFFICES ASSUME Init PROVE RoundInv OBVIOUS
<1>1. group \in Groups BY DEF Init, Groups, Statuses
<1>2. TypeOK
  <2>1. 0 \in 0 .. MaxTransfers /\ 0 \in 0 .. MaxCrashes BY RoundsAssumption
  <2>2. transfers \in [1 .. TotalRounds -> 0 .. MaxTransfers] /\ closings = transfers
    BY <2>1 DEF Init
  <2>3. at \in [Procs -> Steps] /\ seen \in [Procs -> Groups]
    BY <1>1 DEF Init, Steps
  <2>4. crashes \in 0 .. MaxCrashes BY <2>1 DEF Init
  <2> QED BY <1>1, <2>2, <2>3, <2>4 DEF Init, TypeOK
<1>3. ClosingsMade BY DEF Init, ClosingsMade
<1>4. Sound(group) /\ Fresh BY DEF Init, Sound, Fresh
<1>5. \A p \in Procs : seen[p] = group /\ at[p] = "idle" BY DEF Init
<1>6. \A p \in Procs : Knows(p)
  BY <1>4, <1>5 DEF Knows, Trying, Resetting, Checked
<1>7. \A v \in Nat : InView(v) => Open(v)
  <2>1. \A v \in Nat : InView(v) => v = 0 BY <1>5 DEF InView, Shown, Init
  <2>2. First = 1 /\ 0 \notin Played /\ \A q \in Played : ~(q < 0)
    BY RoundsAssumption DEF First, Played, Init
  <2> QED BY <2>1, <2>2 DEF Open
<1>8. PaidClosed BY RoundsAssumption DEF Init, PaidClosed, PaidOut, Manual
<1> QED BY <1>2, <1>3, <1>4, <1>6, <1>7, <1>8 DEF Init, RoundInv, RoundsClosed

LEMMA RoundInvStep == RoundInv /\ [Next]_vars => RoundInv'
<1> SUFFICES ASSUME RoundInv, [Next]_vars PROVE RoundInv' OBVIOUS
<1>1. TypeOK /\ ClosingsMade BY DEF RoundInv
<1>2. TypeOK' /\ ClosingsMade' BY <1>1, TypeStep, CountersStep
<1>3. ASSUME NoEcho', ~blind', ~TwoStarts' PROVE RoundsClosed'
  <2>1. NoEcho /\ \A p \in Procs, r \in 1 .. TotalRounds : ~HearClosing(p, r)
    BY <1>1, <1>3, CountersStep
  <2>2. ~blind
    BY <1>3 DEF Next, Continue, vars, TryLoad, DeadlineLoad, AdminLoad, ActivateLoad,
       StatusLoad, TryCheck, Complete, ResetFlags, SaveRound, DistributePayout, AdminDisburse,
       AdminRefetch, AdminCommit, ActivateSave, Deploy, StatusSave, ClearFlags, Crash,
       Contribute, HearContribution, HearClosing, ManualPayout
  <2>0. starters \subseteq starters'
    BY DEF Next, Continue, vars, TryLoad, DeadlineLoad, AdminLoad, ActivateLoad,
       StatusLoad, TryCheck, Complete, ResetFlags, SaveRound, DistributePayout, AdminDisburse,
       AdminRefetch, AdminCommit, ActivateSave, Deploy, StatusSave, ClearFlags, Crash,
       Contribute, HearContribution, HearClosing, ManualPayout
  <2>3. RoundsClosed
    <3>1. ~TwoStarts
      <4> SUFFICES ASSUME starters = {"admin", "task"} PROVE FALSE BY DEF TwoStarts
      <4>1. starters' \subseteq {"admin", "task"} BY <1>2 DEF TypeOK
      <4> QED BY <1>3, <2>0, <4>1 DEF TwoStarts
    <3> QED BY <2>1, <2>2, <3>1 DEF RoundInv
  <2>4. CASE UNCHANGED vars
    BY <2>3, <2>4 DEF vars, RoundsClosed, Sound, First, Played, Knows, IsLast, InView, Shown, Open,
       Closed, Heard, PaidClosed, PaidOut, Manual, Fresh
  <2>5. ASSUME NEW p \in Procs, Continue(p) PROVE RoundsClosed'
    BY <2>3, <2>5, <1>1, <1>3, TryKeeps, AdminKeeps, StatusKeeps, EndsKeep DEF Continue
  <2>6. ASSUME NEW p \in Procs,
               \/ TryLoad(p) \/ DeadlineLoad(p) \/ AdminLoad(p) \/ ActivateLoad(p)
               \/ StatusLoad(p) \/ Crash(p)
        PROVE  RoundsClosed'
    BY <2>3, <2>6, <1>1, LoadsKeep, EndsKeep
  <2>7. ASSUME NEW m \in Members, Contribute(m) \/ \E r \in Rounds : HearContribution(m, r)
        PROVE  RoundsClosed'
    BY <2>3, <2>7, <1>1, ContributeKeeps, HearKeeps
  <2>8. ASSUME NEW r \in 1 .. TotalRounds, ManualPayout(r) PROVE RoundsClosed'
    BY <2>3, <2>8, <1>1, ManualKeeps
  <2> QED BY <2>1, <2>4, <2>5, <2>6, <2>7, <2>8 DEF Next
<1> QED BY <1>2, <1>3 DEF RoundInv

\* tryAdvanceRound, the deadline task and advanceRound: whatever overlaps and
\* whatever crashes, with any members, rounds and processes, no round is paid
\* out before all ACTIVE members have contributed to it, but for the payouts the
\* administrator triggers by hand.
THEOREM PaidOutRoundsAreFullTheorem == Safety => []PaidOutRoundsAreFull
<1>1. RoundInv => PaidOutRoundsAreFull
  BY DEF RoundInv, RoundsClosed, PaidClosed, PaidOut, PaidOutRoundsAreFull, Closed, Heard, Gave
<1> QED BY <1>1, RoundInvStarts, RoundInvStep, PTL DEF Safety

\* The reset before every advance: a flag never speaks for an earlier round
\* than the one the group shows.
THEOREM FlagsAreCurrentTheorem == Safety => []FlagsAreCurrent
<1>1. RoundInv => FlagsAreCurrent
  <2> SUFFICES ASSUME RoundInv, group.status = "ACTIVE", NoEcho, ~blind,
                      ~TwoStarts, NEW m \in Active \cap paid
               PROVE  \E r \in group.round .. TotalRounds : <<m, r>> \in given
    BY DEF FlagsAreCurrent
  <2>1. RoundsClosed /\ group \in Groups BY DEF RoundInv, TypeOK
  <2>2. group.round \in Nat /\ group.round \in Played
    <3>1. group.round \in Nat BY <2>1, Edits
    <3>2. group.round >= First /\ group.round <= TotalRounds BY <2>1 DEF RoundsClosed, Sound
    <3> QED BY <3>1, <3>2, PlayedRounds, RoundsAssumption DEF Played
  <2>3. Heard(m, group.round) BY <2>1, <2>2 DEF RoundsClosed, InView, Open
  <2> QED BY <2>2, <2>3, PlayedRounds DEF Heard, Rounds
<1> QED BY <1>1, RoundInvStarts, RoundInvStep, PTL DEF Safety
-----------------------------------------------------------------------------
(***************************************************************************)
(* One process at a time.  What it has read is then the group as it is,    *)
(* until it saves the next round; a round that has been paid is behind the *)
(* group, or an advanceRound is about to put it there; and a group has     *)
(* given nothing to a round it has not reached, so that a new round begins *)
(* with nothing heard of it.                                               *)
(***************************************************************************)
Current == Steps \ {"idle", "saved_try", "listener"}
Running == {"try", "full_try", "reset_try", "full_deadline", "reset_deadline",
            "admin", "paid_admin", "tx_admin"}
Settling == {"paid_admin", "tx_admin"}

\* What the one process knows of the group.
Follows(p) ==
  /\ at[p] \in Current => seen[p] = group
  /\ at[p] = "saved_try" => group.round = seen[p].round + 1
  /\ at[p] \in Running => group.status = "ACTIVE"
  /\ at[p] = "activate" => group.status = "PENDING"
  /\ at[p] = "deploy_activate" =>
       group.status = "ACTIVE" /\ group.round = 1 /\ "admin" \in starters
  /\ at[p] = "status" => group.status # "COMPLETED"

NotAhead == \A p \in Procs : Follows(p)

\* Payouts by hand apart, which come on top.
PaidIsBehind ==
  crashes = 0 =>
    \A r \in 1 .. TotalRounds :
      /\ transfers[r] <= 1 + Manual(r)
      /\ transfers[r] > Manual(r) =>
           /\ group.status # "PENDING"
           /\ r < group.round \/ (r = group.round /\ \E p \in Procs : at[p] \in Settling)
      /\ \A p \in Procs : at[p] = "saved_try" /\ r = seen[p].round => transfers[r] <= Manual(r)

\* The round members can have contributed to at most: a group whose activation
\* was rolled back has been in its first.
Reached == IF group.status = "PENDING" THEN 1 ELSE group.round

GivenIsReached ==
  NoEcho /\ ~TwoStarts =>
    /\ \A m \in Members, r \in Rounds : <<m, r>> \in given => r <= Reached
    /\ starters = {} => given = {} /\ group.status = "PENDING"
    /\ starters = {"task"} => group.status # "PENDING"

NothingForgotten ==
  crashes = 0 /\ NoEcho /\ ~TwoStarts =>
    /\ \A p \in Procs : at[p] # "listener"
    /\ group.status # "COMPLETED" =>
         \A m \in Active : \/ m \in paid
                           \/ ~Heard(m, Reached)
                           \/ \E p \in Procs : at[p] \in Resetting

AloneInv ==
  /\ TypeOK
  /\ ClosingsMade
  /\ NotAhead
  /\ PaidIsBehind
  /\ GivenIsReached
  /\ NothingForgotten

LEMMA AloneStep ==
  ASSUME \A p, q \in Procs : p = q, AloneInv, [Next]_vars
  PROVE  AloneInv'
<1>0. TypeOK /\ ClosingsMade /\ TypeOK' /\ ClosingsMade'
  BY TypeStep, CountersStep DEF AloneInv
<1>e. NoEcho' => NoEcho /\ \A p \in Procs, r \in 1 .. TotalRounds : ~HearClosing(p, r)
  BY <1>0, CountersStep
<1>g. group.status \in Statuses /\ group.round \in Nat /\ group.contract \in BOOLEAN
  BY <1>0 DEF TypeOK, Groups
<1>r. Rounds \subseteq Nat /\ 1 .. TotalRounds \subseteq Nat
  BY RoundsAssumption DEF Rounds
<1>t. \A r \in 1 .. TotalRounds : transfers[r] \in Nat
  BY <1>0, RoundsAssumption DEF TypeOK
<1>s. starters' \subseteq {"admin", "task"} /\ starters \subseteq starters'
      /\ (TwoStarts => TwoStarts')
  <2>1. starters' \subseteq {"admin", "task"} BY <1>0 DEF TypeOK
  <2>2. starters \subseteq starters'
    BY DEF Next, Continue, vars, TryLoad, DeadlineLoad, AdminLoad, ActivateLoad,
       StatusLoad, TryCheck, Complete, ResetFlags, SaveRound, DistributePayout, AdminDisburse,
       AdminRefetch, AdminCommit, ActivateSave, Deploy, StatusSave, ClearFlags, Crash,
       Contribute, HearContribution, HearClosing, ManualPayout
  <2> QED BY <2>1, <2>2 DEF TwoStarts
<1>m. \A r \in 1 .. TotalRounds : Manual(r) \in {0, 1} /\ Manual(r)' \in {0, 1}
  BY DEF Manual
<1>b. byHand' = byHand => \A r \in 1 .. TotalRounds : Manual(r)' = Manual(r)
  BY DEF Manual
<1> USE DEF AloneInv, NotAhead, PaidIsBehind, GivenIsReached, NothingForgotten, Follows, Current,
            Running, Settling, Resetting, Reached, Heard, Steps, moneyVars, chainVars
<1>1. ASSUME NEW p \in Procs,
             TryLoad(p) \/ DeadlineLoad(p) \/ AdminLoad(p) \/ ActivateLoad(p) \/ StatusLoad(p)
      PROVE NotAhead' /\ PaidIsBehind' /\ GivenIsReached' /\ NothingForgotten'
  <2>1. /\ at[p] = "idle" /\ at'[p] \in {"try", "full_deadline", "admin", "activate", "status"}
        /\ at'[p] \in {"try", "full_deadline", "admin"} => group.status = "ACTIVE"
        /\ at'[p] = "activate" => group.status = "PENDING"
        /\ at'[p] = "status" => group.status # "COMPLETED"
        /\ seen'[p] = group /\ \A q \in Procs : q = p
    BY <1>0, <1>1 DEF TryLoad, DeadlineLoad, AdminLoad, ActivateLoad, StatusLoad, Start, TypeOK
  <2>2. UNCHANGED <<group, paid, moneyVars, chainVars, starters, crashes>>
    BY <1>1 DEF TryLoad, DeadlineLoad, AdminLoad, ActivateLoad, StatusLoad
  <2>3. \A q \in Procs : Follows(q)'
    BY <1>0, <1>e, <1>g, <1>r, <1>s, <1>t, <1>m, <1>b, <2>1, <2>2 DEF Statuses
  <2>4. NotAhead'
    BY <1>0, <1>e, <1>g, <1>r, <1>s, <1>t, <1>m, <1>b, <2>1, <2>2, <2>3 DEF Statuses
  <2>5. PaidIsBehind'
    BY <1>0, <1>e, <1>g, <1>r, <1>s, <1>t, <1>m, <1>b, <2>1, <2>2 DEF Statuses
  <2>g. GivenIsReached'
    BY <1>0, <1>e, <1>g, <1>r, <1>s, <1>t, <1>m, <1>b, <2>1, <2>2 DEF Statuses
  <2>6. NothingForgotten'
    BY <1>0, <1>e, <1>g, <1>r, <1>s, <1>t, <1>m, <1>b, <2>1, <2>2 DEF Statuses
  <2> QED
    BY <2>g, <2>4, <2>5, <2>6
<1>2. ASSUME NEW p \in Procs, TryCheck(p) \/ ResetFlags(p) \/ AdminRefetch(p)
      PROVE NotAhead' /\ PaidIsBehind' /\ GivenIsReached' /\ NothingForgotten'
  <2>1. /\ \/ at[p] = "try" /\ at'[p] \in {"full_try", "idle"} /\ UNCHANGED <<paid, seen>>
           \/ at[p] = "full_try" /\ at'[p] = "reset_try" /\ UNCHANGED seen
           \/ at[p] = "full_deadline" /\ at'[p] = "reset_deadline" /\ UNCHANGED seen
           \/ at[p] = "paid_admin" /\ at'[p] = "tx_admin" /\ seen'[p] = group /\ UNCHANGED paid
        /\ \A q \in Procs : q = p
    BY <1>0, <1>2 DEF TryCheck, ResetFlags, AdminRefetch, Goto, TypeOK
  <2>2. UNCHANGED <<group, moneyVars, chainVars, starters, crashes>>
    BY <1>2 DEF TryCheck, ResetFlags, AdminRefetch
  <2>3. \A q \in Procs : Follows(q)'
    BY <1>0, <1>e, <1>g, <1>r, <1>s, <1>t, <1>m, <1>b, <2>1, <2>2 DEF Statuses
  <2>4. NotAhead'
    BY <1>0, <1>e, <1>g, <1>r, <1>s, <1>t, <1>m, <1>b, <2>1, <2>2, <2>3 DEF Statuses
  <2>5. PaidIsBehind'
    BY <1>0, <1>e, <1>g, <1>r, <1>s, <1>t, <1>m, <1>b, <2>1, <2>2 DEF Statuses
  <2>g. GivenIsReached'
    BY <1>0, <1>e, <1>g, <1>r, <1>s, <1>t, <1>m, <1>b, <2>1, <2>2 DEF Statuses
  <2>6. NothingForgotten'
    BY <1>0, <1>e, <1>g, <1>r, <1>s, <1>t, <1>m, <1>b, <2>1, <2>2 DEF Statuses
  <2> QED
    BY <2>g, <2>4, <2>5, <2>6
<1>3. ASSUME NEW p \in Procs, Complete(p) \/ SaveRound(p) \/ AdminCommit(p)
      PROVE NotAhead' /\ PaidIsBehind' /\ GivenIsReached' /\ NothingForgotten'
  <2>1. /\ \/ at[p] = "full_try" /\ at'[p] = "saved_try"
           \/ at[p] = "reset_try" /\ at'[p] = "saved_try"
           \/ at[p] \in {"full_deadline", "reset_deadline", "tx_admin"} /\ at'[p] = "idle"
        /\ UNCHANGED seen /\ \A q \in Procs : q = p
    BY <1>0, <1>3 DEF Complete, SaveRound, AdminCommit, Goto, TypeOK
  <2>2. /\ seen[p] = group /\ group.status = "ACTIVE"
        /\ group' = Advanced(group, "COMPLETED") \/ group' = Advanced(group, group.status)
    BY <1>3, <2>1 DEF Complete, SaveRound, AdminCommit, SaveGroup
  <2>3. /\ group'.status \in {"ACTIVE", "COMPLETED"}
        /\ group'.round = group.round + 1 /\ group'.contract = group.contract
    BY <2>2 DEF Advanced
  <2>4. UNCHANGED <<moneyVars, chainVars, starters, crashes>>
    BY <1>3 DEF Complete, SaveRound, AdminCommit
  <2>5. NoEcho' /\ ~TwoStarts' =>
          /\ \A m \in Members, r \in Rounds : <<m, r>> \in given => r < group'.round
          /\ starters # {} /\ Reached' = group'.round
    BY <1>e, <1>g, <1>r, <1>s, <2>2, <2>3
  <2>6. \A q \in Procs : Follows(q)'
    BY <1>0, <1>e, <1>g, <1>r, <1>s, <1>t, <1>m, <1>b, <2>1, <2>2, <2>3, <2>4, <2>5 DEF Statuses
  <2>7. NotAhead'
    BY <1>0, <1>e, <1>g, <1>r, <1>s, <1>t, <1>m, <1>b, <2>1, <2>2, <2>3, <2>4, <2>5, <2>6 DEF Statuses
  <2>8. PaidIsBehind'
    BY <1>0, <1>e, <1>g, <1>r, <1>s, <1>t, <1>m, <1>b, <2>1, <2>2, <2>3, <2>4, <2>5 DEF Statuses
  <2>g. GivenIsReached'
    <3>1. group'.round \in Nat
      BY <1>g, <2>3
    <3>2. UNCHANGED <<given, starters>>
      BY <2>4
    <3> QED
      BY <1>r, <2>3, <2>5, <3>1, <3>2
  <2>9. NothingForgotten'
    <3>1. SUFFICES ASSUME crashes' = 0, NoEcho', ~TwoStarts' PROVE NothingForgotten'
      OBVIOUS
    <3>2. \A m \in Members : <<m, group'.round>> \notin given'
      BY <1>0, <1>g, <2>3, <2>4, <2>5, <3>1 DEF TypeOK
    <3>3. \A q \in Procs : at'[q] # "listener"
      BY <2>1
    <3> QED
      BY <2>5, <3>1, <3>2, <3>3 DEF Active
  <2> QED
    BY <2>g, <2>7, <2>8, <2>9
<1>4. ASSUME NEW p \in Procs, DistributePayout(p)
      PROVE NotAhead' /\ PaidIsBehind' /\ GivenIsReached' /\ NothingForgotten'
  <2>1. /\ at[p] = "saved_try" /\ at'[p] = "idle" /\ \A q \in Procs : q = p
        /\ UNCHANGED <<group, paid, moneyVars, byHand, seen, starters, crashes>>
    BY <1>0, <1>4 DEF DistributePayout, Goto, TypeOK
  <2>2. \/ UNCHANGED transfers
        \/ /\ group.status = "ACTIVE" /\ seen[p].round \in (1 .. TotalRounds) \ byHand
           /\ transfers' = [transfers EXCEPT ![seen[p].round] = @ + 1]
    BY <1>0, <1>4 DEF DistributePayout, Payable, Transfer, TypeOK
  <2>3. seen[p].round < group.round /\ seen[p].round \in Nat
    BY <1>0, <1>g, <2>1 DEF TypeOK, Groups
  <2>4. \A r \in 1 .. TotalRounds :
          /\ transfers'[r] \in {transfers[r], 1} \/ crashes # 0
          /\ transfers'[r] # transfers[r] => r = seen[p].round /\ group.status = "ACTIVE"
    BY <1>0, <1>t, <2>1, <2>2 DEF TypeOK, Manual
  <2>5. \A q \in Procs : Follows(q)'
    BY <1>0, <1>e, <1>g, <1>r, <1>s, <1>t, <1>m, <1>b, <2>1, <2>3, <2>4 DEF Statuses
  <2>6. NotAhead'
    BY <1>0, <1>e, <1>g, <1>r, <1>s, <1>t, <1>m, <1>b, <2>1, <2>3, <2>4, <2>5 DEF Statuses
  <2>7. PaidIsBehind'
    BY <1>0, <1>e, <1>g, <1>r, <1>s, <1>t, <1>m, <1>b, <2>1, <2>3, <2>4 DEF Statuses
  <2>g. GivenIsReached'
    BY <1>0, <1>e, <1>g, <1>r, <1>s, <1>t, <1>m, <1>b, <2>1, <2>3, <2>4 DEF Statuses
  <2>8. NothingForgotten'
    BY <1>0, <1>e, <1>g, <1>r, <1>s, <1>t, <1>m, <1>b, <2>1, <2>3, <2>4 DEF Statuses
  <2> QED
    BY <2>g, <2>6, <2>7, <2>8
<1>5. ASSUME NEW p \in Procs, AdminDisburse(p)
      PROVE NotAhead' /\ PaidIsBehind' /\ GivenIsReached' /\ NothingForgotten'
  <2>1. /\ at[p] = "admin" /\ at'[p] \in {"paid_admin", "idle"} /\ \A q \in Procs : q = p
        /\ seen[p] = group /\ group.status = "ACTIVE"
        /\ UNCHANGED <<group, paid, moneyVars, byHand, seen, starters, crashes>>
    BY <1>0, <1>5 DEF AdminDisburse, Goto, TypeOK
  <2>2. \/ UNCHANGED transfers
        \/ /\ group.round \in 1 .. TotalRounds /\ at'[p] = "paid_admin"
           /\ transfers' = [transfers EXCEPT ![group.round] = @ + 1]
    BY <1>0, <1>5, <2>1 DEF AdminDisburse, Transfer, Goto, TypeOK
  <2>3. group.round \in 1 .. TotalRounds =>
          transfers[group.round] <= Manual(group.round) \/ crashes # 0
    BY <1>g, <1>m, <1>t, <2>1
  <2>4. \A r \in 1 .. TotalRounds :
          /\ transfers'[r] = transfers[r] \/ transfers'[r] <= 1 + Manual(r) \/ crashes # 0
          /\ transfers'[r] # transfers[r] => r = group.round /\ at'[p] = "paid_admin"
    <3>1. \A r \in 1 .. TotalRounds :
            transfers'[r] = transfers[r] \/ (r = group.round /\ transfers'[r] = transfers[r] + 1
                                              /\ at'[p] = "paid_admin")
      BY <1>0, <2>2 DEF TypeOK
    <3> QED BY <1>m, <1>t, <2>3, <3>1
  <2>5. at'[p] = "idle" => UNCHANGED transfers
    BY <2>2
  <2>6. \A q \in Procs : Follows(q)'
    BY <1>0, <1>e, <1>g, <1>r, <1>s, <1>t, <1>m, <1>b, <2>1, <2>4, <2>5 DEF Statuses
  <2>7. NotAhead'
    BY <1>0, <1>e, <1>g, <1>r, <1>s, <1>t, <1>m, <1>b, <2>1, <2>4, <2>5, <2>6 DEF Statuses
  <2>8. PaidIsBehind'
    BY <1>0, <1>e, <1>g, <1>r, <1>s, <1>t, <1>m, <1>b, <2>1, <2>4, <2>5 DEF Statuses
  <2>g. GivenIsReached'
    BY <1>0, <1>e, <1>g, <1>r, <1>s, <1>t, <1>m, <1>b, <2>1, <2>4, <2>5 DEF Statuses
  <2>9. NothingForgotten'
    BY <1>0, <1>e, <1>g, <1>r, <1>s, <1>t, <1>m, <1>b, <2>1, <2>4, <2>5 DEF Statuses
  <2> QED
    BY <2>g, <2>7, <2>8, <2>9
<1>6. ASSUME NEW p \in Procs, ActivateSave(p) \/ Deploy(p)
      PROVE NotAhead' /\ PaidIsBehind' /\ GivenIsReached' /\ NothingForgotten'
  <2>1. /\ seen[p] = group /\ \A q \in Procs : q = p
        /\ \/ at[p] = "activate" /\ at'[p] = "deploy_activate"
           \/ at[p] = "deploy_activate" /\ at'[p] = "idle"
    BY <1>0, <1>6 DEF ActivateSave, Deploy, Goto, TypeOK
  <2>2. /\ group.status = "PENDING" \/ (group.status = "ACTIVE" /\ group.round = 1)
        /\ Reached = 1 /\ \A q \in Procs : at[q] \notin Settling
        /\ "admin" \in starters'
    <3>1. group.status = "PENDING" \/ (group.status = "ACTIVE" /\ group.round = 1)
      BY <2>1
    <3>2. "admin" \in starters'
      <4>1. CASE ActivateSave(p) BY <4>1 DEF ActivateSave
      <4>2. CASE Deploy(p)
        <5>1. starters' = starters /\ at[p] = "deploy_activate" BY <4>2 DEF Deploy, Goto
        <5> QED BY <5>1
      <4> QED BY <1>6, <4>1, <4>2
    <3> QED BY <2>1, <3>1, <3>2
  <2>4. \/ /\ at'[p] = "deploy_activate" /\ seen'[p] = group'
           /\ group'.status = "ACTIVE" /\ group'.round = 1
        \/ /\ at'[p] = "idle" /\ group'.status = "ACTIVE" /\ group'.round = 1
        \/ /\ at'[p] = "idle" /\ group'.status = "PENDING" /\ group'.round = 0
    <3>1. group \in Groups BY <1>0 DEF TypeOK
    <3>2. CASE ActivateSave(p)
      <4>1. group' = [group EXCEPT !.status = "ACTIVE", !.round = 1] /\ seen'[p] = group'
            /\ at'[p] = "deploy_activate"
        BY <1>0, <2>1, <3>2 DEF ActivateSave, Goto, SaveGroup, TypeOK
      <4> QED BY <3>1, <4>1 DEF Groups
    <3>3. CASE Deploy(p)
      <4>1. /\ at'[p] = "idle" /\ group.status = "ACTIVE" /\ group.round = 1
            /\ \/ group' = [group EXCEPT !.contract = TRUE]
               \/ \E c \in BOOLEAN :
                    group' = [group EXCEPT !.status = "PENDING", !.round = 0, !.contract = c]
        BY <1>0, <1>g, <2>1, <3>3 DEF Deploy, Goto, SaveGroup, TypeOK
      <4>2. \A c \in BOOLEAN :
              LET h == [group EXCEPT !.status = "PENDING", !.round = 0, !.contract = c]
              IN  h.status = "PENDING" /\ h.round = 0
        BY <3>1, RolledBack
      <4> QED BY <3>1, <4>1, <4>2 DEF Groups
    <3> QED BY <1>6, <3>2, <3>3
  <2>5. UNCHANGED <<paid, moneyVars, chainVars, crashes>> /\ Reached' = 1
    BY <1>6, <2>4 DEF ActivateSave, Deploy
  <2>6. \A q \in Procs : Follows(q)'
    BY <1>0, <1>6, <1>s, <2>1, <2>2, <2>4 DEF Statuses
  <2>7. NotAhead'
    BY <2>6
  <2>8. PaidIsBehind'
    BY <1>g, <1>r, <1>t, <1>m, <1>b, <2>1, <2>2, <2>4, <2>5
  <2>g. GivenIsReached'
    BY <1>0, <1>e, <1>s, <2>2, <2>5
  <2>9. NothingForgotten'
    BY <1>0, <1>e, <1>g, <1>s, <2>1, <2>2, <2>5
  <2> QED
    BY <2>g, <2>7, <2>8, <2>9
<1>7. ASSUME NEW p \in Procs, StatusSave(p)
      PROVE NotAhead' /\ PaidIsBehind' /\ GivenIsReached' /\ NothingForgotten'
  <2>1. /\ at[p] = "status" /\ at'[p] = "idle" /\ seen[p] = group /\ \A q \in Procs : q = p
        /\ UNCHANGED <<seen, paid, moneyVars, chainVars, crashes>>
    BY <1>0, <1>7 DEF StatusSave, Goto, TypeOK
  <2>2. \/ group' = group
        \/ /\ group.status = "ACTIVE" \/ group.contract
           /\ \E st \in {"ACTIVE", "COMPLETED"} : group' = [group EXCEPT !.status = st]
    <3> DEFINE started == seen[p].status = "ACTIVE" \/ seen[p].contract
               last == seen[p].round >= TotalRounds
               st == IF ~started THEN "PENDING" ELSE IF last THEN "COMPLETED" ELSE "ACTIVE"
    <3>1. IF st # seen[p].status THEN group' = [seen[p] EXCEPT !.status = st] ELSE group' = group
      BY <1>7 DEF StatusSave, SaveGroup
    <3>2. ~started => group.status = "PENDING"
      BY <1>g, <2>1 DEF Statuses
    <3>3. started => st \in {"ACTIVE", "COMPLETED"}
      OBVIOUS
    <3>4. ~started => st = seen[p].status
      BY <2>1, <3>2
    <3> HIDE DEF st
    <3>5. group' # group => started /\ group' = [group EXCEPT !.status = st]
      BY <2>1, <3>1, <3>4
    <3> QED
      BY <2>1, <3>3, <3>5
  <2>3. /\ group'.round = group.round /\ group'.contract = group.contract
        /\ group'.status = "PENDING" => group.status = "PENDING"
        /\ group'.status \in Statuses
        /\ group'.status = group.status => Reached' = Reached
    BY <1>0, <1>g, <2>1, <2>2 DEF TypeOK, Groups, Statuses
  <2>s. \/ starters' = starters /\ (group'.status = "PENDING" <=> group.status = "PENDING")
        \/ /\ starters' = starters \cup {"task"}
           /\ group.status = "PENDING" /\ group'.status # "PENDING"
    <3> DEFINE started == seen[p].status = "ACTIVE" \/ seen[p].contract
    <3>1. starters' = starters \cup (IF group.status = "PENDING" /\ started THEN {"task"} ELSE {})
      BY <1>7, <2>1 DEF StatusSave
    <3>2. group.status = "PENDING" /\ started => group'.status # "PENDING"
      <4>1. SUFFICES ASSUME group.status = "PENDING", started PROVE group'.status # "PENDING"
        OBVIOUS
      <4>2. group' = [group EXCEPT !.status = "COMPLETED"] \/ group' = [group EXCEPT !.status = "ACTIVE"]
        BY <1>7, <2>1, <4>1 DEF StatusSave, SaveGroup
      <4> QED BY <1>0, <4>2 DEF TypeOK, Groups
    <3>3. group.status = "PENDING" /\ ~started => group'.status = "PENDING"
      BY <1>7, <2>1 DEF StatusSave, SaveGroup
    <3> HIDE DEF started
    <3>4. CASE group.status = "PENDING" /\ started BY <3>1, <3>2, <3>4
    <3>5. CASE ~(group.status = "PENDING" /\ started) BY <2>3, <3>1, <3>3, <3>5
    <3> QED BY <3>4, <3>5
  <2>t. NoEcho' /\ ~TwoStarts' =>
          \/ starters' = starters /\ Reached' = Reached
          \/ given = {} /\ starters' = {"task"} /\ group'.status # "PENDING"
    <3>1. SUFFICES ASSUME NoEcho', ~TwoStarts', starters' = starters \cup {"task"},
                          group.status = "PENDING", group'.status # "PENDING"
                   PROVE  given = {} /\ starters' = {"task"}
      BY <2>3, <2>s
    <3>2. starters = {} \/ starters = {"task"}
      BY <1>s, <3>1 DEF TwoStarts
    <3> QED BY <1>e, <1>s, <3>1, <3>2
  <2>4. \A q \in Procs : Follows(q)'
    BY <1>0, <1>e, <1>g, <1>r, <1>s, <1>t, <1>m, <1>b, <2>1, <2>3 DEF Statuses
  <2>5. NotAhead'
    BY <1>0, <1>e, <1>g, <1>r, <1>s, <1>t, <1>m, <1>b, <2>1, <2>3, <2>4 DEF Statuses
  <2>6. PaidIsBehind'
    BY <1>0, <1>e, <1>g, <1>r, <1>s, <1>t, <1>m, <1>b, <2>1, <2>3 DEF Statuses
  <2>g. GivenIsReached'
    BY <1>e, <1>s, <2>1, <2>3, <2>s, <2>t
  <2>7. NothingForgotten'
    BY <1>e, <1>s, <2>1, <2>3, <2>t DEF Active
  <2> QED
    BY <2>g, <2>5, <2>6, <2>7
<1>8. ASSUME NEW p \in Procs, ClearFlags(p) \/ Crash(p)
      PROVE NotAhead' /\ PaidIsBehind' /\ GivenIsReached' /\ NothingForgotten'
  <2>0. crashes \in Nat
    BY <1>0, RoundsAssumption DEF TypeOK
  <2>1. /\ at[p] # "idle" /\ at'[p] = "idle" /\ \A q \in Procs : q = p
        /\ UNCHANGED <<group, moneyVars, chainVars, seen, starters>>
        /\ crashes' # 0 \/ (at[p] = "listener" /\ crashes' = crashes)
    <3>1. CASE ClearFlags(p)
      BY <1>0, <3>1 DEF ClearFlags, Goto, TypeOK
    <3>2. CASE Crash(p)
      <4>1. at' = [at EXCEPT ![p] = "idle"] /\ at[p] # "idle" /\ crashes' = crashes + 1
            /\ UNCHANGED <<group, moneyVars, chainVars, seen, starters>>
        BY <3>2 DEF Crash
      <4>2. at'[p] = "idle" /\ crashes' # 0 /\ \A q \in Procs : q = p
        BY <1>0, <2>0, <4>1 DEF TypeOK
      <4> QED
        BY <4>1, <4>2
    <3> QED
      BY <1>8, <3>1, <3>2
  <2>2. \A q \in Procs : Follows(q)'
    BY <1>0, <1>e, <1>g, <1>r, <1>s, <1>t, <1>m, <1>b, <2>1 DEF Statuses
  <2>3. NotAhead'
    BY <1>0, <1>e, <1>g, <1>r, <1>s, <1>t, <1>m, <1>b, <2>1, <2>2 DEF Statuses
  <2>4. PaidIsBehind'
    BY <1>0, <1>e, <1>g, <1>r, <1>s, <1>t, <1>m, <1>b, <2>1 DEF Statuses
  <2>g. GivenIsReached'
    BY <1>0, <1>e, <1>g, <1>r, <1>s, <1>t, <1>m, <1>b, <2>1 DEF Statuses
  <2>5. NothingForgotten'
    BY <1>0, <1>e, <1>g, <1>r, <1>s, <1>t, <1>m, <1>b, <2>1 DEF Statuses
  <2> QED
    BY <2>g, <2>3, <2>4, <2>5
<1>9. ASSUME NEW p \in Procs, NEW r \in 1 .. TotalRounds, HearClosing(p, r)
      PROVE NotAhead' /\ PaidIsBehind' /\ GivenIsReached' /\ NothingForgotten'
  <2>1. /\ at[p] = "idle" /\ at'[p] = "listener" /\ \A q \in Procs : q = p
        /\ UNCHANGED <<paid, moneyVars, payouts, transfers, byHand, starters, crashes>> /\ ~NoEcho'
    BY <1>0, <1>e, <1>9 DEF HearClosing, Start, TypeOK
  <2>4. /\ group'.status = group.status /\ group'.contract = group.contract
        /\ group'.round = group.round + 1
    BY <1>9 DEF HearClosing, Advanced
  <2>5. \A q \in Procs : Follows(q)'
    BY <1>0, <1>e, <1>g, <1>r, <1>s, <1>t, <1>m, <1>b, <2>1, <2>4 DEF Statuses
  <2>6. NotAhead'
    BY <1>0, <1>e, <1>g, <1>r, <1>s, <1>t, <1>m, <1>b, <2>1, <2>4, <2>5 DEF Statuses
  <2>7. PaidIsBehind'
    BY <1>0, <1>e, <1>g, <1>r, <1>s, <1>t, <1>m, <1>b, <2>1, <2>4 DEF Statuses
  <2>g. GivenIsReached'
    BY <1>0, <1>e, <1>g, <1>r, <1>s, <1>t, <1>m, <1>b, <2>1, <2>4 DEF Statuses
  <2>8. NothingForgotten'
    BY <1>0, <1>e, <1>g, <1>r, <1>s, <1>t, <1>m, <1>b, <2>1, <2>4 DEF Statuses
  <2> QED
    BY <2>g, <2>6, <2>7, <2>8
<1>10. ASSUME NEW m \in Members, Contribute(m)
      PROVE NotAhead' /\ PaidIsBehind' /\ GivenIsReached' /\ NothingForgotten'
  <2>1. /\ UNCHANGED <<group, paid, chainVars, at, seen, starters, crashes>>
        /\ group.status = "ACTIVE" /\ <<m, group.round>> \notin given
        /\ given' = given \cup {<<m, group.round>>} /\ unheard' = unheard \cup {<<m, group.round>>}
    BY <1>10 DEF Contribute
  <2>2. NotAhead' BY <2>1
  <2>3. PaidIsBehind' BY <1>b, <2>1
  <2>4. GivenIsReached' BY <1>e, <1>g, <1>s, <2>1
  <2>5. NothingForgotten' BY <1>e, <1>s, <2>1
  <2> QED BY <2>2, <2>3, <2>4, <2>5
<1>11. ASSUME NEW m \in Members, NEW r \in Rounds, HearContribution(m, r)
       PROVE NotAhead' /\ PaidIsBehind' /\ GivenIsReached' /\ NothingForgotten'
  <2>1. /\ UNCHANGED <<group, given, chainVars, at, seen, starters, crashes>>
        /\ unheard' = unheard \ {<<m, r>>} /\ paid' = paid \cup {m}
    BY <1>11 DEF HearContribution
  <2>2. NotAhead' BY <2>1
  <2>3. PaidIsBehind' BY <1>b, <2>1
  <2>4. GivenIsReached' BY <1>e, <1>s, <2>1
  <2>5. NothingForgotten' BY <1>e, <1>s, <2>1
  <2> QED BY <2>2, <2>3, <2>4, <2>5
<1>12. CASE UNCHANGED vars
  <2>1. UNCHANGED <<group, paid, moneyVars, chainVars, at, seen, starters, crashes>>
    BY <1>12 DEF vars
  <2>2. NotAhead' BY <2>1
  <2>3. PaidIsBehind' BY <1>b, <2>1
  <2>4. GivenIsReached' BY <1>e, <1>s, <2>1
  <2>5. NothingForgotten' BY <1>e, <1>s, <2>1
  <2> QED BY <1>0, <2>2, <2>3, <2>4, <2>5
<1>13. ASSUME NEW r \in 1 .. TotalRounds, ManualPayout(r)
       PROVE NotAhead' /\ PaidIsBehind' /\ GivenIsReached' /\ NothingForgotten'
  <2>1. /\ UNCHANGED <<group, paid, moneyVars, at, seen, starters, crashes>>
        /\ r \notin byHand /\ byHand' = byHand \cup {r}
        /\ transfers' = [transfers EXCEPT ![r] = @ + 1]
    BY <1>0, <1>13 DEF ManualPayout, Payable, Transfer, TypeOK
  <2>2. NotAhead' BY <2>1
  <2>3. PaidIsBehind'
    <3>1. /\ transfers'[r] = transfers[r] + 1 /\ Manual(r) = 0 /\ Manual(r)' = 1
          /\ \A q \in (1 .. TotalRounds) \ {r} : transfers'[q] = transfers[q] /\ Manual(q)' = Manual(q)
      BY <1>0, <2>1 DEF Manual, TypeOK
    <3>2. \A q \in 1 .. TotalRounds :
            /\ transfers'[q] <= 1 + Manual(q)' <=> transfers[q] <= 1 + Manual(q)
            /\ transfers'[q] <= Manual(q)' <=> transfers[q] <= Manual(q)
            /\ transfers'[q] > Manual(q)' <=> transfers[q] > Manual(q)
      BY <1>m, <1>t, <3>1
    <3> QED BY <2>1, <3>2
  <2>4. GivenIsReached' BY <1>e, <1>s, <2>1
  <2>5. NothingForgotten' BY <1>e, <1>s, <2>1
  <2> QED BY <2>2, <2>3, <2>4, <2>5
<1> HIDE DEF NotAhead, PaidIsBehind, GivenIsReached, NothingForgotten
<1> QED
  BY <1>0, <1>1, <1>2, <1>3, <1>4, <1>5, <1>6, <1>7, <1>8, <1>9, <1>10, <1>11,
     <1>12, <1>13 DEF Next, Continue

LEMMA AloneStarts == Init => AloneInv
<1> SUFFICES ASSUME Init PROVE AloneInv
  OBVIOUS
<1>1. TypeOK /\ ClosingsMade
  BY RoundInvStarts DEF RoundInv
<1>2. NotAhead
  BY DEF Init, NotAhead, Follows, Current, Running, Reached
<1>3. PaidIsBehind
  BY RoundsAssumption DEF Init, PaidIsBehind, Manual
<1>5. GivenIsReached
  BY DEF Init, GivenIsReached
<1>4. NothingForgotten
  BY DEF Init, NothingForgotten, Heard
<1> QED
  BY <1>1, <1>2, <1>3, <1>4, <1>5 DEF AloneInv

\* tryAdvanceRound and advanceRound between them pay a round once, and what is
\* heard of a round is not forgotten, as long as the procedures that move a
\* group run one at a time and none dies, for any number of members, rounds,
\* listeners' turns and administrators' requests.  A payout the administrator
\* triggers by hand comes on top: neither of the two looks for it.
THEOREM RoundIsPaidOnceTheorem ==
  ASSUME \A p, q \in Procs : p = q
  PROVE  Safety => []RoundIsPaidOnce
<1>1. AloneInv /\ [Next]_vars => AloneInv'
  BY AloneStep
<1>2. AloneInv => RoundIsPaidOnce
  <2> SUFFICES ASSUME AloneInv PROVE RoundIsPaidOnce
    OBVIOUS
  <2>1. OneTransferPerRound
    BY DEF AloneInv, PaidIsBehind, OneTransferPerRound
  <2>2. HeardIsRemembered
    BY DEF AloneInv, NothingForgotten, HeardIsRemembered, Heard, Reached, Resetting
  <2> QED
    BY <2>1, <2>2 DEF AloneInv, RoundIsPaidOnce
<1> QED
  BY <1>1, <1>2, AloneStarts, PTL DEF Safety

LEMMA OrderStep ==
  ASSUME \A p, q \in Procs : p = q, AloneInv, [Next]_vars
  PROVE  /\ group.status = "ACTIVE" /\ group'.status # "PENDING"
              => group'.round \in {group.round, group.round + 1}
         /\ group.status = "COMPLETED" => group'.status = "COMPLETED"
<1>0. TypeOK /\ group = [status |-> group.status, round |-> group.round, contract |-> group.contract]
  BY DEF AloneInv, TypeOK, Groups
<1>1. \A p \in Procs : Follows(p)
  BY DEF AloneInv, NotAhead
<1>2. CASE group' = group
  BY <1>2
<1>3. ASSUME NEW p \in Procs, Complete(p) \/ SaveRound(p) \/ AdminCommit(p)
      PROVE  group.status = "ACTIVE" /\ group'.round = group.round + 1
  <2>1. at[p] \in Running
    BY <1>3 DEF Complete, SaveRound, AdminCommit, Goto, Running
  <2>2. seen[p] = group /\ group.status = "ACTIVE"
    BY <1>0, <1>1, <2>1 DEF Follows, Running, Current, TypeOK, Steps
  <2> QED
    BY <1>3, <2>2 DEF Complete, SaveRound, AdminCommit, SaveGroup, Advanced
<1>4. ASSUME NEW p \in Procs, ActivateSave(p) PROVE group.status = "PENDING"
  BY <1>1, <1>4 DEF ActivateSave, Goto, Follows
<1>5. ASSUME NEW p \in Procs, Deploy(p)
      PROVE  /\ group.status = "ACTIVE"
             /\ group'.status = "PENDING" \/ group'.round = group.round
  <2>1. seen[p] = group /\ group.status = "ACTIVE"
    BY <1>1, <1>5 DEF Deploy, Goto, Follows, Current, Steps
  <2> QED
    BY <1>0, <1>5, <2>1 DEF Deploy, SaveGroup
<1>6. ASSUME NEW p \in Procs, StatusSave(p)
      PROVE  group.status # "COMPLETED" /\ group'.round = group.round
  <2>1. seen[p] = group /\ group.status # "COMPLETED"
    BY <1>1, <1>6 DEF StatusSave, Goto, Follows, Current, Steps
  <2>2. group' = group \/ \E st \in Statuses : group' = [group EXCEPT !.status = st]
    BY <1>6, <2>1 DEF StatusSave, SaveGroup, Statuses
  <2> QED
    BY <1>0, <2>1, <2>2
<1>7. ASSUME NEW p \in Procs, NEW r \in 1 .. TotalRounds, HearClosing(p, r)
      PROVE  group'.status = group.status /\ group'.round = group.round + 1
  BY <1>7 DEF HearClosing, Advanced
<1>8. \/ group' = group
      \/ \E p \in Procs : \/ Complete(p) \/ SaveRound(p) \/ AdminCommit(p)
                          \/ ActivateSave(p) \/ Deploy(p) \/ StatusSave(p)
                          \/ \E r \in 1 .. TotalRounds : HearClosing(p, r)
  BY DEF Next, Continue, vars, TryLoad, DeadlineLoad, AdminLoad, ActivateLoad, StatusLoad,
         TryCheck, ResetFlags, DistributePayout, AdminDisburse, AdminRefetch, ClearFlags,
         Crash, Contribute, HearContribution, ManualPayout
<1> QED
  BY <1>2, <1>3, <1>4, <1>5, <1>6, <1>7, <1>8

\* The safety part of RoundsProgress: of a running group, the round never goes
\* back and never jumps, and COMPLETED is final, while one procedure runs at a
\* time, whatever crashes.
THEOREM RoundsInOrderTheorem ==
  ASSUME \A p, q \in Procs : p = q
  PROVE  Safety => RoundsInOrder /\ CompletedIsFinal
<1>1. AloneInv /\ [Next]_vars
        => /\ [group.status = "ACTIVE" /\ group'.status # "PENDING"
                 => group'.round \in {group.round, group.round + 1}]_vars
           /\ [group.status = "COMPLETED" => group'.status = "COMPLETED"]_vars
  BY OrderStep
<1>2. Safety => []AloneInv
  BY AloneStarts, AloneStep, PTL DEF Safety
<1> QED
  BY <1>1, <1>2, PTL DEF Safety, RoundsInOrder, CompletedIsFinal
=============================================================================
