--------------------------- MODULE MemberStanding ---------------------------
(***************************************************************************)
(* The standing of the members of an active group                           *)
(* (memberships/memberships.service.ts): the payout an administrator        *)
(* records, suspensions and reinstatements.  Each request reads the         *)
(* membership, and later saves the whole row it has read; meanwhile         *)
(* contributions set and rounds reset the flag of the current round.        *)
(***************************************************************************)
EXTENDS Naturals, FiniteSets

CONSTANTS
  GroupMembers, StandingRequests,
  OrderOf,       \* payoutOrder, fixed when the group was activated
  StandingRounds \* totalRounds

ASSUME StandingAssumption ==
  /\ StandingRounds \in Nat \ {0}
  /\ OrderOf \in [GroupMembers -> Nat]
  /\ \A m, n \in GroupMembers : OrderOf[m] = OrderOf[n] => m = n

VARIABLES
  turn,        \* currentRound; beyond the last one the group is COMPLETED
  rows,        \* the memberships
  standing,    \* the requests
  gave,        \* the members who have contributed in the current round
  recorded,    \* how often a payout to each member has been recorded
  overlapped,  \* members whose row was changed between a find and its save
  away,        \* members suspended when a round was closed
  short        \* a round was closed that an active member had not paid

standingVars ==
  <<turn, rows, standing, gave, recorded, overlapped, away, short>>

NoRow == [paid |-> FALSE, received |-> FALSE, suspended |-> FALSE]
MemberRows == [paid : BOOLEAN, received : BOOLEAN, suspended : BOOLEAN]
NoRequest == [at |-> "none", member |-> "nobody", seen |-> NoRow]

StandingTypeOK ==
  /\ turn \in 1 .. StandingRounds + 1
  /\ rows \in [GroupMembers -> MemberRows]
  /\ standing \in [StandingRequests ->
       [at : {"none", "payout", "suspend", "reinstate", "done"},
        member : GroupMembers \cup {"nobody"}, seen : MemberRows]]
  /\ gave \subseteq GroupMembers
  /\ recorded \in [GroupMembers -> 0 .. 2]
  /\ overlapped \subseteq GroupMembers /\ away \subseteq GroupMembers
  /\ short \in BOOLEAN

-----------------------------------------------------------------------------
IsActive == turn <= StandingRounds
\* The members of whom one of some requests holds a row it is going to save.
Held(requests) ==
  {standing[q].member :
     q \in {q \in requests : standing[q].at \notin {"none", "done"}}}

Find(r, m, what) ==
  /\ standing[r].at = "none"
  /\ standing' = [standing EXCEPT ![r] =
                    [at |-> what, member |-> m, seen |-> rows[m]]]
  /\ UNCHANGED <<turn, rows, gave, recorded, overlapped, away, short>>

\* getCurrentRecipient: the orders count from 0, the rounds from 1.
CurrentRecipient == {m \in GroupMembers : OrderOf[m] = turn - 1}

\* Mutation of FindForPayout: whether the member has had its payout is not asked.
FindForPayoutAgain(r, m) ==
  IsActive /\ m \in CurrentRecipient /\ Find(r, m, "payout")

\* recordPayout: the member is due in the current round and has had no payout.
FindForPayout(r, m) ==
  /\ IsActive /\ m \in CurrentRecipient /\ ~rows[m].received
  /\ Find(r, m, "payout")

\* suspendMember: a member who is suspended already is left as it is.
FindForSuspension(r, m) == ~rows[m].suspended /\ Find(r, m, "suspend")

\* reinstateMember asks nothing of the membership.
FindForReinstatement(r, m) == Find(r, m, "reinstate")

\* The row that was found is saved with one change, over what happened since.
Save(r) ==
  LET q == standing[r] IN
  /\ q.at \in {"payout", "suspend", "reinstate"}
  /\ rows' = [rows EXCEPT ![q.member] =
                CASE q.at = "payout"    -> [q.seen EXCEPT !.received = TRUE]
                  [] q.at = "suspend"   -> [q.seen EXCEPT !.suspended = TRUE]
                  [] q.at = "reinstate" -> [q.seen EXCEPT !.suspended = FALSE]]
  /\ standing' = [standing EXCEPT ![r].at = "done"]
  /\ recorded' = IF q.at = "payout" /\ recorded[q.member] < 2
                 THEN [recorded EXCEPT ![q.member] = @ + 1] ELSE recorded
  /\ overlapped' = overlapped \cup ({q.member} \cap Held(StandingRequests \ {r}))
  /\ UNCHANGED <<turn, gave, away, short>>

-----------------------------------------------------------------------------
\* A contribution is confirmed (see ContributionIntake and RoundAdvance):
\* suspended members cannot contribute.
Contribution(m) ==
  /\ IsActive /\ m \notin gave /\ ~rows[m].suspended
  /\ gave' = gave \cup {m}
  /\ rows' = [rows EXCEPT ![m].paid = TRUE]
  /\ overlapped' = overlapped \cup ({m} \cap Held(StandingRequests))
  /\ UNCHANGED <<turn, standing, recorded, away, short>>

ActiveMembers == {m \in GroupMembers : ~rows[m].suspended}

\* tryAdvanceRound: when all active members have paid the round is counted
\* up and their flags are reset; the flags of the suspended stay.
CloseRound ==
  /\ IsActive /\ ActiveMembers # {} /\ \A m \in ActiveMembers : rows[m].paid
  /\ turn' = turn + 1
  /\ rows' = IF turn = StandingRounds THEN rows
             ELSE [m \in GroupMembers |->
                     IF m \in ActiveMembers THEN [rows[m] EXCEPT !.paid = FALSE]
                                            ELSE rows[m]]
  /\ gave' = {}
  /\ short' = (short \/ ~ActiveMembers \subseteq gave)
  /\ away' = away \cup (GroupMembers \ ActiveMembers)
  /\ overlapped' = overlapped \cup Held(StandingRequests)
  /\ UNCHANGED <<standing, recorded>>

StandingInit ==
  /\ turn = 1 /\ rows = [m \in GroupMembers |-> NoRow]
  /\ standing = [r \in StandingRequests |-> NoRequest]
  /\ gave = {} /\ recorded = [m \in GroupMembers |-> 0]
  /\ overlapped = {} /\ away = {} /\ short = FALSE

StandingRequest(r, m) ==
  \/ FindForPayout(r, m) \/ FindForSuspension(r, m)
  \/ FindForReinstatement(r, m)

StandingNext ==
  \/ \E r \in StandingRequests, m \in GroupMembers : StandingRequest(r, m)
  \/ \E r \in StandingRequests : Save(r)
  \/ \E m \in GroupMembers : Contribution(m)
  \/ CloseRound

StandingSpec == StandingInit /\ [][StandingNext]_standingVars

-----------------------------------------------------------------------------
\* recordPayout and suspendMember save whole rows: a payout that was recorded
\* is forgotten, or recorded a second time, only if the row of the member was
\* changed while another request held it (memberships.service.ts:573-599).
PayoutsAreKept ==
  \A m \in GroupMembers \ overlapped :
    recorded[m] <= 1 /\ (rows[m].received <=> recorded[m] = 1)

\* tryAdvanceRound trusts the flags: a round that an active member has not
\* paid is closed only if a row was saved over a change, or a member was
\* suspended while a round was closed (round.service.ts:46-54, :104-107).
ShortRoundsHaveACause == short => overlapped # {} \/ away # {}

\* "No-ops silently ... when any member has not yet paid"
\* (round.service.ts:31), also for members who come back from a suspension.
\* Fails: the flag of a suspended member is not reset.
EveryRoundIsPaid == overlapped = {} => ~short
=============================================================================
