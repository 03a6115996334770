------------------------- MODULE MembershipWaitlist -------------------------
(***************************************************************************)
(* The members of one group and the users waiting for a place in it:       *)
(* MembershipsService, WaitlistService and GroupInviteService.joinByCode.  *)
(* Adding and admitting are transactions that lock the row of the group;   *)
(* leaving, suspending and the waitlist's own handlers lock nothing, read  *)
(* an entity, await, and save it whole.  The group is PENDING and its      *)
(* payout order strategy SEQUENTIAL.  A membership is named by its user and *)
(* by gen, which stands for its id: a user who joins again gets one that no *)
(* handler knows of.                                                       *)
(***************************************************************************)
EXTENDS Integers, FiniteSetsExt, TLC

CONSTANTS
  Users,
  MaxMembers,   \* group.maxMembers
  MaxWaitlist,  \* GROUP_MAX_WAITLIST
  MaxUses,      \* of the group's invite
  MaxOrder,     \* bound: payout orders
  MaxListing,   \* bound: handlers of the waitlist under way
  MaxAdmits,    \* bound: admissions left to setImmediate
  Serial        \* departures and suspensions do not overlap, see Busy

ASSUME NumbersAssumption ==
  /\ IsFiniteSet(Users)
  /\ {MaxMembers, MaxWaitlist} \subseteq Nat \ {0}
  /\ {MaxUses, MaxOrder, MaxListing, MaxAdmits} \subseteq Nat
  /\ Serial \in BOOLEAN

VARIABLES
  member,     \* the membership of each user
  wait,       \* the waitlist entry of each user
  used,       \* usedCount of the invite
  adding,     \* addMember transactions that hold the lock of the group
  slots,      \* free slots an admission holding it has counted, or 0
  admits,     \* admissions left to setImmediate
  at,         \* where each user's leaveGroup stands,
  mine,       \* the membership it has read, and
  todo,       \* the memberships it has yet to shift
  touched,    \* the membership suspendMember or reinstateMember has read, if any
  listing,    \* where each user's joinWaitlist or leaveWaitlist stands, and
  place,      \* the position it has found
  missed,     \* users waiting whom no departure will have admitted
  mixed       \* a leave has taken somebody else's order for its own

lockVars == <<adding, slots>>
leaveVars == <<at, mine, todo>>
listVars == <<listing, place>>
vars == <<member, wait, used, adding, slots, admits, at, mine,
          todo, touched, listing, place, missed, mixed>>

-----------------------------------------------------------------------------
NoOrder == -1  \* payoutOrder is null
Orders == 0 .. MaxOrder \cup {NoOrder}
Gens == 0 .. Cardinality(Users) + 2
NoRow == [gen |-> 0, order |-> NoOrder]
Rows == [gen : Gens, order : Orders]
NotListed == [state |-> "none", position |-> 0]
Ended == [state |-> "ended", position |-> 0]  \* ADMITTED or CANCELLED

\* Users are alike.
AnyUser == Permutations(Users)

Members == {u \in Users : member[u] # NoRow}
Waiting == {u \in Users : wait[u].state = "WAITING"}
Full == Cardinality(Members) >= MaxMembers

\* A comparison takes null for 0.
Rank(order) == IF order = NoOrder THEN 0 ELSE order

\* usedCount of the invite.
GroupInvite == 0 .. MaxUses

TypeOK ==
  /\ member \in [Users -> Rows] /\ mine \in [Users -> Rows]
  /\ wait \in [Users -> [state : {"none", "WAITING", "ended"},
                         position : 0 .. MaxWaitlist]]
  /\ used \in GroupInvite
  /\ adding \in SUBSET Users /\ slots \in 0 .. MaxMembers
  /\ admits \in 0 .. MaxAdmits
  /\ at \in [Users -> {"idle", "delete", "list", "shift"}]
  /\ todo \in [Users -> SUBSET [who : Users, row : Rows]]
  /\ touched \in SUBSET [who : Users, row : Rows]
  /\ listing \in [Users -> {"idle", "join", "cancel", "shift"}]
  /\ place \in [Users -> 0 .. MaxWaitlist]
  /\ missed \in SUBSET Users /\ mixed \in BOOLEAN

Init ==
  /\ member = [u \in Users |-> NoRow] /\ mine = [u \in Users |-> NoRow]
  /\ wait = [u \in Users |-> NotListed]
  /\ used = 0
  /\ adding = {} /\ slots = 0
  /\ admits = 0
  /\ at = [u \in Users |-> "idle"]
  /\ todo = [u \in Users |-> {}]
  /\ touched = {}
  /\ listing = [u \in Users |-> "idle"] /\ place = [u \in Users |-> 0]
  /\ missed = {} /\ mixed = FALSE

-----------------------------------------------------------------------------
(* Rows of memberships *)

\* n is MAX(payoutOrder) + 1, 0 for the first.
NextOrder(n) ==
  /\ \A u \in Users : member[u].order < n
  /\ n = 0 \/ \E u \in Users : member[u].order = n - 1

\* What handlers that have read memberships hold of u's.
Held(u) ==
  {mine[v].gen : v \in {w \in {u} : at[w] = "delete"}}
  \cup UNION {{e.row.gen : e \in {f \in todo[v] : f.who = u}} : v \in Users}
  \cup {e.row.gen : e \in {f \in touched : f.who = u}}

\* The ids a new membership of u may get.
Fresh(u) == Gens \ ({0} \cup Held(u))

\* Memberships are inserted for the users of orders, at its orders.  A leave
\* that has yet to list them takes them for members it left behind.
Insert(orders) ==
  /\ \A u \in DOMAIN orders : orders[u] <= MaxOrder /\ Fresh(u) # {}
  /\ member' = [u \in Users |-> IF u \in DOMAIN orders
                                THEN [gen |-> CHOOSE g \in Fresh(u) : TRUE, order |-> orders[u]]
                                ELSE member[u]]
  /\ mixed' = (mixed \/ \E u \in Users : at[u] = "list")

\* save(): an entity whose row has been deleted is inserted again, which the
\* unique (groupId, userId) refuses if the user has another row by now.
CanSave(u, row) == member[u] = NoRow \/ member[u].gen = row.gen
Put(u, row) == member' = [member EXCEPT ![u] = row]

\* A leave, a suspension or a reinstatement is between its reads and its writes.
Leaving == {u \in Users : at[u] # "idle"}
Busy == touched # {} \/ Leaving # {}
Idle == Serial => ~Busy

\* setImmediate(() => admitFromWaitlist(groupId))
Schedule == admits < MaxAdmits /\ admits' = admits + 1

LockFree == adding = {} /\ slots = 0

-----------------------------------------------------------------------------
(* addMember and joinByCode *)

\* Mutation of AddCheck: the row of the group is not locked.
AddCheckUnlocked(u) ==
  /\ ~Full /\ u \notin Members
  /\ adding' = adding \cup {u}
  /\ UNCHANGED <<used, member, wait, slots, admits, leaveVars, touched, listVars, missed, mixed>>

\* Capacity and membership are checked under the lock.
AddCheck(u) ==
  /\ LockFree
  /\ ~Full /\ u \notin Members
  /\ adding' = adding \cup {u}
  /\ UNCHANGED <<used, member, wait, slots, admits, leaveVars, touched, listVars, missed, mixed>>

\* The insert is rolled back if the user has become a member meanwhile.
AddCommit(u) ==
  /\ u \in adding /\ adding' = adding \ {u}
  /\ IF u \in Members THEN UNCHANGED <<member, mixed>> 
     ELSE \E n \in 0 .. MaxOrder : NextOrder(n) /\ Insert([v \in {u} |-> n])
  /\ UNCHANGED <<used, wait, slots, admits, leaveVars, touched, listVars, missed>>

\* Only the row of the invite is locked; neither the capacity nor the status
\* of the group is looked at, and no payout order is given.
JoinByCode(u) ==
  /\ used < MaxUses /\ used' = used + 1
  /\ u \notin Members
  /\ Insert([v \in {u} |-> NoOrder])
  /\ UNCHANGED <<wait, lockVars, admits, leaveVars, touched, listVars, missed>>

-----------------------------------------------------------------------------
(* removeMember, leaveGroup, suspendMember and reinstateMember *)

\* Mutation of RemoveMember: nobody is admitted in the member's place.
RemoveOnly(u) ==
  /\ Idle /\ u \in Members
  /\ Put(u, NoRow)
  /\ UNCHANGED <<used, wait, lockVars, admits, leaveVars, touched, listVars, missed, mixed>>

\* The row is deleted by its id, and an admission scheduled.
RemoveMember(u) ==
  /\ Idle /\ u \in Members
  /\ Put(u, NoRow)
  /\ Schedule
  /\ UNCHANGED <<used, wait, lockVars, leaveVars, touched, listVars, missed, mixed>>

LeaveFind(u) ==
  /\ at[u] = "idle" /\ at' = [at EXCEPT ![u] = "delete"]
  /\ Idle /\ u \in Members
  /\ mine' = [mine EXCEPT ![u] = member[u]]
  /\ mixed' = (mixed \/ member[u].order = NoOrder)
  /\ UNCHANGED <<used, member, wait, lockVars, admits, todo, touched, listVars, missed>>

LeaveDelete(u) ==
  /\ at[u] = "delete" /\ at' = [at EXCEPT ![u] = "list"]
  /\ Put(u, IF member[u].gen = mine[u].gen THEN NoRow ELSE member[u])
  /\ Schedule
  /\ UNCHANGED <<used, wait, lockVars, mine, todo, touched, listVars, missed, mixed>>

\* The members behind the one who has left.
LeaveList(u) ==
  LET list == {[who |-> v, row |-> member[v]] :
                 v \in {w \in Members : Rank(member[w].order) > Rank(mine[u].order)}}
  IN
  /\ at[u] = "list"
  /\ at' = [at EXCEPT ![u] = IF list = {} THEN "idle" ELSE "shift"]
  /\ todo' = [todo EXCEPT ![u] = list]
  /\ mine' = [mine EXCEPT ![u] = NoRow]
  /\ UNCHANGED <<used, member, wait, lockVars, admits, touched, listVars, missed, mixed>>

\* The first of them in their order moves up; a save that is refused ends the
\* handler.
LeaveShift(u) ==
  /\ at[u] = "shift"
  /\ \E next \in todo[u] :
       LET row == [next.row EXCEPT !.order = @ - 1]
           ok == CanSave(next.who, row)
           rest == IF ok THEN todo[u] \ {next} ELSE {}
       IN
       /\ \A e \in todo[u] : next.row.order <= e.row.order
       /\ at' = [at EXCEPT ![u] = IF rest = {} THEN "idle" ELSE "shift"]
       /\ todo' = [todo EXCEPT ![u] = rest]
       /\ Put(next.who, IF ok THEN row ELSE member[next.who])
  /\ UNCHANGED <<used, wait, lockVars, admits, mine, touched, listVars, missed, mixed>>

TouchFind(u) ==
  /\ Idle /\ touched = {} /\ u \in Members
  /\ touched' = {[who |-> u, row |-> member[u]]}
  /\ UNCHANGED <<used, member, wait, lockVars, admits, leaveVars, listVars, missed, mixed>>

\* The new status apart, which nothing here depends on, the membership goes
\* back as it was read; a suspension schedules an admission.
TouchSave ==
  /\ \E e \in touched :
       IF CanSave(e.who, e.row)
       THEN Put(e.who, e.row) /\ (Schedule \/ UNCHANGED admits)
       ELSE UNCHANGED <<member, admits>>
  /\ touched' = {}
  /\ UNCHANGED <<used, wait, lockVars, leaveVars, listVars, missed, mixed>>

-----------------------------------------------------------------------------
(* WaitlistService *)

\* The free slots are counted under the lock; the status of the group is not
\* looked at.
AdmitCheck ==
  /\ admits > 0 /\ admits' = admits - 1
  /\ LockFree
  /\ slots' = IF Full \/ Waiting = {} THEN 0 ELSE MaxMembers - Cardinality(Members)
  /\ UNCHANGED <<used, member, wait, adding, leaveVars, touched, listVars, missed, mixed>>

\* The ranks that the first n of the waiting can take, by position.
Queues(n) ==
  {queue \in UNION {[chosen -> 1 .. n] : chosen \in kSubset(n, Waiting)} :
     /\ \A u, v \in DOMAIN queue : queue[u] = queue[v] => u = v
     /\ \A u \in DOMAIN queue, v \in Waiting :
          wait[v].position < wait[u].position => v \in DOMAIN queue /\ queue[v] < queue[u]}

\* All are admitted, or, when one of them is a member already, none.
AdmitCommit ==
  /\ slots > 0 /\ slots' = 0
  /\ \E queue \in Queues(Min({slots, Cardinality(Waiting)})) :
       IF DOMAIN queue \cap Members # {}
       THEN missed' = missed \cup Waiting /\ UNCHANGED <<member, wait, mixed>>
       ELSE /\ \E n \in 0 .. MaxOrder :
                 NextOrder(n) /\ Insert([u \in DOMAIN queue |-> n + queue[u] - 1])
            /\ wait' = [u \in Users |-> IF u \in DOMAIN queue
                                        THEN Ended ELSE wait[u]]
            /\ missed' = missed \ DOMAIN queue
  /\ UNCHANGED <<used, adding, admits, leaveVars, touched, listVars>>

MayList == Cardinality({u \in Users : listing[u] # "idle"}) < MaxListing

List(u, from, to) == listing[u] = from /\ listing' = [listing EXCEPT ![u] = to]

JoinCheck(u) ==
  /\ MayList /\ List(u, "idle", "join")
  /\ Full /\ u \notin Members \cup Waiting /\ Cardinality(Waiting) < MaxWaitlist
  /\ place' = [place EXCEPT ![u] = Cardinality(Waiting) + 1]
  /\ UNCHANGED <<used, member, wait, lockVars, admits, leaveVars, touched, missed, mixed>>

\* (groupId, userId) is unique among the entries of any status.
JoinSave(u) ==
  /\ List(u, "join", "idle")
  /\ wait' = IF wait[u] # NotListed THEN wait
             ELSE [wait EXCEPT ![u] = [state |-> "WAITING", position |-> place[u]]]
  /\ place' = [place EXCEPT ![u] = 0]
  /\ missed' = IF Full THEN missed ELSE missed \cup {u}
  /\ UNCHANGED <<used, member, lockVars, admits, leaveVars, touched, mixed>>

CancelFind(u) ==
  /\ MayList /\ List(u, "idle", "cancel") /\ u \in Waiting
  /\ place' = [place EXCEPT ![u] = wait[u].position]
  /\ UNCHANGED <<used, member, wait, lockVars, admits, leaveVars, touched, missed, mixed>>

\* Whatever the entry has become meanwhile.
CancelSave(u) ==
  /\ List(u, "cancel", "shift")
  /\ wait' = [wait EXCEPT ![u] = Ended]
  /\ missed' = missed \ {u}
  /\ UNCHANGED <<used, member, lockVars, admits, leaveVars, touched, place, mixed>>

\* One UPDATE moves up those who wait behind.
CancelShift(u) ==
  /\ List(u, "shift", "idle")
  /\ wait' = [v \in Users |-> IF v \in Waiting /\ wait[v].position > place[u]
                              THEN [wait[v] EXCEPT !.position = @ - 1] ELSE wait[v]]
  /\ place' = [place EXCEPT ![u] = 0]
  /\ UNCHANGED <<used, member, lockVars, admits, leaveVars, touched, missed, mixed>>

-----------------------------------------------------------------------------
\* The process dies: its handlers end where they are, its transactions are
\* rolled back, and what it left to setImmediate is lost.
Crash ==
  /\ at' = [u \in Users |-> "idle"]
  /\ mine' = [u \in Users |-> NoRow] /\ todo' = [u \in Users |-> {}]
  /\ touched' = {}
  /\ listing' = [u \in Users |-> "idle"] /\ place' = [u \in Users |-> 0]
  /\ adding' = {} /\ slots' = 0 /\ admits' = 0
  /\ missed' = missed \cup Waiting
  /\ UNCHANGED <<used, member, wait, mixed>>

-----------------------------------------------------------------------------
Continue(u) ==
  AddCommit(u) \/ LeaveDelete(u) \/ LeaveList(u) \/ LeaveShift(u)
  \/ JoinSave(u) \/ CancelSave(u) \/ CancelShift(u)

\* What users and administrators ask for.
MembersRequest(u) == AddCheck(u) \/ RemoveMember(u)
InviteRequest(u) == JoinByCode(u)
WaitlistRequest(u) == JoinCheck(u) \/ CancelFind(u)

Next ==
  \/ \E u \in Users : MembersRequest(u) \/ InviteRequest(u) \/ WaitlistRequest(u)
                      \/ LeaveFind(u) \/ TouchFind(u) \/ Continue(u)
  \/ TouchSave \/ AdmitCheck \/ AdmitCommit
  \/ Crash

Spec == Init /\ [][Next]_vars

-----------------------------------------------------------------------------
(* Members with a payout order, that is all that were not invited, never
   exceed the group's capacity, however additions, admissions, departures and
   suspensions are interleaved ("so this cannot race waitlist admission past
   maxMembers"), unless handlers that lock nothing overlap: a leave saves again
   a member who is removed meanwhile. *)
CapacityHolds ==
  Serial => Cardinality({u \in Members : member[u].order # NoOrder}) <= MaxMembers

(* Nor have two of them one payout order: additions and admissions count from
   the maximum while a leave is moving members up one by one, unless they come
   between its delete and its list. *)
OrdersDistinct ==
  Serial /\ ~mixed => \A u, v \in Members :
    u # v /\ member[u].order # NoOrder => member[u].order # member[v].order

(* While a slot is free and users wait, an admission is on its way, of those
   that every departure schedules, except for users whose entry was saved
   after the slot was freed, those in one batch with a user who had become a
   member otherwise, and those whose admission a crash has lost. *)
NobodyIsForgotten ==
  Waiting \subseteq missed \/ Full \/ admits > 0 \/ slots > 0

(* No addition, admission or departure, however they interleave, leaves a group
   with more members than places or with one payout order twice
   (MembershipsService, WaitlistService, joinByCode). *)
PlacesAndOrdersHold == TypeOK /\ CapacityHolds /\ OrdersDistinct

(* A group of SEQUENTIAL order has no two members with one payout order, who
   would be due in one round: a leave "removes it, and re-sequences the
   payoutOrder for remaining members". *)
OneMemberPerOrder ==
  \A u, v \in Members : u # v /\ member[u].order # NoOrder => member[u].order # member[v].order
=============================================================================
