---------------------- MODULE MembershipWaitlistProofs ----------------------
(* Nobody who waits is forgotten, and no addition, admission or departure   *)
(* overfills a group or gives an order twice: the inductive invariants and  *)
(* their proofs.                                                            *)
EXTENDS MembershipWaitlist, FiniteSetTheorems, TLAPS

Ordered == {u \in Users : member[u].order # NoOrder}
Entries == [who : Users, row : Rows]

\* A membership has an id, and so have those that handlers hold; a leave only
\* holds memberships behind an order.
RowsAreReal ==
  /\ \A u \in Users : member[u].gen = 0 => member[u] = NoRow
  /\ \A e \in touched : e.row.gen # 0
  /\ \A u \in Users : \A e \in todo[u] : e.row.gen # 0 /\ e.row.order >= 1

\* The lock of the group's row: one addition, or one admission.
LockHolds ==
  /\ \A u, v \in adding : u = v
  /\ slots > 0 => adding = {}

\* Slots counted under the lock are those that are free, or more have come free
\* since and another admission is on its way.
SlotsAreFree ==
  slots > 0 => admits > 0 \/ Cardinality(Members) + slots >= MaxMembers

WaitInv == TypeOK /\ RowsAreReal /\ LockHolds /\ SlotsAreFree /\ NobodyIsForgotten

\* Departures and suspensions one at a time: what a handler has read is what the
\* table holds.
OneAtATime ==
  /\ \A u, v \in Leaving : u = v
  /\ touched # {} => Leaving = {}
  /\ \A e, f \in touched : e = f
  /\ \A e \in touched : member[e.who] = e.row
  /\ \A u \in Users : at[u] = "delete" => member[u] = mine[u] /\ mine[u].gen # 0
  /\ \A u \in Users : \A e \in todo[u] : at[u] = "shift" /\ member[e.who] = e.row

\* Places are kept for who is being added or admitted.
PlacesAreKept == Cardinality(Ordered) + slots + Cardinality(adding) <= MaxMembers

PlacesInv == Serial => OneAtATime /\ PlacesAreKept

\* The order a leave has freed is free until the next member has moved up, and
\* below a member who is to move up stands nobody but another of them.
GapIsFree ==
  /\ \A u \in Users : at[u] \in {"delete", "list"} => mine[u].order # NoOrder
  /\ \A u, v \in Users : at[u] = "list" => member[v].order # mine[u].order
  /\ \A u, v \in Users : \A e \in todo[u] :
       member[v].order = e.row.order - 1 => \E f \in todo[u] : f.who = v

OrderInv == Serial /\ ~mixed => OrdersDistinct /\ GapIsFree

MembersInv == WaitInv /\ PlacesInv /\ OrderInv

-----------------------------------------------------------------------------
(* Sets of users and rows. *)

LEMMA NumbersAre ==
  /\ MaxMembers \in Nat \ {0} /\ MaxWaitlist \in Nat \ {0}
  /\ MaxUses \in Nat /\ MaxOrder \in Nat /\ MaxAdmits \in Nat
  /\ Cardinality(Users) \in Nat
BY NumbersAssumption, FS_CardinalityType

LEMMA UsersFinite ==
  ASSUME NEW S, S \subseteq Users
  PROVE  IsFiniteSet(S) /\ Cardinality(S) \in Nat
<1>1. IsFiniteSet(S)
  BY FS_Subset, NumbersAssumption
<1> QED
  BY <1>1, FS_CardinalityType

LEMMA OneMore ==
  ASSUME NEW S, S \subseteq Users, NEW u \in Users, u \notin S
  PROVE  Cardinality(S \cup {u}) = Cardinality(S) + 1
BY UsersFinite, FS_AddElement

LEMMA NoMore ==
  ASSUME NEW S, S \subseteq Users, NEW T, T \subseteq S
  PROVE  Cardinality(T) <= Cardinality(S)
BY UsersFinite, FS_Subset

LEMMA Sum ==
  ASSUME NEW S, S \subseteq Users, NEW T, T \subseteq Users, S \cap T = {}
  PROVE  Cardinality(S \cup T) = Cardinality(S) + Cardinality(T)
<1>1. Cardinality(S \cup T) = Cardinality(S) + Cardinality(T) - Cardinality(S \cap T)
  BY UsersFinite, FS_Union
<1> QED
  BY <1>1, UsersFinite, FS_EmptySet

\* A list taken to its full length.
LEMMA WholeList ==
  ASSUME NEW S, S \subseteq Users, NEW T, T \subseteq S, Cardinality(T) = Cardinality(S)
  PROVE  T = S
BY UsersFinite, FS_Subset

LEMMA LesserOf ==
  ASSUME NEW m \in Nat, NEW n \in Nat
  PROVE  Min({m, n}) \in {m, n} /\ Min({m, n}) <= m /\ Min({m, n}) <= n
<1>1. \E x \in {m, n} : \A y \in {m, n} : x <= y
  BY SMT
<1> QED
  BY <1>1 DEF Min

LEMMA RealRow ==
  ASSUME NEW r \in Rows, r.gen # 0
  PROVE  r # NoRow
BY DEF NoRow

LEMMA NoRowIsRow == NoRow \in Rows /\ NoRow.gen = 0 /\ NoRow.order = NoOrder
BY NumbersAre DEF NoRow, Rows, Gens, Orders, NoOrder

\* What an insert leaves.
LEMMA Inserted ==
  ASSUME TypeOK, RowsAreReal, NEW orders, DOMAIN orders \subseteq Users,
         \A u \in DOMAIN orders : orders[u] \in Nat \cup {NoOrder},
         Insert(orders)
  PROVE  /\ member' \in [Users -> Rows]
         /\ \A u \in DOMAIN orders : member'[u].gen # 0 /\ member'[u].order = orders[u]
         /\ \A u \in Users \ DOMAIN orders : member'[u] = member[u]
         /\ mixed' \in BOOLEAN /\ (mixed => mixed')
         /\ (\E u \in Users : at[u] = "list") => mixed'
<1>1. ASSUME NEW u \in DOMAIN orders
      PROVE  /\ member'[u].gen \in Gens \ {0} /\ member'[u].order = orders[u]
             /\ member'[u] \in Rows
  <2>1. (CHOOSE g \in Fresh(u) : TRUE) \in Fresh(u)
    BY <1>1 DEF Insert
  <2>2. member'[u] = [gen |-> CHOOSE g \in Fresh(u) : TRUE, order |-> orders[u]]
    BY <1>1 DEF Insert
  <2>3. orders[u] \in Orders
    BY <1>1, NumbersAre DEF Insert, Orders
  <2> QED
    BY <2>1, <2>2, <2>3 DEF Fresh, Rows
<1>2. \A u \in Users \ DOMAIN orders : member'[u] = member[u]
  BY DEF Insert
<1>3. member' \in [Users -> Rows]
  BY <1>1, <1>2 DEF Insert, TypeOK
<1>4. mixed' = (mixed \/ \E u \in Users : at[u] = "list") /\ mixed \in BOOLEAN
  BY DEF Insert, TypeOK
<1> QED
  BY <1>1, <1>2, <1>3, <1>4

-----------------------------------------------------------------------------
(* Types, ids, the lock, and those who wait. *)

USE DEF lockVars, leaveVars, listVars

LEMMA MembersAre ==
  ASSUME TypeOK
  PROVE  /\ Members \subseteq Users /\ Waiting \subseteq Users /\ Ordered \subseteq Users
         /\ Cardinality(Members) \in Nat /\ Cardinality(Waiting) \in Nat
BY UsersFinite DEF Members, Waiting, Ordered

\* No step that keeps the members, or schedules an admission, and lists nobody
\* but those the code does not promise a place, forgets anybody.
LEMMA NobodyLost ==
  ASSUME WaitInv, TypeOK', slots' = slots,
         admits' > 0 \/ (admits' = admits /\ Members \subseteq Members'),
         Full' \/ \A w \in Waiting' : w \in missed' \/ w \in Waiting \ missed
  PROVE  SlotsAreFree' /\ NobodyIsForgotten'
<1>0. Members \subseteq Users /\ Members' \subseteq Users
  BY DEF Members
<1>1. Cardinality(Members) \in Nat /\ Cardinality(Members') \in Nat
      /\ admits \in Nat /\ admits' \in Nat /\ slots \in Nat /\ MaxMembers \in Nat
  BY <1>0, UsersFinite, NumbersAre DEF WaitInv, TypeOK
<1>2. CASE admits' > 0
  BY <1>2 DEF SlotsAreFree, NobodyIsForgotten
<1>3. CASE admits' = admits /\ Members \subseteq Members'
  <2>1. Cardinality(Members) <= Cardinality(Members')
    BY <1>0, <1>3, NoMore
  <2>2. SlotsAreFree'
    BY <1>1, <1>3, <2>1 DEF WaitInv, SlotsAreFree
  <2>3. Full => Full'
    BY <1>1, <2>1 DEF Full
  <2>4. NobodyIsForgotten'
    BY <1>3, <2>3 DEF WaitInv, NobodyIsForgotten
  <2> QED
    BY <2>2, <2>4
<1> QED
  BY <1>2, <1>3

LEMMA AddCheckWaits ==
  ASSUME WaitInv, NEW u \in Users, AddCheck(u)
  PROVE  WaitInv'
<1>1. TypeOK'
  BY DEF AddCheck, WaitInv, TypeOK
<1>2. RowsAreReal' /\ LockHolds'
  BY DEF AddCheck, LockFree, WaitInv, RowsAreReal, LockHolds
<1>3. SlotsAreFree' /\ NobodyIsForgotten'
  BY DEF AddCheck, WaitInv, SlotsAreFree, NobodyIsForgotten, Full, Members, Waiting
<1> QED
  BY <1>1, <1>2, <1>3 DEF WaitInv

\* A row that is inserted.
LEMMA InsertWaits ==
  ASSUME WaitInv, NEW u \in Users, NEW n \in Nat \cup {NoOrder}, u \notin Members,
         Insert([v \in {u} |-> n])
  PROVE  /\ member' \in [Users -> Rows] /\ mixed' \in BOOLEAN
         /\ \A v \in Users : member'[v].gen = 0 => member'[v] = NoRow
         /\ Members' = Members \cup {u}
         /\ \A v \in Users \ {u} : member'[v] = member[v]
         /\ member'[u].order = n
<1> DEFINE orders == [v \in {u} |-> n]
<1>1. DOMAIN orders = {u} /\ orders[u] = n
  OBVIOUS
<1>2. /\ member' \in [Users -> Rows] /\ mixed' \in BOOLEAN
      /\ member'[u].gen # 0 /\ member'[u].order = n
      /\ \A v \in Users \ {u} : member'[v] = member[v]
  <2>1. \A v \in DOMAIN orders : orders[v] \in Nat \cup {NoOrder}
    BY <1>1
  <2>2. DOMAIN orders \subseteq Users
    BY <1>1
  <2>3. Insert(orders)
    OBVIOUS
  <2> HIDE DEF orders
  <2> QED
    BY <1>1, <2>1, <2>2, <2>3, Inserted DEF WaitInv
<1>3. member'[u] # NoRow
  BY <1>2, RealRow
<1>4. Members' = Members \cup {u}
  BY <1>2, <1>3 DEF Members
<1> QED
  BY <1>2, <1>3, <1>4 DEF WaitInv, RowsAreReal

LEMMA AddCommitWaits ==
  ASSUME WaitInv, NEW u \in Users, AddCommit(u)
  PROVE  WaitInv'
<1>1. /\ member' \in [Users -> Rows] /\ mixed' \in BOOLEAN
      /\ \A v \in Users : member'[v].gen = 0 => member'[v] = NoRow
      /\ Members \subseteq Members'
  <2>1. CASE u \in Members
    BY <2>1 DEF AddCommit, WaitInv, TypeOK, RowsAreReal, Members
  <2>2. CASE u \notin Members
    BY <2>2, InsertWaits DEF AddCommit
  <2> QED
    BY <2>1, <2>2
<1>2. TypeOK'
  BY <1>1 DEF AddCommit, WaitInv, TypeOK
<1>3. RowsAreReal' /\ LockHolds'
  BY <1>1 DEF AddCommit, WaitInv, RowsAreReal, LockHolds
<1>4. slots' = slots /\ admits' = admits /\ Waiting' = Waiting /\ missed' = missed
  BY DEF AddCommit, Waiting
<1>5. Full' \/ \A w \in Waiting' : w \in missed' \/ w \in Waiting \ missed
  BY <1>4
<1> QED
  BY <1>1, <1>2, <1>3, <1>4, <1>5, NobodyLost DEF WaitInv

LEMMA JoinByCodeWaits ==
  ASSUME WaitInv, NEW u \in Users, JoinByCode(u)
  PROVE  WaitInv'
<1>1. /\ member' \in [Users -> Rows] /\ mixed' \in BOOLEAN
      /\ \A v \in Users : member'[v].gen = 0 => member'[v] = NoRow
      /\ Members \subseteq Members'
  BY InsertWaits DEF JoinByCode
<1>2. TypeOK'
  BY <1>1, NumbersAre DEF JoinByCode, WaitInv, TypeOK, GroupInvite
<1>3. RowsAreReal' /\ LockHolds'
  BY <1>1 DEF JoinByCode, WaitInv, RowsAreReal, LockHolds
<1>4. slots' = slots /\ admits' = admits /\ Waiting' = Waiting /\ missed' = missed
  BY DEF JoinByCode, Waiting
<1>5. Full' \/ \A w \in Waiting' : w \in missed' \/ w \in Waiting \ missed
  BY <1>4
<1> QED
  BY <1>1, <1>2, <1>3, <1>4, <1>5, NobodyLost DEF WaitInv

\* A row that is saved or deleted.
LEMMA PutIs ==
  ASSUME TypeOK, NEW u \in Users, NEW r \in Rows, Put(u, r)
  PROVE  /\ member' \in [Users -> Rows] /\ member'[u] = r
         /\ \A v \in Users \ {u} : member'[v] = member[v]
BY DEF Put, TypeOK

LEMMA RemoveWaits ==
  ASSUME WaitInv, NEW u \in Users, RemoveMember(u)
  PROVE  WaitInv'
<1>1. /\ member' \in [Users -> Rows] /\ member'[u] = NoRow
      /\ \A v \in Users \ {u} : member'[v] = member[v]
  BY PutIs, NoRowIsRow DEF RemoveMember, WaitInv
<1>2. admits' \in 1 .. MaxAdmits
  BY NumbersAre DEF RemoveMember, Schedule, WaitInv, TypeOK
<1>3. TypeOK'
  BY <1>1, <1>2 DEF RemoveMember, WaitInv, TypeOK
<1>4. RowsAreReal' /\ LockHolds'
  BY <1>1 DEF RemoveMember, WaitInv, RowsAreReal, LockHolds
<1>5. SlotsAreFree' /\ NobodyIsForgotten'
  BY <1>2 DEF SlotsAreFree, NobodyIsForgotten
<1> QED
  BY <1>3, <1>4, <1>5 DEF WaitInv

LEMMA LeaveFindWaits ==
  ASSUME WaitInv, NEW u \in Users, LeaveFind(u)
  PROVE  WaitInv'
<1>1. TypeOK'
  BY DEF LeaveFind, WaitInv, TypeOK
<1>2. RowsAreReal' /\ LockHolds'
  BY DEF LeaveFind, WaitInv, RowsAreReal, LockHolds
<1>3. SlotsAreFree' /\ NobodyIsForgotten'
  BY DEF LeaveFind, WaitInv, SlotsAreFree, NobodyIsForgotten, Full, Members, Waiting
<1> QED
  BY <1>1, <1>2, <1>3 DEF WaitInv

LEMMA LeaveDeleteWaits ==
  ASSUME WaitInv, NEW u \in Users, LeaveDelete(u)
  PROVE  WaitInv'
<1> DEFINE r == IF member[u].gen = mine[u].gen THEN NoRow ELSE member[u]
<1>1. r \in Rows /\ (r.gen = 0 => r = NoRow)
  BY NoRowIsRow DEF WaitInv, TypeOK, RowsAreReal
<1>2. Put(u, r)
  BY DEF LeaveDelete
<1> HIDE DEF r
<1>3. /\ member' \in [Users -> Rows] /\ member'[u] = r
      /\ \A v \in Users \ {u} : member'[v] = member[v]
  BY <1>1, <1>2, PutIs DEF WaitInv
<1>4. admits' \in 1 .. MaxAdmits
  BY NumbersAre DEF LeaveDelete, Schedule, WaitInv, TypeOK
<1>5. TypeOK'
  <2>1. at' \in [Users -> {"idle", "delete", "list", "shift"}]
    BY DEF LeaveDelete, WaitInv, TypeOK
  <2>2. UNCHANGED <<used, wait, lockVars, mine, todo, touched, listVars, missed, mixed>>
    BY DEF LeaveDelete
  <2> QED
    BY <1>3, <1>4, <2>1, <2>2 DEF WaitInv, TypeOK
<1>6. RowsAreReal' /\ LockHolds'
  BY <1>1, <1>3 DEF LeaveDelete, WaitInv, RowsAreReal, LockHolds
<1>7. SlotsAreFree' /\ NobodyIsForgotten'
  BY <1>4 DEF SlotsAreFree, NobodyIsForgotten
<1> QED
  BY <1>5, <1>6, <1>7 DEF WaitInv

LEMMA LeaveListWaits ==
  ASSUME WaitInv, NEW u \in Users, LeaveList(u)
  PROVE  WaitInv'
<1> DEFINE list == {[who |-> v, row |-> member[v]] :
                      v \in {w \in Members : Rank(member[w].order) > Rank(mine[u].order)}}
<1>1. \A e \in list : e \in Entries /\ e.row.gen # 0 /\ e.row.order >= 1
  <2>1. ASSUME NEW v \in Members, Rank(member[v].order) > Rank(mine[u].order)
        PROVE  member[v] \in Rows /\ member[v].gen # 0 /\ member[v].order >= 1
    <3>1. v \in Users /\ member[v] \in Rows /\ mine[u] \in Rows
      BY DEF WaitInv, TypeOK, Members
    <3>2. member[v].gen # 0
      BY <3>1 DEF WaitInv, RowsAreReal, Members
    <3>3. Rank(mine[u].order) \in Nat /\ member[v].order \in Nat \cup {NoOrder}
      BY <3>1, NumbersAre DEF Rows, Rank, Orders
    <3> QED
      BY <2>1, <3>1, <3>2, <3>3 DEF Rank, NoOrder
  <2> QED
    BY <2>1 DEF Entries, Members
<1>2. /\ at' = [at EXCEPT ![u] = IF list = {} THEN "idle" ELSE "shift"]
      /\ todo' = [todo EXCEPT ![u] = list]
      /\ mine' = [mine EXCEPT ![u] = NoRow]
      /\ UNCHANGED <<used, member, wait, lockVars, admits, touched, listVars, missed, mixed>>
  BY DEF LeaveList
<1> HIDE DEF list
<1>3. TypeOK'
  <2>1. todo' \in [Users -> SUBSET Entries] /\ mine' \in [Users -> Rows]
    BY <1>1, <1>2, NoRowIsRow DEF WaitInv, TypeOK, Entries
  <2>2. at' \in [Users -> {"idle", "delete", "list", "shift"}]
    BY <1>2 DEF WaitInv, TypeOK
  <2> QED
    BY <1>2, <2>1, <2>2 DEF WaitInv, TypeOK, Entries
<1>4. RowsAreReal' /\ LockHolds'
  BY <1>1, <1>2 DEF WaitInv, TypeOK, RowsAreReal, LockHolds
<1>5. SlotsAreFree' /\ NobodyIsForgotten'
  BY <1>2 DEF WaitInv, SlotsAreFree, NobodyIsForgotten, Full, Members, Waiting
<1> QED
  BY <1>3, <1>4, <1>5 DEF WaitInv

\* What a leave saves of the next member, or leaves of it.
LEMMA ShiftIs ==
  ASSUME WaitInv, NEW u \in Users, NEW next \in todo[u]
  PROVE  LET row == [next.row EXCEPT !.order = @ - 1]
         IN  /\ next.who \in Users /\ row \in Rows
             /\ row.gen = next.row.gen /\ row.gen # 0 /\ row.order = next.row.order - 1
             /\ row.order \in Nat /\ next.row.order \in Nat
<1>1. next \in Entries
  BY DEF WaitInv, TypeOK, Entries
<1>2. next.row \in Rows /\ next.row.gen # 0 /\ next.row.order >= 1 /\ next.who \in Users
  BY <1>1 DEF Entries, WaitInv, RowsAreReal
<1> QED
  BY <1>2, NumbersAre DEF Rows, Orders, NoOrder

LEMMA LeaveShiftWaits ==
  ASSUME WaitInv, NEW u \in Users, LeaveShift(u)
  PROVE  WaitInv'
<1>1. PICK next \in todo[u] :
        LET row == [next.row EXCEPT !.order = @ - 1]
            ok == CanSave(next.who, row)
            rest == IF ok THEN todo[u] \ {next} ELSE {}
        IN  /\ at' = [at EXCEPT ![u] = IF rest = {} THEN "idle" ELSE "shift"]
            /\ todo' = [todo EXCEPT ![u] = rest]
            /\ Put(next.who, IF ok THEN row ELSE member[next.who])
  BY DEF LeaveShift
<1> DEFINE row == [next.row EXCEPT !.order = @ - 1]
           ok == CanSave(next.who, row)
           rest == IF ok THEN todo[u] \ {next} ELSE {}
           put == IF ok THEN row ELSE member[next.who]
<1>2. next.who \in Users /\ row \in Rows /\ row.gen # 0
  BY ShiftIs
<1>3. put \in Rows /\ (put.gen = 0 => put = NoRow)
      /\ (member[next.who] # NoRow => put # NoRow)
  BY <1>2, RealRow DEF WaitInv, TypeOK, RowsAreReal
<1>4. /\ rest \subseteq todo[u]
      /\ at' = [at EXCEPT ![u] = IF rest = {} THEN "idle" ELSE "shift"]
      /\ todo' = [todo EXCEPT ![u] = rest]
      /\ Put(next.who, put)
  BY <1>1
<1> HIDE DEF row, ok, rest, put
<1>5. /\ member' \in [Users -> Rows] /\ member'[next.who] = put
      /\ \A v \in Users \ {next.who} : member'[v] = member[v]
  BY <1>2, <1>3, <1>4, PutIs DEF WaitInv
<1>6. UNCHANGED <<used, wait, lockVars, admits, mine, touched, listVars, missed, mixed>>
  BY DEF LeaveShift
<1>7. TypeOK'
  <2>1. todo' \in [Users -> SUBSET Entries]
    BY <1>4 DEF WaitInv, TypeOK, Entries
  <2>2. at' \in [Users -> {"idle", "delete", "list", "shift"}]
    BY <1>4 DEF WaitInv, TypeOK
  <2> QED
    BY <1>5, <1>6, <2>1, <2>2 DEF WaitInv, TypeOK, Entries
<1>8. RowsAreReal' /\ LockHolds'
  BY <1>3, <1>4, <1>5, <1>6 DEF WaitInv, TypeOK, RowsAreReal, LockHolds
<1>9. SlotsAreFree' /\ NobodyIsForgotten'
  <2>1. Members \subseteq Members'
    BY <1>3, <1>5 DEF Members
  <2>2. Waiting' = Waiting
    BY <1>6 DEF Waiting
  <2> QED
    BY <1>6, <1>7, <2>1, <2>2, NobodyLost
<1> QED
  BY <1>7, <1>8, <1>9 DEF WaitInv

LEMMA TouchFindWaits ==
  ASSUME WaitInv, NEW u \in Users, TouchFind(u)
  PROVE  WaitInv'
<1>1. member[u] \in Rows /\ member[u].gen # 0
  BY DEF TouchFind, WaitInv, TypeOK, RowsAreReal, Members
<1>2. TypeOK'
  BY <1>1 DEF TouchFind, WaitInv, TypeOK
<1>3. RowsAreReal' /\ LockHolds'
  BY <1>1 DEF TouchFind, WaitInv, RowsAreReal, LockHolds
<1>4. SlotsAreFree' /\ NobodyIsForgotten'
  BY DEF TouchFind, WaitInv, SlotsAreFree, NobodyIsForgotten, Full, Members, Waiting
<1> QED
  BY <1>2, <1>3, <1>4 DEF WaitInv

LEMMA TouchSaveWaits ==
  ASSUME WaitInv, TouchSave
  PROVE  WaitInv'
<1>1. PICK e \in touched : IF CanSave(e.who, e.row)
                           THEN Put(e.who, e.row) /\ (Schedule \/ UNCHANGED admits)
                           ELSE UNCHANGED <<member, admits>>
  BY DEF TouchSave
<1>2. e.who \in Users /\ e.row \in Rows /\ e.row.gen # 0
  BY DEF WaitInv, TypeOK, RowsAreReal
<1>3. /\ member' \in [Users -> Rows] /\ Members \subseteq Members'
      /\ \A v \in Users : member'[v].gen = 0 => member'[v] = NoRow
  <2>1. CASE Put(e.who, e.row)
    <3>1. /\ member' \in [Users -> Rows] /\ member'[e.who] = e.row
          /\ \A v \in Users \ {e.who} : member'[v] = member[v]
      BY <1>2, <2>1, PutIs DEF WaitInv
    <3> QED
      BY <1>2, <3>1, RealRow DEF Members, WaitInv, RowsAreReal
  <2>2. CASE member' = member
    BY <2>2 DEF Members, WaitInv, TypeOK, RowsAreReal
  <2> QED
    BY <1>1, <2>1, <2>2
<1>4. admits' \in 0 .. MaxAdmits /\ (admits' = admits \/ admits' > 0)
  BY <1>1, NumbersAre DEF Schedule, WaitInv, TypeOK
<1>5. UNCHANGED <<used, wait, lockVars, leaveVars, listVars, missed, mixed>> /\ touched' = {}
  BY DEF TouchSave
<1>6. TypeOK'
  BY <1>3, <1>4, <1>5 DEF WaitInv, TypeOK
<1>7. RowsAreReal' /\ LockHolds'
  BY <1>3, <1>5 DEF WaitInv, RowsAreReal, LockHolds
<1>8. SlotsAreFree' /\ NobodyIsForgotten'
  <2>1. Waiting' = Waiting
    BY <1>5 DEF Waiting
  <2> QED
    BY <1>3, <1>4, <1>5, <1>6, <2>1, NobodyLost
<1> QED
  BY <1>6, <1>7, <1>8 DEF WaitInv

LEMMA AdmitCheckWaits ==
  ASSUME WaitInv, AdmitCheck
  PROVE  WaitInv'
<1>1. Cardinality(Members) \in Nat /\ MaxMembers \in Nat
  BY MembersAre, NumbersAre DEF WaitInv
<1>2. /\ slots' \in 0 .. MaxMembers
      /\ slots' > 0 => Cardinality(Members) + slots' = MaxMembers
      /\ slots' > 0 \/ Full \/ Waiting = {}
  BY <1>1 DEF AdmitCheck, Full
<1>3. TypeOK'
  <2>1. /\ admits' \in 0 .. MaxAdmits
        /\ UNCHANGED <<used, member, wait, adding, leaveVars, touched, listVars, missed, mixed>>
    BY NumbersAre DEF AdmitCheck, WaitInv, TypeOK
  <2> QED
    BY <1>2, <2>1 DEF WaitInv, TypeOK
<1>4. RowsAreReal' /\ LockHolds'
  BY <1>2 DEF AdmitCheck, LockFree, WaitInv, RowsAreReal, LockHolds
<1>5. UNCHANGED <<member, wait, missed>> /\ Members' = Members /\ Waiting' = Waiting
  BY DEF AdmitCheck, Members, Waiting
<1>6. SlotsAreFree' /\ NobodyIsForgotten'
  BY <1>1, <1>2, <1>5 DEF SlotsAreFree, NobodyIsForgotten, Full
<1> QED
  BY <1>3, <1>4, <1>6 DEF WaitInv

\* Those who are admitted together, the first n in their order.
LEMMA QueuesAre ==
  ASSUME TypeOK, NEW n \in Nat, NEW queue \in Queues(n)
  PROVE  /\ DOMAIN queue \subseteq Waiting /\ Cardinality(DOMAIN queue) = n
         /\ \A u \in DOMAIN queue : queue[u] \in 1 .. n
         /\ \A u, v \in DOMAIN queue : queue[u] = queue[v] => u = v
<1>1. PICK chosen \in kSubset(n, Waiting) : queue \in [chosen -> 1 .. n]
  BY DEF Queues
<1>2. \A u, v \in DOMAIN queue : queue[u] = queue[v] => u = v
  BY DEF Queues
<1> QED
  BY <1>1, <1>2 DEF kSubset

\* An admission of everybody in the queue.
LEMMA Admitted ==
  ASSUME TypeOK, RowsAreReal, NEW n \in Nat, NEW queue \in Queues(n),
         DOMAIN queue \cap Members = {}, NEW first \in Nat,
         Insert([u \in DOMAIN queue |-> first + queue[u] - 1])
  PROVE  /\ member' \in [Users -> Rows] /\ mixed' \in BOOLEAN
         /\ \A v \in Users : member'[v].gen = 0 => member'[v] = NoRow
         /\ Members' = Members \cup DOMAIN queue
         /\ \A u \in DOMAIN queue : member'[u].order = first + queue[u] - 1
         /\ \A u \in Users \ DOMAIN queue : member'[u] = member[u]
         /\ mixed => mixed'
         /\ (\E u \in Users : at[u] = "list") => mixed'
<1> DEFINE orders == [u \in DOMAIN queue |-> first + queue[u] - 1]
<1>1. DOMAIN queue \subseteq Users /\ \A u \in DOMAIN queue : queue[u] \in 1 .. n
  BY QueuesAre, MembersAre
<1>2. /\ DOMAIN orders = DOMAIN queue
      /\ \A u \in DOMAIN queue : orders[u] = first + queue[u] - 1
      /\ \A u \in DOMAIN queue : orders[u] \in Nat
  BY <1>1
<1>3. Insert(orders)
  OBVIOUS
<1> HIDE DEF orders
<1>4. /\ member' \in [Users -> Rows]
      /\ \A u \in DOMAIN orders : member'[u].gen # 0 /\ member'[u].order = orders[u]
      /\ \A u \in Users \ DOMAIN orders : member'[u] = member[u]
      /\ mixed' \in BOOLEAN /\ (mixed => mixed')
      /\ (\E u \in Users : at[u] = "list") => mixed'
  BY <1>1, <1>2, <1>3, Inserted
<1>5. \A u \in DOMAIN queue : member'[u] # NoRow
  BY <1>1, <1>2, <1>4, RealRow
<1>6. Members' = Members \cup DOMAIN queue
  BY <1>1, <1>2, <1>4, <1>5 DEF Members
<1>7. \A v \in Users : member'[v].gen = 0 => member'[v] = NoRow
  BY <1>2, <1>4 DEF RowsAreReal
<1> QED
  BY <1>2, <1>4, <1>6, <1>7

LEMMA AdmitCommitWaits ==
  ASSUME WaitInv, AdmitCommit
  PROVE  WaitInv'
<1> DEFINE n == Min({slots, Cardinality(Waiting)})
<1>1. /\ slots \in Nat \ {0} /\ slots' = 0 /\ Cardinality(Waiting) \in Nat
      /\ MaxMembers \in Nat /\ Cardinality(Members) \in Nat /\ admits \in Nat
  BY MembersAre, NumbersAre DEF AdmitCommit, WaitInv, TypeOK
<1>2. n \in Nat /\ (n = slots \/ n = Cardinality(Waiting)) /\ n <= slots
  BY <1>1, LesserOf
<1>3. PICK queue \in Queues(n) :
        IF DOMAIN queue \cap Members # {}
        THEN missed' = missed \cup Waiting /\ UNCHANGED <<member, wait, mixed>>
        ELSE /\ \E first \in 0 .. MaxOrder :
                  NextOrder(first) /\ Insert([u \in DOMAIN queue |-> first + queue[u] - 1])
             /\ wait' = [u \in Users |-> IF u \in DOMAIN queue THEN Ended ELSE wait[u]]
             /\ missed' = missed \ DOMAIN queue
  BY DEF AdmitCommit
<1> HIDE DEF n
<1>4. /\ DOMAIN queue \subseteq Waiting /\ Cardinality(DOMAIN queue) = n
  BY <1>2, <1>3, QueuesAre DEF WaitInv
<1>5. UNCHANGED <<used, adding, admits, leaveVars, touched, listVars>>
  BY DEF AdmitCommit
<1>6. CASE DOMAIN queue \cap Members # {}
  <2>1. missed' = missed \cup Waiting /\ UNCHANGED <<member, wait, mixed>>
    BY <1>3, <1>6
  <2>2. TypeOK'
    BY <1>1, <1>5, <2>1, MembersAre DEF WaitInv, TypeOK
  <2>3. RowsAreReal' /\ LockHolds' /\ SlotsAreFree'
    BY <1>1, <1>5, <2>1 DEF WaitInv, RowsAreReal, LockHolds, SlotsAreFree
  <2>4. NobodyIsForgotten'
    BY <2>1 DEF NobodyIsForgotten, Waiting
  <2> QED
    BY <2>2, <2>3, <2>4 DEF WaitInv
<1>7. CASE DOMAIN queue \cap Members = {}
  <2>1. PICK first \in 0 .. MaxOrder :
          NextOrder(first) /\ Insert([u \in DOMAIN queue |-> first + queue[u] - 1])
    BY <1>3, <1>7
  <2>2. /\ wait' = [u \in Users |-> IF u \in DOMAIN queue THEN Ended ELSE wait[u]]
        /\ missed' = missed \ DOMAIN queue
    BY <1>3, <1>7
  <2>3. first \in Nat
    BY NumbersAre
  <2>4. /\ member' \in [Users -> Rows] /\ mixed' \in BOOLEAN
        /\ \A v \in Users : member'[v].gen = 0 => member'[v] = NoRow
        /\ Members' = Members \cup DOMAIN queue
    BY <1>2, <1>3, <1>7, <2>1, <2>3, Admitted DEF WaitInv
  <2>5. Waiting' = Waiting \ DOMAIN queue
    BY <2>2 DEF Waiting, Ended
  <2>6. TypeOK'
    <3>1. wait' \in [Users -> [state : {"none", "WAITING", "ended"}, position : 0 .. MaxWaitlist]]
      <4>1. Ended \in [state : {"none", "WAITING", "ended"}, position : 0 .. MaxWaitlist]
        BY NumbersAre DEF Ended
      <4> QED
        BY <2>2, <4>1 DEF WaitInv, TypeOK
    <3>2. slots' \in 0 .. MaxMembers /\ missed' \in SUBSET Users
      BY <1>1, <2>2 DEF WaitInv, TypeOK
    <3> QED
      BY <1>5, <2>4, <3>1, <3>2 DEF WaitInv, TypeOK
  <2>7. RowsAreReal' /\ LockHolds' /\ SlotsAreFree'
    BY <1>1, <1>5, <2>4 DEF WaitInv, RowsAreReal, LockHolds, SlotsAreFree
  <2>8. NobodyIsForgotten'
    <3>1. CASE n = Cardinality(Waiting)
      <4>1. DOMAIN queue = Waiting
        BY <1>4, <3>1, WholeList, MembersAre DEF WaitInv
      <4> QED
        BY <2>5, <4>1 DEF NobodyIsForgotten
    <3>2. CASE n = slots
      <4>1. Cardinality(Members') = Cardinality(Members) + slots
        BY <1>4, <1>7, <2>4, <3>2, Sum, MembersAre DEF WaitInv
      <4>2. admits' > 0 \/ Full'
        BY <1>1, <1>5, <4>1 DEF WaitInv, SlotsAreFree, Full
      <4> QED
        BY <4>2 DEF NobodyIsForgotten
    <3> QED
      BY <1>2, <3>1, <3>2
  <2> QED
    BY <2>6, <2>7, <2>8 DEF WaitInv
<1> QED
  BY <1>6, <1>7

LEMMA JoinCheckWaits ==
  ASSUME WaitInv, NEW u \in Users, JoinCheck(u)
  PROVE  WaitInv'
<1>1. Cardinality(Waiting) + 1 \in 0 .. MaxWaitlist
  BY MembersAre, NumbersAre DEF JoinCheck, WaitInv
<1>2. TypeOK'
  BY <1>1 DEF JoinCheck, List, WaitInv, TypeOK
<1>3. RowsAreReal' /\ LockHolds'
  BY DEF JoinCheck, WaitInv, RowsAreReal, LockHolds
<1>4. SlotsAreFree' /\ NobodyIsForgotten'
  BY DEF JoinCheck, WaitInv, SlotsAreFree, NobodyIsForgotten, Full, Members, Waiting
<1> QED
  BY <1>2, <1>3, <1>4 DEF WaitInv

LEMMA JoinSaveWaits ==
  ASSUME WaitInv, NEW u \in Users, JoinSave(u)
  PROVE  WaitInv'
<1>1. UNCHANGED <<used, member, lockVars, admits, leaveVars, touched, mixed>>
  BY DEF JoinSave
<1>2. wait' \in [Users -> [state : {"none", "WAITING", "ended"}, position : 0 .. MaxWaitlist]]
      /\ \A v \in Users \ {u} : wait'[v] = wait[v]
  BY DEF JoinSave, WaitInv, TypeOK
<1>3. TypeOK'
  <2>1. missed' \in SUBSET Users /\ place' \in [Users -> 0 .. MaxWaitlist]
    BY NumbersAre DEF JoinSave, WaitInv, TypeOK
  <2>2. listing' \in [Users -> {"idle", "join", "cancel", "shift"}]
    BY DEF JoinSave, List, WaitInv, TypeOK
  <2> QED
    BY <1>1, <1>2, <2>1, <2>2 DEF WaitInv, TypeOK
<1>4. RowsAreReal' /\ LockHolds'
  BY <1>1 DEF WaitInv, RowsAreReal, LockHolds
<1>5. Members' = Members /\ Full' = Full
  BY <1>1 DEF Members, Full
<1>6. Full' \/ \A w \in Waiting' : w \in missed' \/ w \in Waiting \ missed
  <2>1. missed' = IF Full THEN missed ELSE missed \cup {u}
    BY DEF JoinSave
  <2> QED
    BY <1>2, <1>5, <2>1 DEF Waiting
<1>7. slots' = slots /\ admits' = admits
  BY <1>1
<1> QED
  BY <1>3, <1>4, <1>5, <1>6, <1>7, NobodyLost DEF WaitInv

LEMMA CancelFindWaits ==
  ASSUME WaitInv, NEW u \in Users, CancelFind(u)
  PROVE  WaitInv'
<1>1. wait[u].position \in 0 .. MaxWaitlist
  BY DEF WaitInv, TypeOK
<1>2. TypeOK'
  BY <1>1 DEF CancelFind, List, WaitInv, TypeOK
<1>3. RowsAreReal' /\ LockHolds'
  BY DEF CancelFind, WaitInv, RowsAreReal, LockHolds
<1>4. SlotsAreFree' /\ NobodyIsForgotten'
  BY DEF CancelFind, WaitInv, SlotsAreFree, NobodyIsForgotten, Full, Members, Waiting
<1> QED
  BY <1>2, <1>3, <1>4 DEF WaitInv

LEMMA CancelSaveWaits ==
  ASSUME WaitInv, NEW u \in Users, CancelSave(u)
  PROVE  WaitInv'
<1>1. UNCHANGED <<used, member, lockVars, admits, leaveVars, touched, place, mixed>>
  BY DEF CancelSave
<1>2. /\ wait' \in [Users -> [state : {"none", "WAITING", "ended"}, position : 0 .. MaxWaitlist]]
      /\ Waiting' = Waiting \ {u}
  <2>1. Ended \in [state : {"none", "WAITING", "ended"}, position : 0 .. MaxWaitlist]
        /\ Ended.state # "WAITING"
    BY NumbersAre DEF Ended
  <2> QED
    BY <2>1 DEF CancelSave, WaitInv, TypeOK, Waiting
<1>3. TypeOK'
  <2>1. missed' \in SUBSET Users
    BY DEF CancelSave, WaitInv, TypeOK
  <2>2. listing' \in [Users -> {"idle", "join", "cancel", "shift"}]
    BY DEF CancelSave, List, WaitInv, TypeOK
  <2> QED
    BY <1>1, <1>2, <2>1, <2>2 DEF WaitInv, TypeOK
<1>4. RowsAreReal' /\ LockHolds'
  BY <1>1 DEF WaitInv, RowsAreReal, LockHolds
<1>5. Members' = Members
  BY <1>1 DEF Members
<1>6. missed' = missed \ {u} /\ slots' = slots /\ admits' = admits
  BY <1>1 DEF CancelSave
<1>7. SlotsAreFree' /\ NobodyIsForgotten'
  BY <1>2, <1>5, <1>6 DEF WaitInv, SlotsAreFree, NobodyIsForgotten, Full
<1> QED
  BY <1>3, <1>4, <1>7 DEF WaitInv

LEMMA CancelShiftWaits ==
  ASSUME WaitInv, NEW u \in Users, CancelShift(u)
  PROVE  WaitInv'
<1>1. UNCHANGED <<used, member, lockVars, admits, leaveVars, touched, missed, mixed>>
  BY DEF CancelShift
<1>2. ASSUME NEW v \in Users
      PROVE  /\ wait'[v] \in [state : {"none", "WAITING", "ended"}, position : 0 .. MaxWaitlist]
             /\ wait'[v].state = wait[v].state
  <2>1. wait[v] \in [state : {"none", "WAITING", "ended"}, position : 0 .. MaxWaitlist]
        /\ place[u] \in 0 .. MaxWaitlist
    BY <1>2 DEF WaitInv, TypeOK
  <2>2. wait'[v] = IF v \in Waiting /\ wait[v].position > place[u]
                   THEN [wait[v] EXCEPT !.position = @ - 1] ELSE wait[v]
    BY <1>2 DEF CancelShift
  <2> QED
    BY <2>1, <2>2, NumbersAre
<1>3. wait' \in [Users -> [state : {"none", "WAITING", "ended"}, position : 0 .. MaxWaitlist]]
  BY <1>2 DEF CancelShift
<1>4. Waiting' = Waiting /\ Members' = Members
  BY <1>1, <1>2 DEF Waiting, Members
<1>5. TypeOK'
  <2>1. listing' \in [Users -> {"idle", "join", "cancel", "shift"}]
    BY DEF CancelShift, List, WaitInv, TypeOK
  <2>2. place' \in [Users -> 0 .. MaxWaitlist]
    BY NumbersAre DEF CancelShift, WaitInv, TypeOK
  <2> QED
    BY <1>1, <1>3, <2>1, <2>2 DEF WaitInv, TypeOK
<1>6. RowsAreReal' /\ LockHolds'
  BY <1>1 DEF WaitInv, RowsAreReal, LockHolds
<1>7. SlotsAreFree' /\ NobodyIsForgotten'
  BY <1>1, <1>4 DEF WaitInv, SlotsAreFree, NobodyIsForgotten, Full
<1> QED
  BY <1>5, <1>6, <1>7 DEF WaitInv

LEMMA CrashWaits ==
  ASSUME WaitInv, Crash
  PROVE  WaitInv'
<1>1. TypeOK'
  <2>1. missed' \in SUBSET Users
    BY MembersAre DEF Crash, WaitInv, TypeOK
  <2> QED
    BY <2>1, NumbersAre, NoRowIsRow DEF Crash, WaitInv, TypeOK
<1>2. RowsAreReal' /\ LockHolds'
  BY DEF Crash, WaitInv, RowsAreReal, LockHolds
<1>3. SlotsAreFree' /\ NobodyIsForgotten'
  BY DEF Crash, SlotsAreFree, NobodyIsForgotten, Waiting
<1> QED
  BY <1>1, <1>2, <1>3 DEF WaitInv

LEMMA WaitInit == Init => WaitInv
<1> SUFFICES ASSUME Init
             PROVE  WaitInv
  OBVIOUS
<1>1. TypeOK
  <2>1. NotListed \in [state : {"none", "WAITING", "ended"}, position : 0 .. MaxWaitlist]
    BY NumbersAre DEF NotListed
  <2>2. /\ member \in [Users -> Rows] /\ mine \in [Users -> Rows]
        /\ at \in [Users -> {"idle", "delete", "list", "shift"}]
        /\ listing \in [Users -> {"idle", "join", "cancel", "shift"}]
        /\ place \in [Users -> 0 .. MaxWaitlist]
    BY NumbersAre, NoRowIsRow DEF Init
  <2>3. /\ used \in GroupInvite /\ slots \in 0 .. MaxMembers /\ admits \in 0 .. MaxAdmits
        /\ adding \in SUBSET Users /\ touched \in SUBSET [who : Users, row : Rows]
        /\ missed \in SUBSET Users
    BY NumbersAre DEF Init, GroupInvite
  <2>5. mixed \in BOOLEAN
    BY DEF Init
  <2>4. todo \in [Users -> SUBSET [who : Users, row : Rows]]
    BY DEF Init
  <2> QED
    BY <2>1, <2>2, <2>3, <2>4, <2>5 DEF Init, TypeOK
<1>2. RowsAreReal /\ LockHolds /\ SlotsAreFree
  BY DEF Init, RowsAreReal, LockHolds, SlotsAreFree
<1>3. NobodyIsForgotten
  BY DEF Init, NobodyIsForgotten, Waiting, NotListed
<1> QED
  BY <1>1, <1>2, <1>3 DEF WaitInv

LEMMA WaitStep == WaitInv /\ [Next]_vars => WaitInv'
<1> SUFFICES ASSUME WaitInv, [Next]_vars
             PROVE  WaitInv'
  OBVIOUS
<1>1. ASSUME NEW u \in Users, MembersRequest(u) \/ InviteRequest(u) \/ WaitlistRequest(u)
      PROVE  WaitInv'
  BY <1>1, AddCheckWaits, RemoveWaits, JoinByCodeWaits, JoinCheckWaits, CancelFindWaits
     DEF MembersRequest, InviteRequest, WaitlistRequest
<1>2. ASSUME NEW u \in Users, LeaveFind(u) \/ TouchFind(u) \/ Continue(u)
      PROVE  WaitInv'
  BY <1>2, LeaveFindWaits, TouchFindWaits, AddCommitWaits, LeaveDeleteWaits, LeaveListWaits,
     LeaveShiftWaits, JoinSaveWaits, CancelSaveWaits, CancelShiftWaits DEF Continue
<1>3. CASE UNCHANGED vars
  BY <1>3 DEF vars, WaitInv, TypeOK, RowsAreReal, LockHolds, SlotsAreFree, NobodyIsForgotten,
              Full, Members, Waiting
<1> QED
  BY <1>1, <1>2, <1>3, TouchSaveWaits, AdmitCheckWaits, AdmitCommitWaits, CrashWaits DEF Next

(* While a slot is free and users wait, an admission is on its way, for any
   users, capacities and interleavings of requests, admissions and crashes,
   except for those the code does not promise one (admitFromWaitlist). *)
THEOREM NobodyIsForgottenTheorem == Spec => []NobodyIsForgotten
<1>1. WaitInv => NobodyIsForgotten
  BY DEF WaitInv
<1> QED
  BY WaitInit, WaitStep, <1>1, PTL DEF Spec

-----------------------------------------------------------------------------
(* Places. *)

LEMMA OrderedAre ==
  ASSUME TypeOK
  PROVE  /\ Ordered \subseteq Members
         /\ Cardinality(Ordered) \in Nat /\ Cardinality(Ordered) <= Cardinality(Members)
         /\ Cardinality(adding) \in Nat /\ slots \in Nat /\ MaxMembers \in Nat
<1>1. Ordered \subseteq Members /\ Members \subseteq Users
  BY DEF Ordered, Members, NoRow
<1> QED
  BY <1>1, NoMore, UsersFinite, NumbersAre DEF TypeOK

\* Fewer members with an order, and nobody added or counted.
LEMMA FewerPlaces ==
  ASSUME WaitInv, PlacesAreKept, Ordered' \subseteq Ordered, slots' = slots, adding' = adding
  PROVE  PlacesAreKept'
<1>1. Ordered \subseteq Users /\ Ordered' \subseteq Users
  BY DEF Ordered
<1>2. Cardinality(Ordered') <= Cardinality(Ordered)
      /\ Cardinality(Ordered) \in Nat /\ Cardinality(Ordered') \in Nat
  BY <1>1, NoMore, UsersFinite
<1> QED
  BY <1>2, OrderedAre DEF PlacesAreKept, WaitInv

\* Rows that are inserted are not those a handler has read.
LEMMA InsertIsNotRead ==
  ASSUME WaitInv, OneAtATime, NEW new, new \cap Members = {},
         \A v \in Users \ new : member'[v] = member[v],
         UNCHANGED <<leaveVars, touched>>
  PROVE  OneAtATime'
<1>1. \A v \in Users : member[v].gen # 0 => member'[v] = member[v]
  BY DEF Members, NoRow
<1>2. \A e \in touched : e.who \in Users /\ e.row.gen # 0
  BY DEF WaitInv, TypeOK, RowsAreReal
<1>3. \A u \in Users : \A e \in todo[u] : e.who \in Users /\ e.row.gen # 0
  BY DEF WaitInv, TypeOK, RowsAreReal
<1> QED
  BY <1>1, <1>2, <1>3 DEF OneAtATime, Leaving

LEMMA SamePlaces ==
  ASSUME PlacesInv, UNCHANGED <<member, lockVars, leaveVars, touched>>
  PROVE  PlacesInv'
BY DEF PlacesInv, OneAtATime, Leaving, PlacesAreKept, Ordered

LEMMA AddCheckPlaces ==
  ASSUME WaitInv, PlacesInv, NEW u \in Users, AddCheck(u)
  PROVE  PlacesInv'
<1> SUFFICES ASSUME Serial
             PROVE  OneAtATime' /\ PlacesAreKept'
  BY DEF PlacesInv
<1>1. OneAtATime'
  BY DEF AddCheck, PlacesInv, OneAtATime, Leaving
<1>2. adding' = {u} /\ slots' = 0 /\ Ordered' = Ordered
  BY DEF AddCheck, LockFree, Ordered
<1>3. Cardinality(adding') = 1
  BY <1>2, FS_Singleton
<1>4. Cardinality(Ordered) < MaxMembers
  BY OrderedAre, MembersAre DEF AddCheck, Full, WaitInv
<1>5. PlacesAreKept'
  BY <1>2, <1>3, <1>4, OrderedAre DEF PlacesAreKept, WaitInv
<1> QED
  BY <1>1, <1>5

LEMMA AddCommitPlaces ==
  ASSUME WaitInv, PlacesInv, NEW u \in Users, AddCommit(u)
  PROVE  PlacesInv'
<1> SUFFICES ASSUME Serial
             PROVE  OneAtATime' /\ PlacesAreKept'
  BY DEF PlacesInv
<1>1. adding = {u} /\ adding' = {} /\ slots = 0 /\ slots' = 0
  BY DEF AddCommit, WaitInv, LockHolds, TypeOK
<1>2. Cardinality(adding) = 1 /\ Cardinality(adding') = 0
  BY <1>1, FS_Singleton, FS_EmptySet
<1>3. UNCHANGED <<leaveVars, touched>>
  BY DEF AddCommit
<1>4. CASE u \in Members
  <2>1. member' = member /\ Ordered' = Ordered
    BY <1>4 DEF AddCommit, Ordered
  <2> QED
    BY <1>1, <1>2, <1>3, <2>1, OrderedAre DEF PlacesInv, OneAtATime, Leaving, PlacesAreKept, WaitInv
<1>5. CASE u \notin Members
  <2>1. \A v \in Users \ {u} : member'[v] = member[v]
    BY <1>5, InsertWaits DEF AddCommit
  <2>2. OneAtATime'
    BY <1>3, <1>5, <2>1, InsertIsNotRead DEF PlacesInv
  <2>3. Ordered' \subseteq Ordered \cup {u} /\ u \notin Ordered
    BY <1>5, <2>1, OrderedAre DEF Ordered, WaitInv
  <2>4. Cardinality(Ordered') <= Cardinality(Ordered) + 1
        /\ Cardinality(Ordered) \in Nat /\ Cardinality(Ordered') \in Nat
    <3>1. Ordered \subseteq Users /\ Ordered' \subseteq Users
      BY DEF Ordered
    <3>2. Cardinality(Ordered \cup {u}) = Cardinality(Ordered) + 1
      BY <2>3, <3>1, OneMore
    <3>3. Cardinality(Ordered') <= Cardinality(Ordered \cup {u})
      BY <2>3, <3>1, NoMore
    <3> QED
      BY <3>1, <3>2, <3>3, UsersFinite
  <2>5. PlacesAreKept'
    BY <1>1, <1>2, <2>4, OrderedAre DEF PlacesInv, PlacesAreKept, WaitInv
  <2> QED
    BY <2>2, <2>5
<1> QED
  BY <1>4, <1>5

LEMMA JoinByCodePlaces ==
  ASSUME WaitInv, PlacesInv, NEW u \in Users, JoinByCode(u)
  PROVE  PlacesInv'
<1> SUFFICES ASSUME Serial
             PROVE  OneAtATime' /\ PlacesAreKept'
  BY DEF PlacesInv
<1>1. /\ \A v \in Users \ {u} : member'[v] = member[v]
      /\ member'[u].order = NoOrder /\ u \notin Members
  BY InsertWaits DEF JoinByCode
<1>2. UNCHANGED <<lockVars, leaveVars, touched>>
  BY DEF JoinByCode
<1>3. OneAtATime'
  BY <1>1, <1>2, InsertIsNotRead DEF PlacesInv
<1>4. Ordered' \subseteq Ordered
  BY <1>1 DEF Ordered
<1> QED
  BY <1>2, <1>3, <1>4, FewerPlaces DEF PlacesInv

LEMMA RemovePlaces ==
  ASSUME WaitInv, PlacesInv, NEW u \in Users, RemoveMember(u)
  PROVE  PlacesInv'
<1> SUFFICES ASSUME Serial
             PROVE  OneAtATime' /\ PlacesAreKept'
  BY DEF PlacesInv
<1>1. /\ member'[u] = NoRow
      /\ \A v \in Users \ {u} : member'[v] = member[v]
  BY PutIs, NoRowIsRow DEF RemoveMember, WaitInv
<1>2. UNCHANGED <<lockVars, leaveVars, touched>> /\ touched = {} /\ Leaving = {}
  BY DEF RemoveMember, Idle, Busy
<1>3. OneAtATime'
  BY <1>2 DEF PlacesInv, OneAtATime, Leaving
<1>4. Ordered' \subseteq Ordered
  BY <1>1, NoRowIsRow DEF Ordered
<1> QED
  BY <1>2, <1>3, <1>4, FewerPlaces DEF PlacesInv

LEMMA LeaveFindPlaces ==
  ASSUME WaitInv, PlacesInv, NEW u \in Users, LeaveFind(u)
  PROVE  PlacesInv'
<1> SUFFICES ASSUME Serial
             PROVE  OneAtATime' /\ PlacesAreKept'
  BY DEF PlacesInv
<1>1. /\ touched = {} /\ Leaving = {} /\ UNCHANGED <<member, lockVars, todo, touched>>
      /\ at' = [at EXCEPT ![u] = "delete"] /\ mine' = [mine EXCEPT ![u] = member[u]]
  BY DEF LeaveFind, Idle, Busy
<1>2. member[u].gen # 0
  BY DEF LeaveFind, WaitInv, RowsAreReal, Members
<1>3. \A v \in Users : at[v] = "idle" /\ todo[v] = {}
  BY <1>1 DEF Leaving, PlacesInv, OneAtATime
<1>4. /\ at'[u] = "delete" /\ mine'[u] = member[u]
      /\ \A v \in Users \ {u} : at'[v] = "idle"
  BY <1>1, <1>3 DEF WaitInv, TypeOK
<1>5. OneAtATime'
  BY <1>1, <1>2, <1>3, <1>4 DEF OneAtATime, Leaving
<1>6. Ordered' \subseteq Ordered
  BY <1>1 DEF Ordered
<1> QED
  BY <1>1, <1>5, <1>6, FewerPlaces DEF PlacesInv

\* Only the leave that goes on is under way.
LEMMA OnlyLeave ==
  ASSUME OneAtATime, NEW u \in Users, at[u] # "idle"
  PROVE  /\ touched = {}
         /\ \A v \in Users \ {u} : at[v] = "idle" /\ todo[v] = {}
BY DEF OneAtATime, Leaving

LEMMA LeaveDeletePlaces ==
  ASSUME WaitInv, PlacesInv, NEW u \in Users, LeaveDelete(u)
  PROVE  PlacesInv'
<1> SUFFICES ASSUME Serial
             PROVE  OneAtATime' /\ PlacesAreKept'
  BY DEF PlacesInv
<1>1. /\ at[u] = "delete" /\ at' = [at EXCEPT ![u] = "list"]
      /\ Put(u, IF member[u].gen = mine[u].gen THEN NoRow ELSE member[u])
      /\ UNCHANGED <<lockVars, mine, todo, touched>>
  BY DEF LeaveDelete
<1>2. /\ member'[u] = NoRow
      /\ \A v \in Users \ {u} : member'[v] = member[v]
  <2>1. Put(u, NoRow)
    BY <1>1 DEF PlacesInv, OneAtATime
  <2> QED
    BY <2>1, PutIs, NoRowIsRow DEF WaitInv
<1>3. /\ touched = {} /\ todo[u] = {}
      /\ \A v \in Users \ {u} : at[v] = "idle" /\ todo[v] = {}
  <2>1. todo[u] = {}
    BY <1>1 DEF PlacesInv, OneAtATime
  <2> QED
    BY <1>1, <2>1, OnlyLeave DEF PlacesInv
<1>4. at'[u] = "list" /\ \A v \in Users \ {u} : at'[v] = "idle"
  BY <1>1, <1>3 DEF WaitInv, TypeOK
<1>5. OneAtATime'
  BY <1>1, <1>3, <1>4 DEF OneAtATime, Leaving
<1>6. Ordered' \subseteq Ordered
  BY <1>2, NoRowIsRow DEF Ordered
<1> QED
  BY <1>1, <1>5, <1>6, FewerPlaces DEF PlacesInv

LEMMA LeaveListPlaces ==
  ASSUME WaitInv, PlacesInv, NEW u \in Users, LeaveList(u)
  PROVE  PlacesInv'
<1> SUFFICES ASSUME Serial
             PROVE  OneAtATime' /\ PlacesAreKept'
  BY DEF PlacesInv
<1> DEFINE list == {[who |-> v, row |-> member[v]] :
                      v \in {w \in Members : Rank(member[w].order) > Rank(mine[u].order)}}
<1>1. /\ at[u] = "list" /\ at' = [at EXCEPT ![u] = IF list = {} THEN "idle" ELSE "shift"]
      /\ todo' = [todo EXCEPT ![u] = list]
      /\ UNCHANGED <<member, lockVars, touched>>
  BY DEF LeaveList
<1>2. \A e \in list : member[e.who] = e.row
  OBVIOUS
<1> HIDE DEF list
<1>3. /\ touched = {}
      /\ \A v \in Users \ {u} : at[v] = "idle" /\ todo[v] = {}
  BY <1>1, OnlyLeave DEF PlacesInv
<1>4. /\ at'[u] = (IF list = {} THEN "idle" ELSE "shift") /\ todo'[u] = list
      /\ \A v \in Users \ {u} : at'[v] = "idle" /\ todo'[v] = {}
  BY <1>1, <1>3 DEF WaitInv, TypeOK
<1>5. OneAtATime'
  BY <1>1, <1>2, <1>3, <1>4 DEF OneAtATime, Leaving
<1>6. Ordered' \subseteq Ordered
  BY <1>1 DEF Ordered
<1> QED
  BY <1>1, <1>5, <1>6, FewerPlaces DEF PlacesInv

LEMMA LeaveShiftPlaces ==
  ASSUME WaitInv, OneAtATime, NEW u \in Users, LeaveShift(u)
  PROVE  \E next \in todo[u] :
           /\ next.who \in Users /\ member[next.who] = next.row
           /\ next.row.order \in Nat \ {0} /\ member'[next.who].order = next.row.order - 1
           /\ \A e \in todo[u] : next.row.order <= e.row.order
           /\ todo'[u] = todo[u] \ {next}
           /\ \A v \in Users \ {next.who} : member'[v] = member[v]
           /\ UNCHANGED <<lockVars, mine, touched, mixed>>
           /\ touched = {}
           /\ \A v \in Users \ {u} : at'[v] = "idle" /\ todo'[v] = {}
           /\ at'[u] = IF todo'[u] = {} THEN "idle" ELSE "shift"
<1>1. PICK next \in todo[u] :
        LET row == [next.row EXCEPT !.order = @ - 1]
            ok == CanSave(next.who, row)
            rest == IF ok THEN todo[u] \ {next} ELSE {}
        IN  /\ \A e \in todo[u] : next.row.order <= e.row.order
            /\ at' = [at EXCEPT ![u] = IF rest = {} THEN "idle" ELSE "shift"]
            /\ todo' = [todo EXCEPT ![u] = rest]
            /\ Put(next.who, IF ok THEN row ELSE member[next.who])
  BY DEF LeaveShift
<1> DEFINE row == [next.row EXCEPT !.order = @ - 1]
           ok == CanSave(next.who, row)
<1>2. /\ next.who \in Users /\ row \in Rows /\ row.gen = next.row.gen
      /\ row.order = next.row.order - 1 /\ row.order \in Nat /\ next.row.order \in Nat
  BY ShiftIs
<1>3. member[next.who] = next.row
  BY DEF OneAtATime
<1>4. ok
  BY <1>2, <1>3 DEF CanSave
<1>5. /\ at' = [at EXCEPT ![u] = IF todo[u] \ {next} = {} THEN "idle" ELSE "shift"]
      /\ todo' = [todo EXCEPT ![u] = todo[u] \ {next}]
      /\ Put(next.who, row)
      /\ \A e \in todo[u] : next.row.order <= e.row.order
  BY <1>1, <1>4
<1> HIDE DEF row, ok
<1>6. /\ member'[next.who] = row
      /\ \A v \in Users \ {next.who} : member'[v] = member[v]
  BY <1>2, <1>5, PutIs DEF WaitInv
<1>7. at[u] = "shift" /\ UNCHANGED <<lockVars, mine, touched, mixed>>
  BY DEF LeaveShift
<1>8. touched = {} /\ \A v \in Users \ {u} : at[v] = "idle" /\ todo[v] = {}
  BY <1>7, OnlyLeave
<1>9. /\ todo'[u] = todo[u] \ {next}
      /\ at'[u] = IF todo'[u] = {} THEN "idle" ELSE "shift"
      /\ \A v \in Users \ {u} : at'[v] = "idle" /\ todo'[v] = {}
  BY <1>5, <1>8 DEF WaitInv, TypeOK
<1>10. next.row.order \in Nat \ {0}
  BY <1>2
<1> QED
  BY <1>2, <1>3, <1>5, <1>6, <1>7, <1>8, <1>9, <1>10

LEMMA LeaveShiftKeepsPlaces ==
  ASSUME WaitInv, PlacesInv, NEW u \in Users, LeaveShift(u)
  PROVE  PlacesInv'
<1> SUFFICES ASSUME Serial
             PROVE  OneAtATime' /\ PlacesAreKept'
  BY DEF PlacesInv
<1>1. PICK next \in todo[u] :
           /\ next.who \in Users /\ member[next.who] = next.row
           /\ next.row.order \in Nat \ {0} /\ member'[next.who].order = next.row.order - 1
           /\ todo'[u] = todo[u] \ {next}
           /\ \A v \in Users \ {next.who} : member'[v] = member[v]
           /\ UNCHANGED <<lockVars, mine, touched, mixed>>
           /\ touched = {}
           /\ \A v \in Users \ {u} : at'[v] = "idle" /\ todo'[v] = {}
           /\ at'[u] = IF todo'[u] = {} THEN "idle" ELSE "shift"
  BY LeaveShiftPlaces DEF PlacesInv
<1>2. \A e \in todo[u] : member[e.who] = e.row /\ e \in Entries
  BY DEF PlacesInv, OneAtATime, WaitInv, TypeOK, Entries
<1>3. \A e \in todo'[u] : e.who # next.who /\ member'[e.who] = e.row
  <2>1. ASSUME NEW e \in todo'[u], e.who = next.who
        PROVE  FALSE
    <3>1. e \in todo[u] /\ e # next /\ e.row = next.row /\ e \in Entries /\ next \in Entries
      BY <1>1, <1>2, <2>1
    <3> QED
      BY <2>1, <3>1 DEF Entries
  <2> QED
    BY <1>1, <1>2, <2>1 DEF Entries
<1>4. OneAtATime'
  BY <1>1, <1>3 DEF OneAtATime, Leaving
<1>5. Ordered' \subseteq Ordered
  <2>1. next.row.order # NoOrder
    BY <1>1 DEF NoOrder
  <2> QED
    BY <1>1, <2>1 DEF Ordered
<1>6. slots' = slots /\ adding' = adding
  BY <1>1
<1> QED
  BY <1>4, <1>5, <1>6, FewerPlaces DEF PlacesInv

LEMMA TouchFindPlaces ==
  ASSUME WaitInv, PlacesInv, NEW u \in Users, TouchFind(u)
  PROVE  PlacesInv'
<1> SUFFICES ASSUME Serial
             PROVE  OneAtATime' /\ PlacesAreKept'
  BY DEF PlacesInv
<1>1. /\ Leaving = {} /\ UNCHANGED <<member, lockVars, leaveVars>>
      /\ touched' = {[who |-> u, row |-> member[u]]}
  BY DEF TouchFind, Idle, Busy
<1>2. OneAtATime'
  BY <1>1 DEF PlacesInv, OneAtATime, Leaving
<1>3. PlacesAreKept'
  BY <1>1 DEF PlacesInv, PlacesAreKept, Ordered
<1> QED
  BY <1>2, <1>3

\* What is saved is what is there.
LEMMA TouchSaveIs ==
  ASSUME WaitInv, OneAtATime, TouchSave
  PROVE  /\ \A v \in Users : member'[v] = member[v]
         /\ UNCHANGED <<lockVars, leaveVars, mixed>> /\ touched' = {} /\ Leaving = {}
<1>1. PICK e \in touched : Put(e.who, e.row) \/ member' = member
  BY DEF TouchSave
<1>2. e.who \in Users /\ e.row \in Rows /\ member[e.who] = e.row
  BY DEF WaitInv, TypeOK, OneAtATime
<1>3. \A v \in Users : member'[v] = member[v]
  <2>1. CASE Put(e.who, e.row)
    BY <1>2, <2>1, PutIs DEF WaitInv
  <2> QED
    BY <1>1, <2>1
<1>4. UNCHANGED <<lockVars, leaveVars, mixed>> /\ touched' = {} /\ Leaving = {}
  BY <1>1 DEF TouchSave, OneAtATime
<1> QED
  BY <1>3, <1>4

LEMMA TouchSavePlaces ==
  ASSUME WaitInv, PlacesInv, TouchSave
  PROVE  PlacesInv'
<1> SUFFICES ASSUME Serial
             PROVE  OneAtATime' /\ PlacesAreKept'
  BY DEF PlacesInv
<1>1. /\ \A v \in Users : member'[v] = member[v]
      /\ UNCHANGED <<lockVars, leaveVars, mixed>> /\ touched' = {} /\ Leaving = {}
  BY TouchSaveIs DEF PlacesInv
<1>2. \A u \in Users : todo[u] = {} /\ at[u] = "idle"
  BY <1>1 DEF PlacesInv, OneAtATime, Leaving
<1>3. OneAtATime'
  BY <1>1, <1>2 DEF OneAtATime, Leaving
<1>4. Ordered' \subseteq Ordered
  BY <1>1 DEF Ordered
<1> QED
  BY <1>1, <1>3, <1>4, FewerPlaces DEF PlacesInv

LEMMA AdmitCheckPlaces ==
  ASSUME WaitInv, PlacesInv, AdmitCheck
  PROVE  PlacesInv'
<1> SUFFICES ASSUME Serial
             PROVE  OneAtATime' /\ PlacesAreKept'
  BY DEF PlacesInv
<1>1. UNCHANGED <<member, adding, leaveVars, touched>> /\ adding = {} /\ slots = 0
  BY DEF AdmitCheck, LockFree
<1>2. OneAtATime'
  BY <1>1 DEF PlacesInv, OneAtATime, Leaving
<1>3. slots' = 0 \/ slots' = MaxMembers - Cardinality(Members)
  BY DEF AdmitCheck
<1>4. Cardinality(adding) = 0 /\ Ordered' = Ordered
  BY <1>1, FS_EmptySet DEF Ordered
<1>5. PlacesAreKept'
  BY <1>1, <1>3, <1>4, OrderedAre, MembersAre DEF PlacesInv, PlacesAreKept, WaitInv
<1> QED
  BY <1>2, <1>5

LEMMA AdmitCommitPlaces ==
  ASSUME WaitInv, PlacesInv, AdmitCommit
  PROVE  PlacesInv'
<1> SUFFICES ASSUME Serial
             PROVE  OneAtATime' /\ PlacesAreKept'
  BY DEF PlacesInv
<1> DEFINE n == Min({slots, Cardinality(Waiting)})
<1>1. /\ slots \in Nat \ {0} /\ slots' = 0 /\ Cardinality(Waiting) \in Nat
      /\ UNCHANGED <<adding, leaveVars, touched>> /\ adding = {}
  BY MembersAre DEF AdmitCommit, WaitInv, TypeOK, LockHolds
<1>2. n \in Nat /\ n <= slots
  BY <1>1, LesserOf
<1>3. PICK queue \in Queues(n) :
        IF DOMAIN queue \cap Members # {}
        THEN UNCHANGED member
        ELSE \E first \in 0 .. MaxOrder :
               Insert([u \in DOMAIN queue |-> first + queue[u] - 1])
  BY DEF AdmitCommit
<1> HIDE DEF n
<1>4. Cardinality(adding) = 0
  BY <1>1, FS_EmptySet
<1>5. CASE member' = member
  <2>1. OneAtATime'
    BY <1>1, <1>5 DEF PlacesInv, OneAtATime, Leaving
  <2>2. Ordered' = Ordered
    BY <1>5 DEF Ordered
  <2>3. PlacesAreKept'
    BY <1>1, <1>4, <2>2, OrderedAre DEF PlacesInv, PlacesAreKept, WaitInv
  <2> QED
    BY <2>1, <2>3
<1>6. CASE DOMAIN queue \cap Members = {}
  <2>1. PICK first \in 0 .. MaxOrder : Insert([u \in DOMAIN queue |-> first + queue[u] - 1])
    BY <1>3, <1>6
  <2>2. first \in Nat
    BY NumbersAre
  <2>3. \A u \in Users \ DOMAIN queue : member'[u] = member[u]
    BY <1>2, <1>3, <1>6, <2>1, <2>2, Admitted DEF WaitInv
  <2>4. OneAtATime'
    BY <1>1, <1>6, <2>3, InsertIsNotRead DEF PlacesInv
  <2>5. DOMAIN queue \subseteq Users /\ Cardinality(DOMAIN queue) = n
    BY <1>2, <1>3, QueuesAre, MembersAre DEF WaitInv
  <2>6. Ordered' \subseteq Ordered \cup DOMAIN queue /\ Ordered \cap DOMAIN queue = {}
    BY <1>6, <2>3, OrderedAre DEF Ordered, WaitInv
  <2>7. Ordered \subseteq Users /\ Ordered' \subseteq Users
    BY DEF Ordered
  <2>8. Cardinality(Ordered \cup DOMAIN queue) = Cardinality(Ordered) + n
    BY <2>5, <2>6, <2>7, Sum
  <2>9. Cardinality(Ordered') <= Cardinality(Ordered \cup DOMAIN queue)
        /\ Cardinality(Ordered') \in Nat
    BY <2>5, <2>6, <2>7, NoMore, UsersFinite
  <2>10. PlacesAreKept'
    BY <1>1, <1>2, <1>4, <2>8, <2>9, OrderedAre DEF PlacesInv, PlacesAreKept, WaitInv
  <2> QED
    BY <2>4, <2>10
<1> QED
  BY <1>3, <1>5, <1>6

LEMMA CrashPlaces ==
  ASSUME WaitInv, PlacesInv, Crash
  PROVE  PlacesInv'
<1> SUFFICES ASSUME Serial
             PROVE  OneAtATime' /\ PlacesAreKept'
  BY DEF PlacesInv
<1>1. OneAtATime'
  BY DEF Crash, OneAtATime, Leaving
<1>2. slots' = 0 /\ Cardinality(adding') = 0 /\ Ordered' = Ordered
  BY FS_EmptySet DEF Crash, Ordered
<1>3. PlacesAreKept'
  BY <1>2, OrderedAre DEF PlacesInv, PlacesAreKept, WaitInv
<1> QED
  BY <1>1, <1>3

LEMMA PlacesStep == WaitInv /\ PlacesInv /\ [Next]_vars => PlacesInv'
<1> SUFFICES ASSUME WaitInv, PlacesInv, [Next]_vars
             PROVE  PlacesInv'
  OBVIOUS
<1>1. ASSUME NEW u \in Users,
             JoinCheck(u) \/ JoinSave(u) \/ CancelFind(u) \/ CancelSave(u) \/ CancelShift(u)
      PROVE  PlacesInv'
  <2>1. UNCHANGED <<member, lockVars, leaveVars, touched>>
    BY <1>1 DEF JoinCheck, JoinSave, CancelFind, CancelSave, CancelShift
  <2> QED
    BY <2>1, SamePlaces
<1>2. ASSUME NEW u \in Users, MembersRequest(u) \/ InviteRequest(u) \/ WaitlistRequest(u)
      PROVE  PlacesInv'
  BY <1>1, <1>2, AddCheckPlaces, RemovePlaces, JoinByCodePlaces
     DEF MembersRequest, InviteRequest, WaitlistRequest
<1>3. ASSUME NEW u \in Users, LeaveFind(u) \/ TouchFind(u) \/ Continue(u)
      PROVE  PlacesInv'
  BY <1>1, <1>3, LeaveFindPlaces, TouchFindPlaces, AddCommitPlaces, LeaveDeletePlaces,
     LeaveListPlaces, LeaveShiftKeepsPlaces DEF Continue
<1>4. CASE UNCHANGED vars
  <2>1. UNCHANGED <<member, lockVars, leaveVars, touched>>
    BY <1>4 DEF vars
  <2> QED
    BY <2>1, SamePlaces
<1> QED
  BY <1>2, <1>3, <1>4, TouchSavePlaces, AdmitCheckPlaces, AdmitCommitPlaces, CrashPlaces DEF Next

-----------------------------------------------------------------------------
(* Orders. *)

OrdersHold == OrdersDistinct /\ GapIsFree

LEMMA OrdersAre ==
  ASSUME WaitInv, NEW v \in Users
  PROVE  /\ member[v].order \in Nat \cup {NoOrder}
         /\ member[v].order # NoOrder => v \in Members
         /\ v \notin Members => member[v] = NoRow /\ member[v].order = NoOrder
BY NumbersAre, NoRowIsRow DEF WaitInv, TypeOK, Rows, Orders, Members

\* Nothing that orders depend on changes.
LEMMA SameOrders ==
  ASSUME OrderInv, UNCHANGED <<leaveVars, mixed>>, \A v \in Users : member'[v] = member[v]
  PROVE  OrderInv'
<1>1. Members' = Members
  BY DEF Members
<1>2. (Serial /\ ~mixed => OrdersDistinct)'
  BY <1>1 DEF OrderInv, OrdersDistinct, Members
<1>3. Serial /\ ~mixed => GapIsFree'
  BY DEF OrderInv, GapIsFree
<1> QED
  BY <1>2, <1>3 DEF OrderInv

\* New members come behind the others, or without an order.
LEMMA NewOrders ==
  ASSUME WaitInv, PlacesInv, OrderInv, NEW new, new \cap Members = {}, new \subseteq Users,
         \A v \in Users \ new : member'[v] = member[v],
         \A u \in new : \/ member'[u].order = NoOrder
                        \/ /\ member'[u].order \in Nat
                           /\ \A v \in Users : member[v].order < member'[u].order,
         \A u, v \in new : u # v /\ member'[u].order # NoOrder
                             => member'[u].order # member'[v].order,
         UNCHANGED leaveVars, mixed => mixed', (\E u \in Users : at[u] = "list") => mixed'
  PROVE  OrderInv'
<1> SUFFICES ASSUME Serial, ~mixed'
             PROVE  OrdersDistinct' /\ GapIsFree'
  BY DEF OrderInv
<1>1. OrdersDistinct /\ GapIsFree /\ OneAtATime
  BY DEF OrderInv, PlacesInv
<1>2. \A u, v \in Members : u # v /\ member[u].order # NoOrder => member[u].order # member[v].order
  BY <1>1 DEF OrdersDistinct, OrderInv
<1>3. \A v \in Users : member[v].order \in Nat \cup {NoOrder}
                       /\ (member[v].order # NoOrder => v \in Members)
  BY OrdersAre
<1>4. ASSUME NEW u \in Users, NEW v \in Users, u # v, member'[u].order # NoOrder
      PROVE  member'[u].order # member'[v].order
  <2>1. CASE u \in new /\ v \in new
    BY <1>4, <2>1
  <2>2. CASE u \in new /\ v \notin new
    BY <1>3, <1>4, <2>2 DEF NoOrder
  <2>3. CASE u \notin new /\ v \in new
    BY <1>3, <1>4, <2>3 DEF NoOrder
  <2>4. CASE u \notin new /\ v \notin new
    BY <1>2, <1>3, <1>4, <2>4
  <2> QED
    BY <2>1, <2>2, <2>3, <2>4
<1>5. OrdersDistinct'
  BY <1>4 DEF OrdersDistinct, Members
<1>6. ASSUME NEW u \in Users, NEW v \in Users, NEW e \in todo'[u],
             member'[v].order = e.row.order - 1
      PROVE  \E f \in todo'[u] : f.who = v
  <2>1. e \in todo[u] /\ e.who \in Users /\ member[e.who] = e.row /\ e.row.order >= 1
        /\ e.row.order \in Nat
    <3>1. e \in todo[u] /\ e.who \in Users /\ member[e.who] = e.row /\ e.row.order >= 1
      BY <1>1, <1>6 DEF OneAtATime, WaitInv, TypeOK, RowsAreReal
    <3> QED
      BY <1>3, <3>1 DEF NoOrder
  <2>2. v \notin new
    <3>1. CASE member'[v].order = NoOrder
      BY <1>6, <2>1, <3>1 DEF NoOrder
    <3>2. CASE member'[v].order # NoOrder
      BY <1>6, <2>1, <3>2
    <3> QED
      BY <3>1, <3>2
  <2>3. member[v].order = e.row.order - 1
    BY <1>6, <2>2
  <2> QED
    BY <1>1, <2>1, <2>3 DEF GapIsFree
<1>7. GapIsFree'
  <2>1. \A u \in Users : at'[u] \in {"delete", "list"} => mine'[u].order # NoOrder
    BY <1>1 DEF GapIsFree
  <2>2. \A u, v \in Users : at'[u] = "list" => member'[v].order # mine'[u].order
    OBVIOUS
  <2> QED
    BY <1>6, <2>1, <2>2 DEF GapIsFree
<1> QED
  BY <1>5, <1>7

LEMMA AddCommitOrders ==
  ASSUME WaitInv, PlacesInv, OrderInv, NEW u \in Users, AddCommit(u)
  PROVE  OrderInv'
<1>1. UNCHANGED leaveVars
  BY DEF AddCommit
<1>2. CASE u \in Members
  <2>1. UNCHANGED <<member, mixed>>
    BY <1>2 DEF AddCommit
  <2> QED
    BY <1>1, <2>1, SameOrders
<1>3. CASE u \notin Members
  <2>1. PICK n \in 0 .. MaxOrder : NextOrder(n) /\ Insert([v \in {u} |-> n])
    BY <1>3 DEF AddCommit
  <2>2. n \in Nat
    BY NumbersAre
  <2>3. member'[u].order = n /\ \A v \in Users \ {u} : member'[v] = member[v]
    BY <1>3, <2>1, <2>2, InsertWaits
  <2>4. \A v \in Users : member[v].order < n
    BY <2>1 DEF NextOrder
  <2>5. mixed' = (mixed \/ \E v \in Users : at[v] = "list")
    BY <2>1 DEF Insert
  <2>6. {u} \cap Members = {} /\ {u} \subseteq Users
    BY <1>3
  <2>7. mixed => mixed'
    BY <2>5
  <2>8. (\E v \in Users : at[v] = "list") => mixed'
    BY <2>5
  <2>9. \A w \in {u} : /\ member'[w].order \in Nat
                      /\ \A v \in Users : member[v].order < member'[w].order
    BY <2>2, <2>3, <2>4
  <2> QED
    BY <1>1, <2>3, <2>6, <2>7, <2>8, <2>9, NewOrders
<1> QED
  BY <1>2, <1>3

LEMMA JoinByCodeOrders ==
  ASSUME WaitInv, PlacesInv, OrderInv, NEW u \in Users, JoinByCode(u)
  PROVE  OrderInv'
<1>1. UNCHANGED leaveVars /\ u \notin Members /\ Insert([v \in {u} |-> NoOrder])
  BY DEF JoinByCode
<1>2. member'[u].order = NoOrder /\ \A v \in Users \ {u} : member'[v] = member[v]
  BY <1>1, InsertWaits
<1>3. mixed' = (mixed \/ \E v \in Users : at[v] = "list")
  BY <1>1 DEF Insert
<1>4. {u} \cap Members = {} /\ {u} \subseteq Users
  BY <1>1
<1>5. mixed => mixed'
  BY <1>3
<1>6. (\E v \in Users : at[v] = "list") => mixed'
  BY <1>3
<1>7. \A w \in {u} : member'[w].order = NoOrder
  BY <1>2
<1> QED
  BY <1>1, <1>2, <1>4, <1>5, <1>6, <1>7, NewOrders

LEMMA AdmitCommitOrders ==
  ASSUME WaitInv, PlacesInv, OrderInv, AdmitCommit
  PROVE  OrderInv'
<1> DEFINE n == Min({slots, Cardinality(Waiting)})
<1>1. UNCHANGED leaveVars
  BY DEF AdmitCommit
<1>2. n \in Nat
  BY MembersAre, LesserOf DEF WaitInv, TypeOK
<1>3. PICK queue \in Queues(n) :
        IF DOMAIN queue \cap Members # {}
        THEN UNCHANGED <<member, mixed>>
        ELSE \E first \in 0 .. MaxOrder :
               NextOrder(first) /\ Insert([u \in DOMAIN queue |-> first + queue[u] - 1])
  BY DEF AdmitCommit
<1> HIDE DEF n
<1>4. CASE DOMAIN queue \cap Members # {}
  BY <1>1, <1>3, <1>4, SameOrders
<1>5. CASE DOMAIN queue \cap Members = {}
  <2>1. PICK first \in 0 .. MaxOrder :
          NextOrder(first) /\ Insert([u \in DOMAIN queue |-> first + queue[u] - 1])
    BY <1>3, <1>5
  <2>2. first \in Nat
    BY NumbersAre
  <2>3. /\ \A u \in DOMAIN queue : member'[u].order = first + queue[u] - 1
        /\ \A u \in Users \ DOMAIN queue : member'[u] = member[u]
        /\ mixed => mixed'
        /\ (\E u \in Users : at[u] = "list") => mixed'
    BY <1>2, <1>3, <1>5, <2>1, <2>2, Admitted DEF WaitInv
  <2>4. /\ DOMAIN queue \subseteq Users
        /\ \A u \in DOMAIN queue : queue[u] \in Nat \ {0}
        /\ \A u, v \in DOMAIN queue : queue[u] = queue[v] => u = v
    BY <1>2, <1>3, QueuesAre, MembersAre DEF WaitInv
  <2>5. \A v \in Users : member[v].order < first
    BY <2>1 DEF NextOrder
  <2>6. \A v \in Users : member[v].order \in Int
    BY OrdersAre DEF NoOrder
  <2>7. \A u \in DOMAIN queue : /\ member'[u].order \in Nat
                                /\ \A v \in Users : member[v].order < member'[u].order
    BY <2>2, <2>3, <2>4, <2>5, <2>6
  <2>8. \A u, v \in DOMAIN queue : u # v => member'[u].order # member'[v].order
    BY <2>2, <2>3, <2>4
  <2> QED
    BY <1>1, <1>5, <2>3, <2>4, <2>7, <2>8, NewOrders
<1> QED
  BY <1>4, <1>5

LEMMA RemoveOrders ==
  ASSUME WaitInv, PlacesInv, OrderInv, NEW u \in Users, RemoveMember(u)
  PROVE  OrderInv'
<1> SUFFICES ASSUME Serial, ~mixed'
             PROVE  OrdersDistinct' /\ GapIsFree'
  BY DEF OrderInv
<1>1. /\ member'[u] = NoRow
      /\ \A v \in Users \ {u} : member'[v] = member[v]
  BY PutIs, NoRowIsRow DEF RemoveMember, WaitInv
<1>2. Leaving = {} /\ UNCHANGED <<leaveVars, mixed>>
  BY DEF RemoveMember, Idle, Busy
<1>3. \A v \in Users : at[v] = "idle" /\ todo[v] = {}
  BY <1>2 DEF Leaving, PlacesInv, OneAtATime
<1>4. GapIsFree'
  BY <1>2, <1>3 DEF GapIsFree
<1>5. OrdersDistinct'
  BY <1>1, <1>2 DEF OrderInv, OrdersDistinct, Members
<1> QED
  BY <1>4, <1>5

LEMMA LeaveFindOrders ==
  ASSUME WaitInv, PlacesInv, OrderInv, NEW u \in Users, LeaveFind(u)
  PROVE  OrderInv'
<1> SUFFICES ASSUME Serial, ~mixed'
             PROVE  OrdersDistinct' /\ GapIsFree'
  BY DEF OrderInv
<1>1. /\ Leaving = {} /\ UNCHANGED <<member, todo>>
      /\ at' = [at EXCEPT ![u] = "delete"] /\ mine' = [mine EXCEPT ![u] = member[u]]
  BY DEF LeaveFind, Idle, Busy
<1>2. ~mixed /\ member[u].order # NoOrder
  BY DEF LeaveFind, WaitInv, TypeOK
<1>3. \A v \in Users : at[v] = "idle" /\ todo[v] = {}
  BY <1>1 DEF Leaving, PlacesInv, OneAtATime
<1>4. mine'[u] = member[u] /\ at'[u] = "delete" /\ \A v \in Users \ {u} : at'[v] = "idle"
  BY <1>1, <1>3 DEF WaitInv, TypeOK
<1>5. GapIsFree'
  BY <1>1, <1>2, <1>3, <1>4 DEF GapIsFree
<1>6. OrdersDistinct'
  BY <1>1, <1>2 DEF OrderInv, OrdersDistinct, Members
<1> QED
  BY <1>5, <1>6

LEMMA LeaveDeleteOrders ==
  ASSUME WaitInv, PlacesInv, OrderInv, NEW u \in Users, LeaveDelete(u)
  PROVE  OrderInv'
<1> SUFFICES ASSUME Serial, ~mixed'
             PROVE  OrdersDistinct' /\ GapIsFree'
  BY DEF OrderInv
<1>1. /\ at[u] = "delete" /\ at' = [at EXCEPT ![u] = "list"]
      /\ Put(u, IF member[u].gen = mine[u].gen THEN NoRow ELSE member[u])
      /\ UNCHANGED <<mine, todo, mixed>>
  BY DEF LeaveDelete
<1>2. member[u] = mine[u] /\ mine[u].order # NoOrder
  BY <1>1 DEF PlacesInv, OneAtATime, OrderInv, GapIsFree
<1>3. /\ member'[u] = NoRow
      /\ \A v \in Users \ {u} : member'[v] = member[v]
  BY <1>1, <1>2, PutIs, NoRowIsRow DEF WaitInv
<1>4. /\ todo[u] = {} /\ at'[u] = "list"
      /\ \A v \in Users \ {u} : at'[v] = "idle" /\ todo[v] = {}
  <2>1. todo[u] = {}
    BY <1>1 DEF PlacesInv, OneAtATime
  <2> QED
    BY <1>1, <2>1, OnlyLeave DEF PlacesInv, WaitInv, TypeOK
<1>5. \A v \in Users : member'[v].order # mine[u].order
  <2>1. u \in Members
    BY <1>2, OrdersAre
  <2>2. ASSUME NEW v \in Users \ {u}
        PROVE  member[v].order # mine[u].order
    BY <1>1, <1>2, <2>1, <2>2, OrdersAre DEF OrderInv, OrdersDistinct
  <2> QED
    BY <1>2, <1>3, <2>2, NoRowIsRow
<1>6. GapIsFree'
  BY <1>1, <1>2, <1>4, <1>5 DEF GapIsFree
<1>7. OrdersDistinct'
  BY <1>1, <1>3 DEF OrderInv, OrdersDistinct, Members
<1> QED
  BY <1>6, <1>7

LEMMA LeaveListOrders ==
  ASSUME WaitInv, PlacesInv, OrderInv, NEW u \in Users, LeaveList(u)
  PROVE  OrderInv'
<1> SUFFICES ASSUME Serial, ~mixed'
             PROVE  OrdersDistinct' /\ GapIsFree'
  BY DEF OrderInv
<1> DEFINE list == {[who |-> v, row |-> member[v]] :
                      v \in {w \in Members : Rank(member[w].order) > Rank(mine[u].order)}}
<1>1. /\ at[u] = "list" /\ UNCHANGED <<member, mixed>>
      /\ at' = [at EXCEPT ![u] = IF list = {} THEN "idle" ELSE "shift"]
      /\ todo' = [todo EXCEPT ![u] = list]
  BY DEF LeaveList
<1>2. /\ at'[u] \in {"idle", "shift"} /\ todo'[u] = list
      /\ \A v \in Users \ {u} : at'[v] = "idle" /\ todo'[v] = {}
  BY <1>1, OnlyLeave DEF PlacesInv, WaitInv, TypeOK
<1>3. OrdersDistinct /\ mine[u].order \in Nat /\ \A v \in Users : member[v].order # mine[u].order
  <2>1. mine[u].order \in Nat \cup {NoOrder}
    BY NumbersAre DEF WaitInv, TypeOK, Rows, Orders
  <2> QED
    BY <1>1, <2>1 DEF OrderInv, GapIsFree
<1>4. ASSUME NEW v \in Users, NEW e \in list, member[v].order = e.row.order - 1
      PROVE  \E f \in list : f.who = v
  <2>1. PICK w \in Members : /\ Rank(member[w].order) > Rank(mine[u].order)
                             /\ e = [who |-> w, row |-> member[w]]
    OBVIOUS
  <2>2. w \in Users /\ member[w].order \in Nat \cup {NoOrder} /\ member[v].order \in Nat \cup {NoOrder}
    BY OrdersAre DEF Members
  <2>3. member[w].order > mine[u].order /\ member[w].order \in Nat
    BY <1>3, <2>1, <2>2 DEF Rank, NoOrder
  <2>4. member[v].order = member[w].order - 1
    BY <1>4, <2>1
  <2>5. member[v].order \in Nat /\ member[v].order > mine[u].order
    BY <1>3, <2>2, <2>3, <2>4
  <2>6. v \in Members /\ Rank(member[v].order) > Rank(mine[u].order)
    BY <1>3, <2>5, OrdersAre DEF Rank, NoOrder
  <2>7. [who |-> v, row |-> member[v]] \in list
    BY <2>6
  <2> QED
    BY <2>7
<1> HIDE DEF list
<1>5. GapIsFree'
  <2>1. \A v \in Users : at'[v] \notin {"delete", "list"}
    BY <1>2
  <2>2. \A v, w \in Users : \A e \in todo'[v] :
          member'[w].order = e.row.order - 1 => \E f \in todo'[v] : f.who = w
    BY <1>1, <1>2, <1>4
  <2> QED
    BY <2>1, <2>2 DEF GapIsFree
<1>6. OrdersDistinct'
  BY <1>1, <1>3 DEF OrdersDistinct, Members
<1> QED
  BY <1>5, <1>6

LEMMA LeaveShiftOrders ==
  ASSUME WaitInv, PlacesInv, OrderInv, NEW u \in Users, LeaveShift(u)
  PROVE  OrderInv'
<1> SUFFICES ASSUME Serial, ~mixed'
             PROVE  OrdersDistinct' /\ GapIsFree'
  BY DEF OrderInv
<1>1. PICK next \in todo[u] :
           /\ next.who \in Users /\ member[next.who] = next.row
           /\ next.row.order \in Nat \ {0} /\ member'[next.who].order = next.row.order - 1
           /\ \A e \in todo[u] : next.row.order <= e.row.order
           /\ todo'[u] = todo[u] \ {next}
           /\ \A v \in Users \ {next.who} : member'[v] = member[v]
           /\ UNCHANGED <<lockVars, mine, touched, mixed>>
           /\ \A v \in Users \ {u} : at'[v] = "idle" /\ todo'[v] = {}
           /\ at'[u] = IF todo'[u] = {} THEN "idle" ELSE "shift"
  BY LeaveShiftPlaces DEF PlacesInv
<1>2. /\ \A v, w \in Members : v # w /\ member[v].order # NoOrder => member[v].order # member[w].order
      /\ GapIsFree
  BY <1>1 DEF OrderInv, OrdersDistinct
<1>3. \A e \in todo[u] : /\ e.who \in Users /\ member[e.who] = e.row
                         /\ e.row.order \in Nat \ {0} /\ e \in Entries
  <2>1. \A e \in todo[u] : /\ e.who \in Users /\ member[e.who] = e.row
                           /\ e.row.order >= 1 /\ e \in Entries
    BY DEF PlacesInv, OneAtATime, WaitInv, TypeOK, RowsAreReal, Entries
  <2> QED
    BY <2>1, OrdersAre DEF NoOrder
<1>4. \A v \in Users : member[v].order # next.row.order - 1
  <2>1. ASSUME NEW v \in Users, member[v].order = next.row.order - 1
        PROVE  FALSE
    <3>1. PICK f \in todo[u] : f.who = v
      BY <1>2, <2>1 DEF GapIsFree
    <3>2. f.row.order = next.row.order - 1
      BY <1>3, <2>1, <3>1
    <3> QED
      BY <1>1, <1>3, <3>1, <3>2
  <2> QED
    BY <2>1
<1>5. \A v \in Users : member[v].order # NoOrder => v \in Members
  BY OrdersAre
<1>6. ASSUME NEW v \in Users, NEW w \in Users, v # w, member'[v].order # NoOrder
      PROVE  member'[v].order # member'[w].order
  <2>1. CASE v = next.who
    BY <1>1, <1>4, <1>6, <2>1
  <2>2. CASE w = next.who
    BY <1>1, <1>4, <1>6, <2>2
  <2>3. CASE v # next.who /\ w # next.who
    <3>1. member'[v] = member[v] /\ member'[w] = member[w]
      BY <1>1, <2>3
    <3> QED
      BY <1>2, <1>5, <1>6, <3>1
  <2> QED
    BY <2>1, <2>2, <2>3
<1>7. ASSUME NEW v \in Users, NEW w \in Users, NEW e \in todo'[v],
             member'[w].order = e.row.order - 1
      PROVE  \E f \in todo'[v] : f.who = w
  <2>1. v = u /\ e \in todo[u] /\ e # next
    BY <1>1, <1>7
  <2>2. CASE w = next.who
    <3>1. e.row.order = next.row.order
      BY <1>1, <1>3, <1>7, <2>1, <2>2
    <3>2. e.who # next.who
      BY <1>1, <1>3, <2>1 DEF Entries
    <3>3. member[e.who].order = member[next.who].order /\ member[e.who].order # NoOrder
          /\ e.who \in Users
      BY <1>1, <1>3, <2>1, <3>1 DEF NoOrder
    <3> QED
      BY <1>1, <1>2, <1>5, <3>2, <3>3
  <2>3. CASE w # next.who
    <3>1. member[w].order = e.row.order - 1
      BY <1>1, <1>7, <2>3
    <3>2. PICK f \in todo[u] : f.who = w
      BY <1>2, <2>1, <3>1 DEF GapIsFree
    <3> QED
      BY <1>1, <2>1, <2>3, <3>2
  <2> QED
    BY <2>2, <2>3
<1>8. \A v \in Users : at'[v] \notin {"delete", "list"}
  BY <1>1
<1>9. GapIsFree'
  BY <1>7, <1>8 DEF GapIsFree
<1>10. OrdersDistinct'
  BY <1>6 DEF OrdersDistinct, Members
<1> QED
  BY <1>9, <1>10

LEMMA TouchSaveOrders ==
  ASSUME WaitInv, PlacesInv, OrderInv, TouchSave
  PROVE  OrderInv'
<1> SUFFICES ASSUME Serial
             PROVE  OrderInv'
  BY DEF OrderInv
<1> QED
  BY TouchSaveIs, SameOrders DEF PlacesInv

LEMMA CrashOrders ==
  ASSUME WaitInv, PlacesInv, OrderInv, Crash
  PROVE  OrderInv'
<1>1. UNCHANGED <<member, mixed>> /\ \A u \in Users : at'[u] = "idle" /\ todo'[u] = {}
  BY DEF Crash
<1>2. GapIsFree'
  BY <1>1 DEF GapIsFree
<1>3. Serial /\ ~mixed' => OrdersDistinct'
  BY <1>1 DEF OrderInv, OrdersDistinct, Members
<1> QED
  BY <1>2, <1>3 DEF OrderInv

LEMMA OrderStep == WaitInv /\ PlacesInv /\ OrderInv /\ [Next]_vars => OrderInv'
<1> SUFFICES ASSUME WaitInv, PlacesInv, OrderInv, [Next]_vars
             PROVE  OrderInv'
  OBVIOUS
<1>1. ASSUME UNCHANGED <<member, leaveVars, mixed>>
      PROVE  OrderInv'
  BY <1>1, SameOrders
<1>2. ASSUME NEW u \in Users,
             \/ JoinCheck(u) \/ JoinSave(u) \/ CancelFind(u) \/ CancelSave(u) \/ CancelShift(u)
             \/ AddCheck(u) \/ TouchFind(u)
      PROVE  OrderInv'
  <2>1. UNCHANGED <<member, leaveVars, mixed>>
    BY <1>2 DEF JoinCheck, JoinSave, CancelFind, CancelSave, CancelShift, AddCheck, TouchFind
  <2> QED
    BY <1>1, <2>1
<1>3. ASSUME NEW u \in Users, MembersRequest(u) \/ InviteRequest(u) \/ WaitlistRequest(u)
      PROVE  OrderInv'
  BY <1>2, <1>3, RemoveOrders, JoinByCodeOrders DEF MembersRequest, InviteRequest, WaitlistRequest
<1>4. ASSUME NEW u \in Users, LeaveFind(u) \/ TouchFind(u) \/ Continue(u)
      PROVE  OrderInv'
  BY <1>2, <1>4, LeaveFindOrders, AddCommitOrders, LeaveDeleteOrders, LeaveListOrders,
     LeaveShiftOrders DEF Continue
<1>5. CASE AdmitCheck \/ UNCHANGED vars
  <2>1. UNCHANGED <<member, leaveVars, mixed>>
    BY <1>5 DEF AdmitCheck, vars
  <2> QED
    BY <1>1, <2>1
<1> QED
  BY <1>3, <1>4, <1>5, TouchSaveOrders, AdmitCommitOrders, CrashOrders DEF Next

LEMMA PlacesInit == Init => PlacesInv /\ OrderInv
<1> SUFFICES ASSUME Init
             PROVE  PlacesInv /\ OrderInv
  OBVIOUS
<1>1. /\ \A u \in Users : member[u] = NoRow /\ at[u] = "idle" /\ todo[u] = {}
      /\ touched = {} /\ adding = {} /\ slots = 0
  BY DEF Init
<1>2. Members = {} /\ Ordered = {} /\ Leaving = {}
  BY <1>1, NoRowIsRow DEF Members, Ordered, Leaving
<1>3. OneAtATime
  BY <1>1, <1>2 DEF OneAtATime
<1>4. PlacesAreKept
  BY <1>1, <1>2, FS_EmptySet, NumbersAre DEF PlacesAreKept
<1>5. OrdersDistinct /\ GapIsFree
  BY <1>1, <1>2 DEF OrdersDistinct, GapIsFree
<1> QED
  BY <1>3, <1>4, <1>5 DEF PlacesInv, OrderInv

(* No addition, admission or departure, for any users and capacities and
   however they interleave with each other and with crashes, leaves a group
   with more members in its order than places or, short of a leave that takes
   somebody else's order for its own, with one payout order twice, as long as
   the handlers that lock nothing do not overlap (addMember, leaveGroup,
   suspendMember, admitFromWaitlist). *)
THEOREM PlacesAndOrdersHoldTheorem == Spec => []PlacesAndOrdersHold
<1>1. WaitInv /\ PlacesInv => CapacityHolds
  <2> SUFFICES ASSUME WaitInv, PlacesInv, Serial
               PROVE  Cardinality({u \in Members : member[u].order # NoOrder}) <= MaxMembers
    BY DEF CapacityHolds
  <2>1. {u \in Members : member[u].order # NoOrder} = Ordered
    BY OrdersAre DEF Ordered, Members
  <2>2. Cardinality(Ordered) <= MaxMembers
    BY OrderedAre DEF PlacesInv, PlacesAreKept, WaitInv
  <2> QED
    BY <2>1, <2>2
<1>2. OrderInv => OrdersDistinct
  BY DEF OrderInv, OrdersDistinct
<1>3. MembersInv => PlacesAndOrdersHold
  BY <1>1, <1>2 DEF MembersInv, PlacesAndOrdersHold, WaitInv
<1>4. Init => MembersInv
  BY WaitInit, PlacesInit DEF MembersInv
<1>5. MembersInv /\ [Next]_vars => MembersInv'
  BY WaitStep, PlacesStep, OrderStep DEF MembersInv
<1> QED
  BY <1>3, <1>4, <1>5, PTL DEF Spec
=============================================================================
