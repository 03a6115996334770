---------------------------- MODULE GroupLifecycle ----------------------------
(***************************************************************************)
(* The administration of one group (groups.service.ts and its controllers): *)
(* update, activation, hand-over to another member and archival, and the    *)
(* hourly task that starts groups (group-status.service.ts).  Every one of  *)
(* them reads the row, judges it, and later saves the whole of it.          *)
(***************************************************************************)
EXTENDS Integers, FiniteSets

CONSTANTS
  Wallets,          \* the creator and the people who may join
  Creator,
  Editors,          \* requests, and runs of the task, under way
  MinMembers,
  MaxTerms,         \* bound: versions of the terms of the group
  MaxGroupFaults    \* bound: crashes and failed calls

ASSUME GroupAssumption ==
  /\ IsFiniteSet(Wallets) /\ Creator \in Wallets
  /\ {MinMembers, MaxTerms, MaxGroupFaults} \subseteq Nat

VARIABLES
  groupRow,     \* the row of the group
  activeOnes,   \* wallets with an ACTIVE membership
  editor,       \* what each request is at
  crossed,      \* (history) requests whose row others have written since they read it
  undone,       \* (history) one of them has saved it, or a process died in a deployment
  groupFaults

groupVars == <<groupRow, activeOnes, editor, crossed, undone, groupFaults>>
history == <<crossed, undone>>

-----------------------------------------------------------------------------
GroupRow ==
  [status : {"PENDING", "ACTIVE"}, admin : Wallets, terms : 0 .. MaxTerms,
   contract : BOOLEAN, archived : BOOLEAN]

\* createGroup leaves a PENDING group of its caller, who may name a contract.
NewGroups ==
  {[status |-> "PENDING", admin |-> Creator, terms |-> 0, contract |-> c,
    archived |-> FALSE] : c \in BOOLEAN}

NotEditing == [at |-> "none"]
EditorAt ==
  [at : {"update", "activate", "deploy", "deployed", "undeployed", "archive",
         "transfer", "count", "start"},
   row : GroupRow]

\* The group is ACTIVE already, its contract on the way.
Deploying == {"deploy", "deployed", "undeployed"}

GroupTypeOK ==
  /\ groupRow \in GroupRow
  /\ activeOnes \subseteq Wallets
  /\ \A e \in Editors : editor[e] \in EditorAt \cup {NotEditing}
  /\ crossed \subseteq Editors
  /\ undone \in BOOLEAN
  /\ groupFaults \in 0 .. MaxGroupFaults

GoesTo(e, at, row) == editor' = [editor EXCEPT ![e] = [at |-> at, row |-> row]]
Answers(e) == editor' = [editor EXCEPT ![e] = NotEditing]

\* A row is found unless it is archived.
FindGroupById == ~groupRow.archived

\* findOne by the caller, who must be the admin the row names.
FindAsAdmin(e) == editor[e] = NotEditing /\ FindGroupById

\* save writes each column in which the entity differs from the row, deletedAt
\* among them: whatever was saved since the entity was read is undone.
SaveGroup(e, row) ==
  /\ groupRow' = row
  /\ undone' = (undone \/ e \in crossed)

\* What e has written, the others under way have not read.
Overtakes(e) == crossed' = {o \in Editors : editor[o] # NotEditing} \ {e}
Leaves(e) == crossed' = crossed \ {e}

-----------------------------------------------------------------------------
\* Mutation of FindForUpdate: the status is not asked.
FindForUpdateAny(e) ==
  /\ FindAsAdmin(e)
  /\ groupRow.terms < MaxTerms
  /\ GoesTo(e, "update", [groupRow EXCEPT !.terms = @ + 1])
  /\ UNCHANGED <<groupRow, activeOnes, history, groupFaults>>

\* update: anything but the status may be assigned, the admin included.
FindForUpdate(e) ==
  /\ FindAsAdmin(e) /\ groupRow.status = "PENDING"
  /\ \/ /\ groupRow.terms < MaxTerms
        /\ GoesTo(e, "update", [groupRow EXCEPT !.terms = @ + 1])
     \/ \E w \in Wallets : GoesTo(e, "update", [groupRow EXCEPT !.admin = w])
     \/ GoesTo(e, "update", [groupRow EXCEPT !.contract = TRUE])
  /\ UNCHANGED <<groupRow, activeOnes, history, groupFaults>>

SaveUpdate(e) ==
  /\ editor[e].at = "update"
  /\ SaveGroup(e, editor[e].row) /\ Overtakes(e) /\ Answers(e)
  /\ UNCHANGED <<activeOnes, groupFaults>>

\* activateGroup: enough members, then the row is saved as started ...
FindForActivation(e) ==
  /\ FindAsAdmin(e) /\ groupRow.status = "PENDING"
  /\ Cardinality(activeOnes) >= MinMembers
  /\ GoesTo(e, "activate", [groupRow EXCEPT !.status = "ACTIVE"])
  /\ UNCHANGED <<groupRow, activeOnes, history, groupFaults>>

SaveActivation(e) ==
  /\ editor[e].at = "activate"
  /\ SaveGroup(e, editor[e].row) /\ Overtakes(e) /\ GoesTo(e, "deploy", editor[e].row)
  /\ UNCHANGED <<activeOnes, groupFaults>>

\* A deployment fails, and is to be undone with what the entity holds by then.
GroupFault == groupFaults < MaxGroupFaults /\ groupFaults' = groupFaults + 1
Undoes(e) == GoesTo(e, "undeployed", [editor[e].row EXCEPT !.status = "PENDING"])

\* ... and the contract deployed: its address is saved, or the start undone, ...
DeployContract(e) ==
  /\ editor[e].at = "deploy"
  /\ \/ /\ GoesTo(e, "deployed", [editor[e].row EXCEPT !.contract = TRUE])
        /\ UNCHANGED groupFaults
     \/ Undoes(e) /\ GroupFault
  /\ UNCHANGED <<groupRow, activeOnes, history>>

SaveDeployment(e) ==
  /\ editor[e].at \in {"deployed", "undeployed"}
  /\ SaveGroup(e, editor[e].row) /\ Overtakes(e) /\ Answers(e)
  /\ UNCHANGED <<activeOnes, groupFaults>>

\* ... also when the address cannot be saved.
DeploymentIsLost(e) ==
  /\ editor[e].at = "deployed"
  /\ Undoes(e) /\ GroupFault
  /\ UNCHANGED <<groupRow, activeOnes, history>>

\* transferAdmin: the new admin must be an active member.
FindForTransfer(e) ==
  /\ FindAsAdmin(e)
  /\ GoesTo(e, "transfer", groupRow)
  /\ UNCHANGED <<groupRow, activeOnes, history, groupFaults>>

TransferAdmin(e) ==
  /\ editor[e].at = "transfer"
  /\ \/ /\ \E w \in activeOnes : SaveGroup(e, [editor[e].row EXCEPT !.admin = w])
        /\ Overtakes(e)
     \/ UNCHANGED <<groupRow, undone>> /\ Leaves(e)
  /\ Answers(e)
  /\ UNCHANGED <<activeOnes, groupFaults>>

\* softDelete: only deletedAt is written.
FindForArchival(e) ==
  /\ FindAsAdmin(e)
  /\ GoesTo(e, "archive", groupRow)
  /\ UNCHANGED <<groupRow, activeOnes, history, groupFaults>>

SoftDelete(e) ==
  /\ editor[e].at = "archive"
  /\ groupRow' = [groupRow EXCEPT !.archived = TRUE]
  /\ Overtakes(e) /\ Answers(e)
  /\ UNCHANGED <<activeOnes, undone, groupFaults>>

\* updateGroupStatuses finds the group PENDING, ...
FindForStatus(e) ==
  /\ editor[e] = NotEditing /\ FindGroupById
  /\ groupRow.status = "PENDING"
  /\ GoesTo(e, "count", groupRow)
  /\ UNCHANGED <<groupRow, activeOnes, history, groupFaults>>

\* ... counts its memberships, those that are not ACTIVE too, ...
CountMembers(e) ==
  /\ editor[e].at = "count"
  /\ \/ /\ editor[e].row.contract
        /\ GoesTo(e, "start", [editor[e].row EXCEPT !.status = "ACTIVE"])
        /\ UNCHANGED crossed
     \/ /\ ~editor[e].row.contract \/ Cardinality(activeOnes) < MinMembers
        /\ Answers(e) /\ Leaves(e)
  /\ UNCHANGED <<groupRow, activeOnes, undone, groupFaults>>

\* ... and starts it, if it has a contract.
SaveStart(e) ==
  /\ editor[e].at = "start"
  /\ SaveGroup(e, editor[e].row) /\ Overtakes(e) /\ Answers(e)
  /\ UNCHANGED <<activeOnes, groupFaults>>

\* The process stops, or the database fails the last save: what the request had
\* not saved is lost.
GroupCrash(e) ==
  /\ editor[e] # NotEditing /\ GroupFault
  /\ undone' = (undone \/ editor[e].at \in Deploying)
  /\ Answers(e) /\ Leaves(e)
  /\ UNCHANGED <<groupRow, activeOnes>>

\* Members join and leave a group that has not started.
MembersChange ==
  /\ groupRow.status = "PENDING"
  /\ activeOnes' \in SUBSET Wallets
  /\ UNCHANGED <<groupRow, editor, history, groupFaults>>

-----------------------------------------------------------------------------
GroupInit ==
  /\ groupRow \in NewGroups
  /\ activeOnes = {}
  /\ editor = [e \in Editors |-> NotEditing]
  /\ crossed = {} /\ undone = FALSE
  /\ groupFaults = 0

UpdateGroup(e) == FindForUpdate(e) \/ SaveUpdate(e)
ActivateGroup(e) ==
  \/ FindForActivation(e) \/ SaveActivation(e)
  \/ DeployContract(e) \/ SaveDeployment(e) \/ DeploymentIsLost(e)
TransferGroup(e) == FindForTransfer(e) \/ TransferAdmin(e)
RemoveGroup(e) == FindForArchival(e) \/ SoftDelete(e)
UpdateGroupStatus(e) == FindForStatus(e) \/ CountMembers(e) \/ SaveStart(e)

GroupNext ==
  \/ MembersChange
  \/ \E e \in Editors :
       \/ UpdateGroup(e) \/ ActivateGroup(e)
       \/ TransferGroup(e) \/ RemoveGroup(e) \/ UpdateGroupStatus(e)
       \/ GroupCrash(e)

GroupSpec == GroupInit /\ [][GroupNext]_groupVars

-----------------------------------------------------------------------------
\* "Updates are only permitted while the group is in PENDING status": an update
\* is saved over a group that has started, and a started group taken back to
\* PENDING, only by a request that others have overtaken since it read the row
\* (another request of the admin, or the status task), or by the roll-back of a
\* deployment that failed.
OnlyPendingUpdated ==
  [][\A e \in Editors :
       editor[e].at # "none" /\ editor'[e] # editor[e] /\ e \notin crossed =>
         /\ editor[e].at = "update" /\ groupRow' # groupRow => groupRow.status = "PENDING"
         /\ groupRow.status = "ACTIVE" /\ groupRow'.status = "PENDING"
              => editor[e].at = "undeployed"]_groupVars

\* Until such a request has saved its row, or a process has died between the two
\* saves of an activation, a group that runs has a contract or is about to, by
\* one request alone.
StartedIsDeployed ==
  ~undone =>
    /\ groupRow.status = "ACTIVE" =>
         groupRow.contract \/ \E e \in Editors : editor[e].at \in Deploying
    /\ \A e \in Editors : editor[e].at \in Deploying =>
         groupRow.status = "ACTIVE" /\ \A o \in Editors \ {e} : editor[o].at \notin Deploying

\* Neither edits, hand-overs, activations nor the status task get a group to run
\* that should not, or stop one that does, as long as none of them writes over
\* another (update, activateGroup, updateGroupStatuses).
StartedGroupsAreKept == OnlyPendingUpdated /\ []StartedIsDeployed
=============================================================================
