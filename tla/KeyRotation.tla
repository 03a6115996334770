----------------------------- MODULE KeyRotation -----------------------------
(***************************************************************************)
(* Field encryption and its key rotation (common/encryption,                *)
(* scripts/rotate-encryption-keys.ts): every value carries the version of   *)
(* its key; instances write under the version they are deployed with, and a *)
(* job goes over the rows of a table in batches, in the order of their ids, *)
(* and encrypts them anew, from a checkpoint it saves with every batch.     *)
(* One table with one encrypted column.                                     *)
(***************************************************************************)
EXTENDS Integers, FiniteSets

CONSTANTS
  MaxId,            \* the ids are 1 .. MaxId; rows may be missing
  KeyVersions,      \* the versions of the key ring
  CryptoInstances,  \* instances of the backend
  RotationBatch,    \* ROTATION_BATCH_SIZE
  MaxFailures       \* ROTATION_MAX_FAILURES

ASSUME RotationAssumption ==
  /\ MaxId \in Nat /\ RotationBatch \in Nat \ {0} /\ MaxFailures \in Nat
  /\ KeyVersions \subseteq Nat \ {0}

VARIABLES
  pii,        \* the rows: the version of their key, NoKey if there is no such
              \* row, and whether they hold what was last written
  active,     \* the version each instance encrypts with
  progress,   \* the row of pii_encryption_key_rotation_progress
  rotation,   \* the run of the job: its keys, and how far its batch goes
  batch,      \* the rows it has read
  excused     \* rows that could not be decrypted, or were written under
              \* another version, since the campaign began

rotationVars == <<pii, active, progress, rotation, batch, excused>>

-----------------------------------------------------------------------------
Ids == 1 .. MaxId
NoKey == 0
PiiRow == [key : KeyVersions \cup {NoKey}, latest : BOOLEAN]
NoRow == [key |-> NoKey, latest |-> TRUE]
NotRun == [target |-> NoKey, last |-> 0, failed |-> 0, status |-> "pending"]
NoBatch == [id \in Ids |-> NoRow]
NotRotating == [at |-> "none", target |-> NoKey, others |-> FALSE,
                upto |-> 0, short |-> FALSE]

Progress == [target : KeyVersions \cup {NoKey}, last : 0 .. MaxId,
             failed : 0 .. MaxFailures + 1,
             status : {"pending", "running", "completed", "failed"}]
\* others: the ring holds the other keys; short: the batch is not full.
Rotation == [at : {"none", "fetch", "write", "check"},
             target : KeyVersions \cup {NoKey}, others : BOOLEAN,
             upto : 0 .. MaxId, short : BOOLEAN]

RotationTypeOK ==
  /\ pii \in [Ids -> PiiRow] /\ batch \in [Ids -> PiiRow]
  /\ active \in [CryptoInstances -> KeyVersions]
  /\ progress \in Progress /\ rotation \in Rotation
  /\ excused \subseteq Ids

-----------------------------------------------------------------------------
\* An instance is deployed with another active version.
DeployKey(i) ==
  /\ \E v \in KeyVersions : active' = [active EXCEPT ![i] = v]
  /\ UNCHANGED <<pii, progress, rotation, batch, excused>>

\* encrypt: an instance inserts or updates a row under its active version.  A
\* batch that has been read holds the value before.
WriteRow(i, id) ==
  /\ pii' = [pii EXCEPT ![id] = [key |-> active[i], latest |-> TRUE]]
  /\ batch' = [batch EXCEPT ![id] =
                 [key |-> batch[id].key, latest |-> batch[id].key = NoKey]]
  /\ excused' = IF active[i] = progress.target THEN excused
                                               ELSE excused \cup {id}
  /\ UNCHANGED <<active, progress, rotation>>

-----------------------------------------------------------------------------
\* rotateTarget: a campaign towards the version that is active is resumed, one
\* that is completed is left alone, and any other one begins anew.
Resumed(target) ==
  IF progress.target = target
  THEN [progress EXCEPT !.status = "running"]
  ELSE [target |-> target, last |-> 0, failed |-> 0, status |-> "running"]

StartRotation ==
  /\ rotation.at = "none"
  /\ \E i \in CryptoInstances, others \in BOOLEAN :
       LET target == active[i]
       IN  /\ ~(progress.target = target /\ progress.status = "completed")
           /\ progress' = Resumed(target)
           /\ excused' = IF progress.target = target THEN excused ELSE {}
           /\ rotation' = [NotRotating EXCEPT !.at = "fetch",
                             !.target = target, !.others = others]
  /\ UNCHANGED <<pii, active, batch>>

\* fetchBatch: the first rows after the checkpoint.
Ahead == {id \in Ids : id > progress.last /\ pii[id].key # NoKey}

FetchBatch ==
  /\ rotation.at = "fetch"
  /\ \E upto \in Ahead, short \in BOOLEAN :
       LET taken == {id \in Ahead : id <= upto}
           size == Cardinality(taken)
       IN  /\ IF short THEN size < RotationBatch /\ taken = Ahead
                       ELSE size = RotationBatch
           /\ batch' = [id \in Ids |-> IF id \in taken THEN pii[id] ELSE NoRow]
           /\ rotation' = [rotation EXCEPT !.at = "write", !.upto = upto,
                             !.short = short]
  /\ UNCHANGED <<pii, active, progress, excused>>

FinishRotation ==
  /\ rotation.at = "fetch" /\ Ahead = {}
  /\ progress' = [progress EXCEPT !.status = "completed"]
  /\ rotation' = NotRotating
  /\ UNCHANGED <<pii, active, batch, excused>>

\* The values of a batch under another version are decrypted, if their key is
\* in the ring, and encrypted with the active one, ...
OldValues == {id \in Ids : batch[id].key \notin {NoKey, rotation.target}}
Unreadable == IF rotation.others THEN {} ELSE OldValues
Reencrypted == OldValues \ Unreadable
Failures(n) == IF progress.failed + n > MaxFailures THEN MaxFailures + 1
                                                    ELSE progress.failed + n

\* Mutation of WriteBatch: the checkpoint is saved before the rows are written.
WriteBatchAfter ==
  /\ rotation.at = "write"
  /\ progress' = [progress EXCEPT !.last = rotation.upto]
  /\ rotation' = [rotation EXCEPT !.at = "check"]
  /\ pii' \in {pii, [id \in Ids |->
                IF id \in Reencrypted
                THEN [batch[id] EXCEPT !.key = rotation.target]
                ELSE pii[id]]}
  /\ excused' = excused \cup Unreadable
  /\ batch' = NoBatch
  /\ UNCHANGED active

\* ... and they are written in one transaction with the checkpoint, each by its
\* id, whatever the row holds by then.
WriteBatch ==
  /\ rotation.at = "write"
  /\ pii' = [id \in Ids |->
       IF id \in Reencrypted
       THEN [batch[id] EXCEPT !.key = rotation.target] ELSE pii[id]]
  /\ progress' = [progress EXCEPT !.last = rotation.upto,
                    !.failed = Failures(Cardinality(Unreadable))]
  /\ rotation' = [rotation EXCEPT !.at = "check"]
  /\ excused' = excused \cup Unreadable
  /\ batch' = NoBatch
  /\ UNCHANGED active

\* Too many failures end the run, and so does a batch that is not full.
CheckBatch ==
  /\ rotation.at = "check"
  /\ IF progress.failed > MaxFailures
     THEN /\ progress' = [progress EXCEPT !.status = "failed"]
          /\ rotation' = NotRotating
     ELSE IF rotation.short
     THEN /\ progress' = [progress EXCEPT !.status = "completed"]
          /\ rotation' = NotRotating
     ELSE /\ rotation' = [rotation EXCEPT !.at = "fetch", !.upto = 0,
                            !.short = FALSE]
          /\ UNCHANGED progress
  /\ UNCHANGED <<pii, active, batch, excused>>

\* The job is interrupted; a transaction under way is rolled back.
RotationDies ==
  /\ rotation.at # "none"
  /\ rotation' = NotRotating /\ batch' = NoBatch
  /\ UNCHANGED <<pii, active, progress, excused>>

RotationInit ==
  /\ pii \in [Ids -> {[key |-> v, latest |-> TRUE] : v \in KeyVersions}
                       \cup {NoRow}]
  /\ active \in [CryptoInstances -> KeyVersions]
  /\ progress = NotRun /\ excused = {}
  /\ rotation = NotRotating /\ batch = NoBatch

RotationNext ==
  \/ \E i \in CryptoInstances :
       DeployKey(i) \/ \E id \in Ids : WriteRow(i, id)
  \/ StartRotation \/ FetchBatch \/ FinishRotation
  \/ WriteBatch \/ CheckBatch \/ RotationDies

RotationSpec == RotationInit /\ [][RotationNext]_rotationVars

-----------------------------------------------------------------------------
\* Resuming skips nothing: whatever interrupts the job, and whatever is written
\* meanwhile, each row up to the checkpoint is encrypted with the key the
\* campaign rotates to, or could not be decrypted, or has been written with
\* another one since (key-rotation.ts:201, :236).
BehindCheckpointRotated ==
  \A id \in Ids :
    id <= progress.last =>
      pii[id].key \in {NoKey, progress.target} \/ id \in excused

\* "Safe to run against a live database" (rotate-encryption-keys.ts:5): the job
\* undoes no write, and every row holds what was written last.
LiveWritesKept == \A id \in Ids : pii[id].latest
=============================================================================
