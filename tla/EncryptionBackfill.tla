-------------------------- MODULE EncryptionBackfill --------------------------
(***************************************************************************)
(* scripts/encrypt-existing-records.ts: encrypts the plaintext that is left *)
(* in a table, page by page, in one transaction, while the backend goes on  *)
(* erasing users.  The pages are cut with LIMIT and OFFSET out of a scan    *)
(* that no ORDER BY orders, and an update moves a row in that scan.  One    *)
(* table with one encrypted column.  Ciphertext names the version of its    *)
(* key where there is a ring of keys, and is bare where there is one key     *)
(* (field-encryption.transformer.ts).                                       *)
(***************************************************************************)
EXTENDS Integers, Sequences

CONSTANTS
  MaxRow,            \* the ids are 1 .. MaxRow
  PageSize,          \* BATCH_SIZE
  MaxBackfillFaults  \* crashes and errors of the database

ASSUME BackfillAssumption ==
  /\ MaxRow \in Nat \ {0} /\ PageSize \in Nat \ {0} /\ MaxBackfillFaults \in Nat

VARIABLES
  versions,       \* there is a ring of keys: a setting, for good
  email,          \* what the column of each row holds
  scan,           \* the order in which a scan meets the rows
  before,         \* what a row held that the transaction has updated
  script,         \* how far the script is
  backfillFaults

backfillVars == <<versions, email, scan, before, script, backfillFaults>>

RowIds == 1 .. MaxRow
Untouched == "untouched"
\* again: a ciphertext with a version that has been encrypted again; spoilt: a bare
\* one that has.
Contents == {"plain", "bare", "versioned", "again", "spoilt"}
PageRow == [id : RowIds, email : Contents]
NotStarted == [at |-> "none", offset |-> 0, page |-> <<>>, full |-> FALSE]

BackfillTypeOK ==
  /\ versions \in BOOLEAN
  /\ email \in [RowIds -> Contents]
  /\ scan \in [RowIds -> RowIds]
  /\ \A id \in RowIds : \E i \in RowIds : scan[i] = id
  /\ before \in [RowIds -> Contents \cup {Untouched}]
  /\ script \in [at : {"none", "select", "update", "committed"},
                 offset : 0 .. MaxRow, page : Seq(PageRow), full : BOOLEAN]
  /\ backfillFaults \in 0 .. MaxBackfillFaults

-----------------------------------------------------------------------------
\* Where an updated row goes is up to the database: from p it moves to q, and
\* the rows between move up.
MovesInScan(id) ==
  \E p \in RowIds, q \in RowIds :
    /\ scan[p] = id
    /\ scan' = [i \in RowIds |->
                  IF i = q THEN id
                  ELSE IF p <= i /\ i < q THEN scan[i + 1]
                  ELSE IF q < i /\ i <= p THEN scan[i - 1] ELSE scan[i]]

\* encrypt, of what is plain.
Ciphertext == IF versions THEN "versioned" ELSE "bare"

\* anonymizeUser, on a row the transaction has not locked.
Erase(id) ==
  /\ before[id] = Untouched
  /\ email' = [email EXCEPT ![id] = Ciphertext] /\ MovesInScan(id)
  /\ UNCHANGED <<versions, before, script, backfillFaults>>

StartBackfill ==
  /\ script.at = "none"
  /\ script' = [script EXCEPT !.at = "select"]
  /\ UNCHANGED <<versions, email, scan, before, backfillFaults>>

\* encryptUsers: the page is read as it is, updates of this transaction
\* included; none is left, and the transaction is committed.
SelectPage ==
  LET left == MaxRow - script.offset
      rows == IF PageSize < left THEN PageSize ELSE left
      Row(id) == [id |-> id, email |-> email[id]]
  IN
  /\ script.at = "select" /\ script.offset < MaxRow
  /\ script' = [at |-> "update", offset |-> script.offset,
                page |-> [i \in 1 .. rows |-> Row(scan[script.offset + i])],
                full |-> rows = PageSize]
  /\ UNCHANGED <<versions, email, scan, before, backfillFaults>>

\* Mutation of IsPlain: a ciphertext is told by its version only.
IsPlainUnversioned(held) == held \in {"plain", "bare", "spoilt"}

\* isLikelyCiphertext: no address of a mail is, and no ciphertext that has the
\* version before it.
IsPlain(held) == held \in {"plain", "versioned", "again"}

Encrypted(held) ==
  CASE held = "plain" -> Ciphertext
    [] held \in {"versioned", "again"} -> "again"
    [] OTHER -> "spoilt"

\* The next row of the page: what was read of it is encrypted and written, by
\* its id, if it is not ciphertext.
UpdateRow ==
  LET row == Head(script.page) IN
  /\ script.at = "update" /\ script.page # <<>>
  /\ script' = [script EXCEPT !.page = Tail(@)]
  /\ IF IsPlain(row.email)
     THEN /\ email' = [email EXCEPT ![row.id] = Encrypted(row.email)]
          /\ before' = [before EXCEPT ![row.id] =
                          IF @ = Untouched THEN email[row.id] ELSE @]
          /\ MovesInScan(row.id)
     ELSE UNCHANGED <<email, before, scan>>
  /\ UNCHANGED <<versions, backfillFaults>>

\* The offset goes on by the rows of the page.
NextPage ==
  LET read == IF script.full THEN PageSize ELSE MaxRow - script.offset IN
  /\ script.at = "update" /\ script.page = <<>>
  /\ script.full /\ script.offset + read < MaxRow
  /\ script' = [script EXCEPT !.at = "select", !.offset = @ + read]
  /\ UNCHANGED <<versions, email, scan, before, backfillFaults>>

Commit ==
  /\ script.at = "update" /\ script.page = <<>>
  /\ ~script.full \/ script.offset + PageSize >= MaxRow
  /\ script' = [NotStarted EXCEPT !.at = "committed"]
  /\ before' = [id \in RowIds |-> Untouched]
  /\ UNCHANGED <<versions, email, scan, backfillFaults>>

\* An error or a crash rolls everything back; the script is run again.
RollBack ==
  /\ script.at \in {"select", "update"}
  /\ backfillFaults > 0 /\ backfillFaults' = backfillFaults - 1
  /\ email' = [id \in RowIds |->
                 IF before[id] = Untouched THEN email[id] ELSE before[id]]
  /\ before' = [id \in RowIds |-> Untouched]
  /\ script' = NotStarted
  /\ UNCHANGED <<versions, scan>>

\* The script is run once more on the table it has gone over.
RunAgain ==
  /\ script.at = "committed" /\ script' = NotStarted
  /\ UNCHANGED <<versions, email, scan, before, backfillFaults>>

-----------------------------------------------------------------------------
BackfillInit ==
  /\ versions \in BOOLEAN
  /\ email \in [RowIds -> {"plain", "bare"} \cup {Ciphertext}]
  /\ scan = [i \in RowIds |-> i]
  /\ before = [id \in RowIds |-> Untouched]
  /\ script = NotStarted /\ backfillFaults = MaxBackfillFaults

BackfillNext ==
  \/ \E id \in RowIds : Erase(id)
  \/ StartBackfill \/ SelectPage \/ UpdateRow \/ NextPage \/ Commit
  \/ RollBack \/ RunAgain

BackfillSpec == BackfillInit /\ [][BackfillNext]_backfillVars

-----------------------------------------------------------------------------
\* isLikelyCiphertext: however often a scan brings a row that has moved, and
\* however often the script is run, no bare ciphertext is encrypted a second
\* time; so no value is, as long as there is no ring of keys.  With one, every
\* run encrypts what has a version again.
EncryptedOnce ==
  \A id \in RowIds : email[id] # "spoilt" /\ (email[id] = "again" => versions)

\* main: "All records encrypted successfully."  Broken: a row that moves behind
\* the offset pushes one that was not read in front of it.
AllAreEncrypted ==
  script.at = "committed" => \A id \in RowIds : email[id] # "plain"
=============================================================================
