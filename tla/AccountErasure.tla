---------------------------- MODULE AccountErasure ----------------------------
(***************************************************************************)
(* A user's export and erasure (gdpr.service.ts, gdpr.processor.ts):        *)
(* requests behind a cooldown in Redis, jobs that are attempted again when  *)
(* a step fails, and the places personal data is held, to which the user's  *)
(* own uploads (kyc.service.ts) and sign-ins (auth.service.ts) add.         *)
(***************************************************************************)
EXTENDS Integers, FiniteSets

CONSTANTS
  GdprRequests,     \* requests under way at once
  GdprWorkers,      \* jobs processed at once: one per server
  GdprAttempts,     \* attempts of a job (3)
  MaxGdprJobs,      \* bound: jobs queued
  KycFiles,         \* the KYC files the user has or may upload
  KycBucket,        \* AWS_S3_BUCKET
  ExportBucket,     \* GDPR_EXPORT_S3_BUCKET
  MaxGdprFaults     \* bound: failed calls and crashes

JobNos == 1 .. MaxGdprJobs
\* Exports are named by the time: each attempt of a job makes another.
Exports == JobNos \X (0 .. GdprAttempts - 1)

ASSUME GdprAssumption ==
  /\ IsFiniteSet(GdprRequests) /\ IsFiniteSet(KycFiles)
  /\ {GdprWorkers, GdprAttempts, MaxGdprJobs} \subseteq Nat \ {0}
  /\ MaxGdprFaults \in Nat
  /\ KycFiles \cap Exports = {}

VARIABLES
  cooldowns,    \* the keys gdpr:export:cooldown and gdpr:erasure:cooldown
  requesting,   \* what each request is at
  gdprJobs,     \* the queue, in order
  beneficiary,  \* the user is due the current payout of an active group
  kycRows,      \* the KYC rows, each naming a file
  stored,       \* the objects in the buckets
  signedIn,     \* the user has a refresh token that is not revoked
  anonymized,   \* the user's row is anonymized
  completed,    \* ERASURE_COMPLETED is in the audit log
  overtook,     \* (history) rows and exports an erasure came too early for
  lateSignIn,   \* (history) the same of a refresh token
  refused,      \* (history) exports S3 has refused to delete
  gdprFaults

gdprVars == <<cooldowns, requesting, gdprJobs, beneficiary, kycRows, stored,
              signedIn, anonymized, completed, overtook, lateSignIn, refused,
              gdprFaults>>
dataVars == <<kycRows, stored, signedIn, anonymized, completed, overtook, lateSignIn,
              refused>>
userVars == <<beneficiary, dataVars>>

-----------------------------------------------------------------------------
GdprKinds == {"export", "erasure"}
NotRequesting == [at |-> "none"]
ExportSteps == {"read", "put", "mail"}
ErasureSteps ==
  {"find", "files", "rows", "list", "exports", "tokens", "anonymize", "log"}
FirstStep(kind) == IF kind = "export" THEN "read" ELSE "find"
Objects == [bucket : {KycBucket, ExportBucket}, name : KycFiles \cup Exports]

\* found: the objects the running attempt has read or listed.
GdprJob ==
  [kind : GdprKinds, tries : 0 .. GdprAttempts, found : SUBSET Objects,
   at : {"waiting", "done", "failed"} \cup ExportSteps \cup ErasureSteps]

GdprTypeOK ==
  /\ cooldowns \subseteq GdprKinds
  /\ \A r \in GdprRequests :
       requesting[r] \in {NotRequesting}
         \cup [at : {"exists", "set", "add"}, kind : GdprKinds]
         \cup [at : {"upload", "save"}, file : KycFiles] \cup [at : {"store"}]
  /\ \E n \in 0 .. MaxGdprJobs :
       /\ DOMAIN gdprJobs = 1 .. n
       /\ \A j \in 1 .. n : gdprJobs[j] \in GdprJob
  /\ kycRows \subseteq KycFiles /\ stored \subseteq Objects
  /\ {beneficiary, signedIn, anonymized, completed, lateSignIn} \subseteq BOOLEAN
  /\ overtook \subseteq KycFiles \cup Exports
  /\ refused \subseteq Exports
  /\ gdprFaults \in 0 .. MaxGdprFaults

ToStep(r, state) == requesting' = [requesting EXCEPT ![r] = state]
Running(j) == gdprJobs[j].at \in ExportSteps \cup ErasureSteps
JobAt(j, at, step) ==
  /\ j \in DOMAIN gdprJobs /\ gdprJobs[j].at = at
  /\ gdprJobs' = [gdprJobs EXCEPT ![j].at = step]
JobFinds(j, at, step, found) ==
  /\ j \in DOMAIN gdprJobs /\ gdprJobs[j].at = at
  /\ gdprJobs' = [gdprJobs EXCEPT ![j].at = step, ![j].found = found]
GdprFault == gdprFaults < MaxGdprFaults /\ gdprFaults' = gdprFaults + 1

\* An erasure is past all the steps that would remove what comes now.
TooLateFor(steps) ==
  completed \/ \E j \in DOMAIN gdprJobs :
                 gdprJobs[j].at \in ErasureSteps \ ({"find", "files", "rows"} \cup steps)
Comes(file, steps) ==
  overtook' = overtook \cup (IF TooLateFor(steps) THEN {file} ELSE {})
RequestVars == <<cooldowns, requesting, gdprFaults>>

-----------------------------------------------------------------------------
\* The guard finds the user by the wallet in the token, until it is anonymized.
\* requestErasure is refused to the current beneficiary; both are refused
\* during the cooldown, ...
RequestDataExport(r) ==
  /\ requesting[r] = NotRequesting /\ ~anonymized
  /\ ToStep(r, [at |-> "exists", kind |-> "export"])
  /\ UNCHANGED <<cooldowns, gdprJobs, userVars, gdprFaults>>

RequestErasure(r) ==
  /\ requesting[r] = NotRequesting /\ ~anonymized /\ ~beneficiary
  /\ ToStep(r, [at |-> "exists", kind |-> "erasure"])
  /\ UNCHANGED <<cooldowns, gdprJobs, userVars, gdprFaults>>

CheckCooldown(r) ==
  /\ requesting[r].at = "exists"
  /\ ToStep(r, IF requesting[r].kind \in cooldowns THEN NotRequesting
               ELSE [requesting[r] EXCEPT !.at = "set"])
  /\ UNCHANGED <<cooldowns, gdprJobs, userVars, gdprFaults>>

\* ... which starts before the audit entry is saved and the job added.
SetCooldown(r) ==
  /\ requesting[r].at = "set"
  /\ cooldowns' = cooldowns \cup {requesting[r].kind}
  /\ ToStep(r, [requesting[r] EXCEPT !.at = "add"])
  /\ UNCHANGED <<gdprJobs, userVars, gdprFaults>>

AddGdprJob(r) ==
  /\ requesting[r].at = "add" /\ Cardinality(DOMAIN gdprJobs) < MaxGdprJobs
  /\ LET j == Cardinality(DOMAIN gdprJobs) + 1
     IN  gdprJobs' = [i \in DOMAIN gdprJobs \cup {j} |->
                       IF i # j THEN gdprJobs[i]
                       ELSE [kind |-> requesting[r].kind, tries |-> 0,
                             found |-> {}, at |-> "waiting"]]
  /\ ToStep(r, NotRequesting)
  /\ UNCHANGED <<cooldowns, userVars, gdprFaults>>

GdprRequestDies(r) ==
  /\ requesting[r] # NotRequesting /\ GdprFault
  /\ ToStep(r, NotRequesting)
  /\ UNCHANGED <<cooldowns, gdprJobs, userVars>>

CooldownEnds ==
  /\ \E kind \in cooldowns : cooldowns' = cooldowns \ {kind}
  /\ UNCHANGED <<requesting, gdprJobs, userVars, gdprFaults>>

\* uploadDocument finds the user, puts the file in its own bucket and saves its
\* row.
UploadDocument(r) ==
  /\ requesting[r] = NotRequesting /\ ~anonymized
  /\ \E f \in KycFiles \ kycRows :
       /\ [bucket |-> KycBucket, name |-> f] \notin stored
       /\ \A q \in GdprRequests : requesting[q] # [at |-> "upload", file |-> f]
       /\ ToStep(r, [at |-> "upload", file |-> f])
  /\ UNCHANGED <<cooldowns, gdprJobs, userVars, gdprFaults>>

UploadToS3(r) ==
  /\ requesting[r].at = "upload"
  /\ stored' = stored \cup {[bucket |-> KycBucket, name |-> requesting[r].file]}
  /\ ToStep(r, [requesting[r] EXCEPT !.at = "save"])
  /\ UNCHANGED <<cooldowns, gdprJobs, beneficiary, kycRows, signedIn, anonymized,
                 completed, overtook, lateSignIn, refused, gdprFaults>>

SaveKycRow(r) ==
  /\ requesting[r].at = "save"
  /\ kycRows' = kycRows \cup {requesting[r].file}
  /\ Comes(requesting[r].file, {})
  /\ ToStep(r, NotRequesting)
  /\ UNCHANGED <<cooldowns, gdprJobs, beneficiary, stored, signedIn, anonymized,
                 completed, lateSignIn, refused, gdprFaults>>

\* login finds the user by its email, registerWithWallet by its wallet;
\* refreshTokens asks for a token that is not revoked, revokes it and finds its
\* user.  The new token is stored last.
Authenticate(r) ==
  /\ requesting[r] = NotRequesting
  /\ \/ ~anonymized /\ UNCHANGED signedIn
     \/ signedIn /\ signedIn' \in BOOLEAN
  /\ ToStep(r, [at |-> "store"])
  /\ UNCHANGED <<cooldowns, gdprJobs, beneficiary, kycRows, stored, anonymized,
                 completed, overtook, lateSignIn, refused, gdprFaults>>

StoreToken(r) ==
  /\ requesting[r].at = "store"
  /\ signedIn' = TRUE
  /\ lateSignIn' = (lateSignIn \/ TooLateFor({"list", "exports", "tokens"}))
  /\ ToStep(r, NotRequesting)
  /\ UNCHANGED <<cooldowns, gdprJobs, beneficiary, kycRows, stored, anonymized,
                 completed, overtook, refused, gdprFaults>>

\* Rounds go by in the user's groups.
PayoutTurns ==
  /\ beneficiary' = ~beneficiary
  /\ UNCHANGED <<RequestVars, gdprJobs, dataVars>>

-----------------------------------------------------------------------------
\* Jobs are taken in order; one attempted before comes back after its backoff.
Untried(j) == gdprJobs[j].at = "waiting" /\ gdprJobs[j].tries = 0

\* Mutation of TakeGdprJob: a retry counts on the removals of the attempt before.
TakeGdprJobOn(j) ==
  /\ j \in DOMAIN gdprJobs
  /\ Untried(j) => \A i \in 1 .. j - 1 : ~Untried(i)
  /\ Cardinality({i \in DOMAIN gdprJobs : Running(i)}) < GdprWorkers
  /\ JobAt(j, "waiting", IF Untried(j) THEN FirstStep(gdprJobs[j].kind)
                         ELSE IF gdprJobs[j].kind = "export" THEN "put" ELSE "tokens")
  /\ UNCHANGED <<RequestVars, userVars>>

TakeGdprJob(j) ==
  /\ j \in DOMAIN gdprJobs
  /\ Untried(j) => \A i \in 1 .. j - 1 : ~Untried(i)
  /\ Cardinality({i \in DOMAIN gdprJobs : Running(i)}) < GdprWorkers
  /\ JobAt(j, "waiting", FirstStep(gdprJobs[j].kind))
  /\ UNCHANGED <<RequestVars, userVars>>

\* A step fails or the worker dies: the job is attempted again, up to the end.
GdprJobFails(j) ==
  /\ j \in DOMAIN gdprJobs /\ Running(j) /\ GdprFault
  /\ gdprJobs' = [gdprJobs EXCEPT
       ![j].at = IF gdprJobs[j].tries + 1 < GdprAttempts THEN "waiting" ELSE "failed",
       ![j].tries = @ + 1, ![j].found = {}]
  /\ UNCHANGED <<cooldowns, requesting, userVars>>

\* handleDataExport reads the tables, puts the file and mails the link.
CollectData(j) == JobAt(j, "read", "put") /\ UNCHANGED <<RequestVars, userVars>>

PutExport(j) ==
  /\ JobAt(j, "put", "mail")
  /\ LET file == <<j, gdprJobs[j].tries>>
     IN  /\ stored' = stored \cup {[bucket |-> ExportBucket, name |-> file]}
         /\ Comes(file, {"list"})
  /\ UNCHANGED <<RequestVars, beneficiary, kycRows, signedIn, anonymized,
                 completed, lateSignIn, refused>>

MailExportLink(j) ==
  JobAt(j, "mail", "done") /\ UNCHANGED <<RequestVars, userVars>>

\* handleErasure, 1: the files of the KYC rows, in the processor's own bucket,
\* then the rows.
FindKycRows(j) ==
  /\ JobFinds(j, "find", IF kycRows = {} THEN "list" ELSE "files",
              {[bucket |-> ExportBucket, name |-> f] : f \in kycRows})
  /\ UNCHANGED <<RequestVars, userVars>>

\* The answer names the objects that were refused; nobody reads it.
DeleteObjects(found, kept) ==
  /\ kept \subseteq found /\ stored' = stored \ (found \ kept)
  /\ IF kept = {} THEN UNCHANGED gdprFaults ELSE GdprFault

DeleteKycFiles(j) ==
  /\ JobAt(j, "files", "rows")
  /\ \E kept \in SUBSET gdprJobs[j].found : DeleteObjects(gdprJobs[j].found, kept)
  /\ UNCHANGED <<cooldowns, requesting, beneficiary, kycRows, signedIn, anonymized,
                 completed, overtook, lateSignIn, refused>>

DeleteKycRows(j) ==
  /\ JobAt(j, "rows", "list")
  /\ kycRows' = {}
  /\ overtook' = overtook \ KycFiles
  /\ UNCHANGED <<RequestVars, beneficiary, stored, signedIn, anonymized, completed,
                 lateSignIn, refused>>

\* 2: the exports that are listed.
ListExports(j) ==
  /\ JobFinds(j, "list", "exports",
              {o \in stored : o.bucket = ExportBucket /\ o.name \in Exports})
  /\ UNCHANGED <<RequestVars, userVars>>

DeleteExports(j) ==
  /\ JobAt(j, "exports", "tokens")
  /\ \E kept \in SUBSET gdprJobs[j].found :
       /\ DeleteObjects(gdprJobs[j].found, kept)
       /\ refused' = refused \cup {o.name : o \in kept}
  /\ UNCHANGED <<cooldowns, requesting, beneficiary, kycRows, signedIn, anonymized,
                 completed, overtook, lateSignIn>>

\* 3, 4 and 5: the tokens, the row and the audit entry.
RevokeRefreshTokens(j) ==
  /\ JobAt(j, "tokens", "anonymize")
  /\ signedIn' = FALSE /\ lateSignIn' = FALSE
  /\ UNCHANGED <<RequestVars, beneficiary, kycRows, stored, anonymized, completed,
                 overtook, refused>>

AnonymizeUser(j) ==
  /\ JobAt(j, "anonymize", "log")
  /\ anonymized' = TRUE
  /\ UNCHANGED <<RequestVars, beneficiary, kycRows, stored, signedIn, completed,
                 overtook, lateSignIn, refused>>

LogErasure(j) ==
  /\ JobAt(j, "log", "done")
  /\ completed' = TRUE
  /\ UNCHANGED <<RequestVars, beneficiary, kycRows, stored, signedIn, anonymized,
                 overtook, lateSignIn, refused>>

-----------------------------------------------------------------------------
GdprInit ==
  /\ cooldowns = {} /\ gdprJobs = [j \in {} |-> {}]
  /\ requesting = [r \in GdprRequests |-> NotRequesting]
  /\ beneficiary = FALSE /\ kycRows \in SUBSET KycFiles
  /\ stored = {[bucket |-> KycBucket, name |-> f] : f \in kycRows}
  /\ signedIn = TRUE /\ anonymized = FALSE /\ completed = FALSE
  /\ overtook = {} /\ lateSignIn = FALSE /\ refused = {} /\ gdprFaults = 0

GdprRequest(r) ==
  \/ RequestDataExport(r) \/ RequestErasure(r) \/ CheckCooldown(r)
  \/ SetCooldown(r) \/ AddGdprJob(r) \/ GdprRequestDies(r)
UserRequest(r) ==
  \/ UploadDocument(r) \/ UploadToS3(r) \/ SaveKycRow(r)
  \/ Authenticate(r) \/ StoreToken(r)
HandleDataExport(j) == CollectData(j) \/ PutExport(j) \/ MailExportLink(j)
HandleErasure(j) ==
  \/ FindKycRows(j) \/ DeleteKycFiles(j) \/ DeleteKycRows(j)
  \/ ListExports(j) \/ DeleteExports(j) \/ RevokeRefreshTokens(j)
  \/ AnonymizeUser(j) \/ LogErasure(j)

GdprNext ==
  \/ \E r \in GdprRequests : GdprRequest(r) \/ UserRequest(r)
  \/ \E j \in JobNos :
       \/ TakeGdprJob(j) \/ HandleDataExport(j) \/ HandleErasure(j)
       \/ GdprJobFails(j)
  \/ CooldownEnds \/ PayoutTurns

GdprSpec == GdprInit /\ [][GdprNext]_gdprVars

-----------------------------------------------------------------------------
\* What the log calls completed has been done: however many jobs on however many
\* servers, whichever of their attempts failed, and whatever the user uploaded,
\* exported and signed in meanwhile, ERASURE_COMPLETED (gdpr.processor.ts:159)
\* stands beside an anonymized row, and the KYC rows, exports and live tokens
\* left are those an erasure was too early for: it had passed their step when
\* they came, and no later one has removed them; or, of the exports, those S3 has
\* refused to delete.  Nothing is said of the files of the KYC rows: they are
\* deleted in the bucket of the exports, and stay in their own.
CompletedIsErased ==
  completed =>
    /\ anonymized
    /\ kycRows \subseteq overtook
    /\ signedIn => lateSignIn
    /\ \A o \in stored : o.name \in Exports => o.name \in overtook \cup refused
=============================================================================
