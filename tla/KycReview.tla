------------------------------- MODULE KycReview -------------------------------
(***************************************************************************)
(* The identity check of one user (src/kyc): uploads that reuse an open     *)
(* case or submit to a provider and fail over to a second one, the          *)
(* providers' callbacks, which come late, twice or out of order, and the    *)
(* sweep that flags documents nobody answers for.                           *)
(***************************************************************************)
EXTENDS Integers, Sequences, FiniteSets

CONSTANTS
  Uploads,          \* upload requests under way at once
  Callbacks,        \* webhook requests under way at once
  NumProviders,     \* 2 with KYC_SECONDARY_PROVIDER set, else 1
  MaxDocs,          \* bound: documents uploaded
  MaxCases,         \* bound: cases opened at the providers
  MaxKycFaults      \* bound: failed submissions, lost answers and crashes

ASSUME KycAssumption ==
  /\ IsFiniteSet(Uploads) /\ IsFiniteSet(Callbacks)
  /\ {NumProviders, MaxDocs, MaxCases} \subseteq Nat \ {0}
  /\ MaxKycFaults \in Nat

VARIABLES
  docs,         \* the kyc_documents rows, in the order of uploadedAt
  userStatus,   \* users.kycStatus
  cases,        \* the providers' cases
  uploading,    \* what each upload request is at
  calling,      \* what each webhook request is at
  detecting,    \* the rows the stuck-case sweep has read and not yet saved
  reusedClosed, \* whether a case was reused whose verdict had been processed
  kycFaults

kycVars == <<docs, userStatus, cases, uploading, calling, detecting,
             reusedClosed, kycFaults>>

-----------------------------------------------------------------------------
\* DECIDED stands for APPROVED and REJECTED, which differ in the mail sent.
KycStatus == {"PENDING", "DECIDED", "NEEDS_REVIEW"}
ACTIVE_STATUSES == {"PENDING", "NEEDS_REVIEW"}
DocNos == 1 .. MaxDocs
CaseNos == 1 .. MaxCases
NoCase == 0

\* told: a callback with the verdict has been processed to its end.
CaseStates == {"open", "closed", "told"}

\* heard: lastProviderEventAt or submittedAt is set; silent: the latest of
\* lastProviderEventAt, submittedAt and uploadedAt that is set lies beyond the
\* timeout; expired: so does caseExpiresAt.
KycDocument ==
  [status : KycStatus, case : CaseNos \cup {NoCase}, heard : BOOLEAN,
   silent : BOOLEAN, expired : BOOLEAN, flagged : BOOLEAN]

NotUploading == [at |-> "none"]
Uploading ==
  [at : {"find", "review"}, doc : DocNos]
  \cup [at : {"reuse"}, doc : DocNos, found : KycDocument]
  \cup [at : {"submit"}, doc : DocNos, try : 1 .. NumProviders]
  \cup [at : {"persist"}, doc : DocNos, case : CaseNos]
  \cup [at : {"user"}, status : KycStatus]
NotCalling == [at |-> "none"]
Calling ==
  [at : {"doc"}, doc : DocNos, found : KycDocument, case : CaseNos,
   status : KycStatus]
  \cup [at : {"user"}, case : CaseNos, status : KycStatus]

KycTypeOK ==
  /\ docs \in UNION {[1 .. n -> KycDocument] : n \in 0 .. MaxDocs}
  /\ userStatus \in KycStatus \cup {"none"}
  /\ cases \in UNION {[1 .. n -> CaseStates] : n \in 0 .. MaxCases}
  /\ \A u \in Uploads : uploading[u] \in Uploading \cup {NotUploading}
  /\ \A c \in Callbacks : calling[c] \in Calling \cup {NotCalling}
  /\ DOMAIN detecting \subseteq DocNos
  /\ \A d \in DOMAIN detecting : detecting[d] \in KycDocument
  /\ reusedClosed \in BOOLEAN
  /\ kycFaults \in 0 .. MaxKycFaults

Latest(found) == CHOOSE d \in found : \A e \in found : e <= d
UploadAt(u, state) == uploading' = [uploading EXCEPT ![u] = state]
CallAt(c, state) == calling' = [calling EXCEPT ![c] = state]
Goes(u, state) == UploadAt(u, [at |-> state, doc |-> uploading[u].doc])
KycFault == kycFaults < MaxKycFaults /\ kycFaults' = kycFaults + 1

-----------------------------------------------------------------------------
\* uploadDocument: the file has passed validateFile and is stored; the row is
\* saved with its defaults.
UploadDocument(u) ==
  /\ uploading[u] = NotUploading /\ Len(docs) < MaxDocs
  /\ docs' = Append(docs, [status |-> "PENDING", case |-> NoCase,
                           heard |-> FALSE, silent |-> FALSE,
                           expired |-> FALSE, flagged |-> FALSE])
  /\ UploadAt(u, [at |-> "find", doc |-> Len(docs) + 1])
  /\ UNCHANGED <<userStatus, cases, calling, detecting, reusedClosed,
                 kycFaults>>

Reusable(own) ==
  {d \in DOMAIN docs \ {own} : /\ docs[d].case # NoCase /\ ~docs[d].expired
                               /\ docs[d].status \in ACTIVE_STATUSES}

FindReusableCase(u) ==
  /\ uploading[u].at = "find"
  /\ LET found == Reusable(uploading[u].doc)
     IN  IF found = {}
         THEN /\ UploadAt(u, [at |-> "submit", doc |-> uploading[u].doc,
                              try |-> 1])
              /\ UNCHANGED reusedClosed
         ELSE LET reusable == docs[Latest(found)]
              IN  /\ UploadAt(u, [at |-> "reuse", doc |-> uploading[u].doc,
                                  found |-> reusable])
                  /\ reusedClosed' = (reusedClosed
                                      \/ cases[reusable.case] = "told")
  /\ UNCHANGED <<docs, userStatus, cases, calling, detecting, kycFaults>>

\* The columns the upload has set are saved over whatever the row holds now.
ReuseCase(u) ==
  /\ uploading[u].at = "reuse"
  /\ LET d == uploading[u].doc
     IN  docs' = [docs EXCEPT ![d] = [uploading[u].found EXCEPT
                   !.status = "PENDING", !.flagged = docs[d].flagged]]
  /\ UploadAt(u, [at |-> "user", status |-> "PENDING"])
  /\ UNCHANGED <<userStatus, cases, calling, detecting, reusedClosed,
                 kycFaults>>

\* trySubmit: the provider opens a case and answers in time, or it does not
\* answer, having opened one or not, and the next provider is tried.
TrySubmit(u) ==
  /\ uploading[u].at = "submit" /\ Len(cases) < MaxCases
  /\ cases' = Append(cases, "open")
  /\ UploadAt(u, [at |-> "persist", doc |-> uploading[u].doc,
                  case |-> Len(cases) + 1])
  /\ UNCHANGED <<docs, userStatus, calling, detecting, reusedClosed,
                 kycFaults>>

TrySubmitFails(u) ==
  /\ uploading[u].at = "submit" /\ KycFault
  /\ \/ UNCHANGED cases
     \/ Len(cases) < MaxCases /\ cases' = Append(cases, "open")
  /\ IF uploading[u].try < NumProviders
     THEN UploadAt(u, [uploading[u] EXCEPT !.try = @ + 1])
     ELSE Goes(u, "review")
  /\ UNCHANGED <<docs, userStatus, calling, detecting, reusedClosed>>

PersistSubmission(u) ==
  /\ uploading[u].at = "persist"
  /\ docs' = [docs EXCEPT ![uploading[u].doc] =
                [@ EXCEPT !.status = "PENDING", !.case = uploading[u].case,
                          !.heard = TRUE, !.silent = FALSE, !.expired = FALSE]]
  /\ UploadAt(u, [at |-> "user", status |-> "PENDING"])
  /\ UNCHANGED <<userStatus, cases, calling, detecting, reusedClosed,
                 kycFaults>>

\* No provider took it: it waits for a manual review.
AllProvidersFailed(u) ==
  /\ uploading[u].at = "review"
  /\ docs' = [docs EXCEPT ![uploading[u].doc] =
                [@ EXCEPT !.status = "NEEDS_REVIEW", !.heard = TRUE,
                          !.silent = FALSE]]
  /\ UploadAt(u, [at |-> "user", status |-> "NEEDS_REVIEW"])
  /\ UNCHANGED <<userStatus, cases, calling, detecting, reusedClosed,
                 kycFaults>>

\* The rest of uploadDocument.
UpdateUser(u) ==
  /\ uploading[u].at = "user"
  /\ userStatus' = uploading[u].status
  /\ UploadAt(u, NotUploading)
  /\ UNCHANGED <<docs, cases, calling, detecting, reusedClosed,
                 kycFaults>>

\* A restart, or a call to the database that fails.
UploadDies(u) ==
  /\ uploading[u] # NotUploading /\ KycFault
  /\ UploadAt(u, NotUploading)
  /\ UNCHANGED <<docs, userStatus, cases, calling, detecting, reusedClosed>>

-----------------------------------------------------------------------------
ProviderDecides(k) ==
  /\ cases[k] = "open"
  /\ cases' = [cases EXCEPT ![k] = "closed"]
  /\ UNCHANGED <<docs, userStatus, uploading, calling, detecting, reusedClosed,
                 kycFaults>>

\* A callback passes the signature check and is parsed with its provider's
\* status table; a verdict is sent when there is one.
Parsed(k, status) == status = "DECIDED" => cases[k] # "open"

\* processWebhook: a callback, perhaps late or sent before, of case k. Its row
\* is the latest one with the case, else the user's latest one.
ProcessWebhook(c) ==
  /\ calling[c] = NotCalling /\ docs # <<>>
  /\ \E k \in DOMAIN cases, status \in KycStatus :
       /\ Parsed(k, status)
       /\ LET own == {d \in DOMAIN docs : docs[d].case = k}
              d == IF own = {} THEN Len(docs) ELSE Latest(own)
          IN  CallAt(c, [at |-> "doc", doc |-> d, found |-> docs[d],
                         case |-> k, status |-> status])
  /\ UNCHANGED <<docs, userStatus, cases, uploading, detecting, reusedClosed,
                 kycFaults>>

\* The row as it was read is saved with the callback's status ...
SaveCallback(c) ==
  /\ calling[c].at = "doc"
  /\ LET found == calling[c].found
     IN  docs' = [docs EXCEPT ![calling[c].doc] = [found EXCEPT
                    !.status = calling[c].status,
                    !.case = IF found.case = NoCase THEN calling[c].case ELSE @,
                    !.heard = TRUE, !.silent = FALSE, !.flagged = FALSE]]
  /\ CallAt(c, [at |-> "user", case |-> calling[c].case,
                status |-> calling[c].status])
  /\ UNCHANGED <<userStatus, cases, uploading, detecting, reusedClosed,
                 kycFaults>>

\* ... and then the user.
SaveUserStatus(c) ==
  /\ calling[c].at = "user"
  /\ userStatus' = calling[c].status
  /\ cases' = IF calling[c].status = "DECIDED"
              THEN [cases EXCEPT ![calling[c].case] = "told"] ELSE cases
  /\ CallAt(c, NotCalling)
  /\ UNCHANGED <<docs, uploading, detecting, reusedClosed,
                 kycFaults>>

CallbackDies(c) ==
  /\ calling[c] # NotCalling /\ KycFault
  /\ CallAt(c, NotCalling)
  /\ UNCHANGED <<docs, userStatus, cases, uploading, detecting, reusedClosed>>

-----------------------------------------------------------------------------
\* Days pass, which no request lasts: nothing was heard of a document for the
\* timeout, or its case is past the reuse window.
TimePasses ==
  /\ \A u \in Uploads : uploading[u] = NotUploading
  /\ \A c \in Callbacks : calling[c] = NotCalling
  /\ DOMAIN detecting = {}
  /\ \E d \in DOMAIN docs :
       \/ docs' = [docs EXCEPT ![d].silent = TRUE]
       \/ docs[d].case # NoCase /\ docs' = [docs EXCEPT ![d].expired = TRUE]
  /\ UNCHANGED <<userStatus, cases, uploading, calling, detecting, reusedClosed,
                 kycFaults>>

\* Mutation of StuckDocs: without the COALESCE, a row no provider ever heard of
\* has no time to compare.
StuckDocsHeardOf ==
  {d \in DOMAIN docs : /\ docs[d].status = "PENDING" /\ ~docs[d].flagged
                       /\ docs[d].silent /\ docs[d].heard}

StuckDocs ==
  {d \in DOMAIN docs : /\ docs[d].status = "PENDING" /\ ~docs[d].flagged
                       /\ docs[d].silent}

DetectStuckCases ==
  /\ DOMAIN detecting = {} /\ StuckDocs # {}
  /\ detecting' = [d \in StuckDocs |-> docs[d]]
  /\ UNCHANGED <<docs, userStatus, cases, uploading, calling, reusedClosed,
                 kycFaults>>

\* Each row is saved as it was read, with the flag.
FlagStuckCase ==
  /\ \E d \in DOMAIN detecting :
       /\ docs' = [docs EXCEPT ![d] = [detecting[d] EXCEPT !.flagged = TRUE]]
       /\ detecting' = [e \in DOMAIN detecting \ {d} |-> detecting[e]]
  /\ UNCHANGED <<userStatus, cases, uploading, calling, reusedClosed,
                 kycFaults>>

DetectorDies ==
  /\ DOMAIN detecting # {} /\ KycFault
  /\ detecting' = [d \in {} |-> {}]
  /\ UNCHANGED <<docs, userStatus, cases, uploading, calling, reusedClosed>>

-----------------------------------------------------------------------------
KycInit ==
  /\ docs = <<>> /\ cases = <<>> /\ userStatus = "none"
  /\ uploading = [u \in Uploads |-> NotUploading]
  /\ calling = [c \in Callbacks |-> NotCalling]
  /\ detecting = [d \in {} |-> {}]
  /\ reusedClosed = FALSE /\ kycFaults = 0

SubmitOrReuse(u) ==
  \/ FindReusableCase(u) \/ ReuseCase(u)
  \/ TrySubmit(u) \/ TrySubmitFails(u)
  \/ PersistSubmission(u) \/ AllProvidersFailed(u)
KycUpload(u) ==
  UploadDocument(u) \/ SubmitOrReuse(u) \/ UpdateUser(u) \/ UploadDies(u)
KycCallback(c) ==
  ProcessWebhook(c) \/ SaveCallback(c) \/ SaveUserStatus(c) \/ CallbackDies(c)
KycSweep == DetectStuckCases \/ FlagStuckCase \/ DetectorDies

KycNext ==
  \/ \E u \in Uploads : KycUpload(u)
  \/ \E c \in Callbacks : KycCallback(c)
  \/ \E k \in DOMAIN cases : ProviderDecides(k)
  \/ TimePasses \/ KycSweep

\* The sweep is run by cron and its loop goes on; nothing else has to happen.
KycFairness == WF_kycVars(DetectStuckCases) /\ WF_kycVars(FlagStuckCase)

KycSpec == KycInit /\ [][KycNext]_kycVars /\ KycFairness

-----------------------------------------------------------------------------
Stuck(d) == d \in DOMAIN docs /\ docs[d].status = "PENDING" /\ docs[d].silent
Unflagged(d) == Stuck(d) /\ ~docs[d].flagged

\* Nobody waits unnoticed: a document that has been pending past the timeout,
\* at whichever step its upload or its callbacks ended, is flagged unless an
\* answer comes first (kyc-stuck-case-detector.service.ts:26).
StuckIsFlagged == \A d \in DocNos : Unflagged(d) ~> ~Unflagged(d)

\* The comment of submitOrReuse: it "reuses a still-valid in-flight provider
\* case". A callback reaches only the newest document of its case, so an older
\* one stays pending and lends a closed case to the next upload.
OpenCasesReused == ~reusedClosed
=============================================================================
