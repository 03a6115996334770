--------------------------- MODULE MCPlatform ---------------------------
(***************************************************************************)
(* What the platform does for every user: queues and webhooks, sessions    *)
(* and accounts, rate limits and caches, keys and flags, messages, files   *)
(* and announcements. The components share no state, so one run takes them *)
(* one at a time: a behaviour belongs to one subject, and the variables of *)
(* the others stay as they began.                                          *)
(***************************************************************************)
EXTENDS JobQueue, WebhookDelivery, Sessions, AccountErasure, RateLimits,
        RequestCaching, KeyRotation, EncryptionBackfill, FeatureFlags,
        PushDelivery, Notifications, FileUploads, Announcements

CONSTANT Subjects  \* the components a run looks at

VARIABLE subject

EmailJobs == [p \in Payloads |-> "email-queue"]

\* The settings of the flags: on for some users, or off.
OnForAll == [enabled |-> TRUE, strategy |-> "all", audience |-> {}]
OnForSome == [enabled |-> TRUE, strategy |-> "users", audience |-> FlagUsers]
OffForAll == [enabled |-> FALSE, strategy |-> "all", audience |-> {}]
OnForNobody == [enabled |-> TRUE, strategy |-> "users", audience |-> {}]
SomeOrNone == {OnForSome, OffForAll, OnForNobody}

OneRecipient == [k \in NoteKeys |-> CHOOSE u \in Recipients : TRUE]

\* A picture, a document, a document that is none, and a spreadsheet.
Upload(type, mime, ext, content) ==
  [type |-> type, mime |-> mime, ext |-> ext, content |-> content]
SomeFiles ==
  {Upload("profile_picture", "image", "image", "image"),
   Upload("document", "pdf", "document", "pdf"),
   Upload("document", "pdf", "document", "junk"),
   Upload("document", "xlsx", "document", "zip")}

\* Only its own behaviours begin with a component in different states.
PlatformInit ==
  /\ subject \in Subjects
  /\ JobsInit
  /\ HooksInit
  /\ SessionInit
  /\ GdprInit /\ (subject = "gdpr" \/ kycRows = {})
  /\ RateInit
  /\ CachingInit
  /\ RotationInit /\ (subject = "rotation"
                         \/ (pii = NoBatch /\ active = [i \in CryptoInstances |-> 1]))
  /\ BackfillInit /\ (subject = "backfill"
                         \/ (~versions /\ email = [id \in RowIds |-> "plain"]))
  /\ FlagsInit /\ (subject = "flags"
                      \/ flagStore = [f \in FlagNames |-> OffForAll])
  /\ PushInit
  /\ NotesInit
  /\ UploadInit /\ (subject = "files" \/ adapter = "s3")
  /\ BoardInit

\* The other components than s, and the subject, stay as they are.
OthersStay(s) ==
  /\ UNCHANGED subject
  /\ IF s = "jobs" THEN TRUE ELSE UNCHANGED jobsVars
  /\ IF s = "hooks" THEN TRUE ELSE UNCHANGED hookVars
  /\ IF s = "sessions" THEN TRUE ELSE UNCHANGED sessionVars
  /\ IF s = "gdpr" THEN TRUE ELSE UNCHANGED gdprVars
  /\ IF s = "rates" THEN TRUE ELSE UNCHANGED rateVars
  /\ IF s = "caching" THEN TRUE ELSE UNCHANGED cachingVars
  /\ IF s = "rotation" THEN TRUE ELSE UNCHANGED rotationVars
  /\ IF s = "backfill" THEN TRUE ELSE UNCHANGED backfillVars
  /\ IF s = "flags" THEN TRUE ELSE UNCHANGED flagVars
  /\ IF s = "push" THEN TRUE ELSE UNCHANGED pushVars
  /\ IF s = "notes" THEN TRUE ELSE UNCHANGED notesVars
  /\ IF s = "files" THEN TRUE ELSE UNCHANGED uploadVars
  /\ IF s = "board" THEN TRUE ELSE UNCHANGED boardVars

JobsStep == subject = "jobs" /\ JobsNext /\ OthersStay("jobs")
HooksStep == subject = "hooks" /\ HooksNext /\ OthersStay("hooks")
SessionStep == subject = "sessions" /\ SessionNext /\ OthersStay("sessions")
GdprStep == subject = "gdpr" /\ GdprNext /\ OthersStay("gdpr")
RateStep == subject = "rates" /\ RateNext /\ OthersStay("rates")
CachingStep == subject = "caching" /\ CachingNext /\ OthersStay("caching")
RotationStep == subject = "rotation" /\ RotationNext /\ OthersStay("rotation")
BackfillStep == subject = "backfill" /\ BackfillNext /\ OthersStay("backfill")
FlagsStep == subject = "flags" /\ FlagsNext /\ OthersStay("flags")
PushStep == subject = "push" /\ PushNext /\ OthersStay("push")
NotesStep == subject = "notes" /\ NotesNext /\ OthersStay("notes")
UploadStep == subject = "files" /\ UploadNext /\ OthersStay("files")
BoardStep == subject = "board" /\ BoardNext /\ OthersStay("board")

PlatformNext ==
  \/ JobsStep \/ HooksStep \/ SessionStep
  \/ GdprStep \/ RateStep \/ CachingStep
  \/ RotationStep \/ BackfillStep \/ FlagsStep
  \/ PushStep \/ NotesStep \/ UploadStep
  \/ BoardStep

platformVars == <<subject, jobsVars, hookVars, sessionVars, gdprVars,
  rateVars, cachingVars, rotationVars, backfillVars, flagVars, pushVars,
  notesVars, uploadVars, boardVars>>

PlatformSpec == PlatformInit /\ [][PlatformNext]_platformVars

\* The variables of the subject have the types its module gives them.
PlatformTypeOK ==
  /\ subject \in Subjects
  /\ subject = "jobs" => JobsTypeOK
  /\ subject = "hooks" => HooksTypeOK
  /\ subject = "sessions" => SessionTypeOK
  /\ subject = "gdpr" => GdprTypeOK
  /\ subject = "rates" => RateTypeOK
  /\ subject = "caching" => CachingTypeOK
  /\ subject = "rotation" => RotationTypeOK
  /\ subject = "backfill" => BackfillTypeOK
  /\ subject = "flags" => FlagsTypeOK
  /\ subject = "push" => PushTypeOK
  /\ subject = "notes" => NotesTypeOK
  /\ subject = "files" => UploadTypeOK
  /\ subject = "board" => BoardTypeOK

\* Limits hold however requests interleave, and who waits a limit out finds
\* room, save that posts counted at the same moment may exceed the cap of
\* announcements by what was counted twice (ThrottlerStorage,
\* NotificationsController, AnnouncementsService).
LimitsHold ==
  /\ [](LimitHolds /\ StreamLimitHolds /\ CapSlipsByRacesOnly)
  /\ WaitPaysOff

\* What an erasure of an account reports completed is gone, except what came after
\* it had passed, what S3 refused and the files of KYC documents, which it does not
\* reach; a deleted file is gone, and the files that are listed are there
\* (GdprProcessor, StorageService).
ErasureIsReal ==
  CompletedIsErased /\ DeletedLeavesNothing /\ RowsHaveTheirObjects

\* A cached version of the session is the row's unless it is about to be dropped
\* or came late, and cached responses and flags are no older than their lifetimes
\* allow (JwtStrategy, CacheInterceptor, FeatureFlagService).
CachesAreCurrent == CacheIsCurrent /\ StalenessIsBounded /\ CacheDelayIsBounded

\* A retry gives no job away, and a delivery called successful was answered as
\* one (QueueService.retryDeadLetterJob, WebhookService).
DeliveriesAreHonest == RetriesLoseNothing /\ SuccessWasAnswered

\* A second run repeats nothing of the first: no device gets a push twice and no
\* ciphertext that names no version of its key is encrypted again, as every one
\* that does is (PushNotificationProcessor, the backfill script).
RetriesRepeatNothing == NobodyIsPushedTwice /\ EncryptedOnce
=============================================================================
