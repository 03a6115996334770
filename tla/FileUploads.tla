----------------------------- MODULE FileUploads -----------------------------
(***************************************************************************)
(* The file upload service ("File Upload Service/src/storage"): an upload   *)
(* is validated, its image re-encoded, the object and its thumbnail are     *)
(* stored and the row is written last; a deletion takes away the objects    *)
(* first and the row last; links lead to the object, or to the service that *)
(* looks it up.  A failure or a crash can come between any two steps.       *)
(***************************************************************************)
EXTENDS Naturals

CONSTANTS
  Uploads,        \* requests to POST /upload: each has its own storage key
  Offered,        \* what they may bring, a subset of UploadInputs
  Deletions,      \* requests to DELETE /upload/:id
  LinkReaders,    \* those who ask for a signed URL and follow it
  MaxUploadFaults \* failures of the disk, S3, sharp, the database; crashes

FileTypes == {"profile_picture", "group_image", "document"}
Mimes == {"image", "pdf", "doc", "docx", "xlsx"}
UploadInputs == [type : FileTypes, mime : Mimes, ext : {"image", "document"},
                 content : {"image", "pdf", "zip", "junk"}]

ASSUME UploadAssumption ==
  Offered \subseteq UploadInputs /\ MaxUploadFaults \in Nat

VARIABLES
  adapter,      \* STORAGE_TYPE
  uploads,      \* how far each upload has come, and what it brings
  mains,        \* the objects in the storage, ...
  thumbs,       \* ... the thumbnails in the storage, ...
  rows,         \* ... and the rows of file_metadata, by upload
  deletions,    \* how far each deletion has come, and of which file
  links,        \* the signed URLs
  uploadFaults

uploadVars ==
  <<adapter, uploads, mains, thumbs, rows, deletions, links, uploadFaults>>

NoFile == "no file"
NoInput == [type |-> "none"]

UploadTypeOK ==
  /\ adapter \in {"s3", "local"}
  /\ uploads \in [Uploads ->
       [at : {"none", "refused", "image", "main", "thumb", "row", "saved",
              "failed"},
        input : Offered \cup {NoInput}]]
  /\ mains \subseteq Uploads /\ thumbs \subseteq Uploads
  /\ rows \subseteq Uploads
  /\ deletions \in [Deletions ->
       [at : {"none", "main", "thumb", "row", "done", "failed"},
        file : Uploads \cup {NoFile}]]
  /\ links \in [LinkReaders ->
       [at : {"none", "fresh", "expired", "served", "refused", "missing"},
        file : Uploads \cup {NoFile}]]
  /\ uploadFaults \in 0 .. MaxUploadFaults

-----------------------------------------------------------------------------
\* ParseFilePipe names no spreadsheet, although the service allows them.
PipeTypes == {"image", "pdf", "doc", "docx"}

\* getValidationOptions.
AllowedTypes(type) ==
  IF type = "document" THEN {"pdf", "doc", "docx", "xlsx"} ELSE {"image"}
AllowedExtensions(type) == IF type = "document" THEN "document" ELSE "image"

\* validateMagicNumber: the old Word format has no signature to compare.
Signature(i) ==
  \/ i.mime = "doc"
  \/ i.mime \in {"image", "pdf"} /\ i.content = i.mime
  \/ i.mime \in {"docx", "xlsx"} /\ i.content = "zip"

Accepted(i) ==
  /\ i.mime \in PipeTypes
  /\ i.mime \in AllowedTypes(i.type)
  /\ i.ext = AllowedExtensions(i.type)
  /\ Signature(i)

HasThumbnail(f) == uploads[f].input.type = "profile_picture"

Reach(f, at) == uploads' = [uploads EXCEPT ![f].at = at]
UploadFault == uploadFaults > 0 /\ uploadFaults' = uploadFaults - 1

\* uploadFile: the pipe and the validation refuse without a trace; ...
ReceiveUpload(f, i) ==
  /\ uploads[f].at = "none"
  /\ uploads' = [uploads EXCEPT ![f] = [at |->
       IF ~Accepted(i) THEN "refused"
       ELSE IF i.mime = "image" THEN "image" ELSE "main", input |-> i]]
  /\ UNCHANGED <<adapter, mains, thumbs, rows, deletions, links, uploadFaults>>

\* ... an image is turned and re-encoded, ...
ProcessImage(f) ==
  /\ uploads[f].at = "image" /\ Reach(f, "main")
  /\ UNCHANGED <<adapter, mains, thumbs, rows, deletions, links, uploadFaults>>

\* ... the object is stored, ...
StoreMain(f) ==
  /\ uploads[f].at = "main"
  /\ mains' = mains \cup {f}
  /\ Reach(f, IF HasThumbnail(f) THEN "thumb" ELSE "row")
  /\ UNCHANGED <<adapter, thumbs, rows, deletions, links, uploadFaults>>

\* ... then the thumbnail of a profile picture, ...
StoreThumbnail(f) ==
  /\ uploads[f].at = "thumb"
  /\ thumbs' = thumbs \cup {f} /\ Reach(f, "row")
  /\ UNCHANGED <<adapter, mains, rows, deletions, links, uploadFaults>>

\* ... and the row is written last.
SaveMetadata(f) ==
  /\ uploads[f].at = "row"
  /\ rows' = rows \cup {f} /\ Reach(f, "saved")
  /\ UNCHANGED <<adapter, mains, thumbs, deletions, links, uploadFaults>>

\* A step that fails, or whose answer is lost, or a crash: nothing is undone.
UploadFails(f) ==
  /\ uploads[f].at \in {"image", "main", "thumb", "row"}
  /\ UploadFault /\ Reach(f, "failed")
  /\ mains' \in {mains, IF uploads[f].at = "main" THEN mains \cup {f}
                        ELSE mains}
  /\ thumbs' \in {thumbs, IF uploads[f].at = "thumb" THEN thumbs \cup {f}
                          ELSE thumbs}
  /\ rows' \in {rows, IF uploads[f].at = "row" THEN rows \cup {f} ELSE rows}
  /\ UNCHANGED <<adapter, deletions, links>>

-----------------------------------------------------------------------------
Deleting(d, at) == deletions' = [deletions EXCEPT ![d].at = at]

\* deleteFile: no row, no deletion; ...
FindMetadata(d, f) ==
  /\ deletions[d].at = "none" /\ f \in rows
  /\ deletions' = [deletions EXCEPT ![d] = [at |-> "main", file |-> f]]
  /\ UNCHANGED <<adapter, uploads, mains, thumbs, rows, links, uploadFaults>>

\* ... the object goes first, were it gone already, ...
DeleteObject(d) ==
  LET f == deletions[d].file IN
  /\ deletions[d].at = "main"
  /\ mains' = mains \ {f}
  /\ Deleting(d, IF HasThumbnail(f) THEN "thumb" ELSE "row")
  /\ UNCHANGED <<adapter, uploads, thumbs, rows, links, uploadFaults>>

\* ... then the thumbnail, ...
DeleteThumbnail(d) ==
  /\ deletions[d].at = "thumb"
  /\ thumbs' = thumbs \ {deletions[d].file} /\ Deleting(d, "row")
  /\ UNCHANGED <<adapter, uploads, mains, rows, links, uploadFaults>>

\* ... and the row last, were it removed already.
RemoveMetadata(d) ==
  /\ deletions[d].at = "row"
  /\ rows' = rows \ {deletions[d].file} /\ Deleting(d, "done")
  /\ UNCHANGED <<adapter, uploads, mains, thumbs, links, uploadFaults>>

\* A step that fails, before or after it took effect, or a crash.
DeletionFails(d) ==
  LET at == deletions[d].at
      f == deletions[d].file
  IN
  /\ at \in {"main", "thumb", "row"}
  /\ UploadFault /\ Deleting(d, "failed")
  /\ mains' \in {mains, IF at = "main" THEN mains \ {f} ELSE mains}
  /\ thumbs' \in {thumbs, IF at = "thumb" THEN thumbs \ {f} ELSE thumbs}
  /\ rows' \in {rows, IF at = "row" THEN rows \ {f} ELSE rows}
  /\ UNCHANGED <<adapter, uploads, links>>

-----------------------------------------------------------------------------
Link(r, at) == links' = [links EXCEPT ![r].at = at]

\* getSignedUrl.
SignUrl(r, f) ==
  /\ links[r].at = "none" /\ f \in rows
  /\ links' = [links EXCEPT ![r] = [at |-> "fresh", file |-> f]]
  /\ UNCHANGED <<adapter, uploads, mains, thumbs, rows, deletions, uploadFaults>>

LinkExpires(r) ==
  /\ links[r].at = "fresh" /\ Link(r, "expired")
  /\ UNCHANGED <<adapter, uploads, mains, thumbs, rows, deletions, uploadFaults>>

\* The URL of S3 leads to the object itself.
FollowS3Url(r) ==
  /\ adapter = "s3" /\ links[r].at \in {"fresh", "expired"}
  /\ Link(r, IF links[r].at = "expired" THEN "refused"
             ELSE IF links[r].file \in mains THEN "served" ELSE "missing")
  /\ UNCHANGED <<adapter, uploads, mains, thumbs, rows, deletions, uploadFaults>>

\* serveFile: the key of the URL is looked up as the id of a row, which it is
\* not, so the file is never found.
ServeFile(r) ==
  /\ adapter = "local" /\ links[r].at \in {"fresh", "expired"}
  /\ Link(r, IF links[r].at = "expired" THEN "refused" ELSE "missing")
  /\ UNCHANGED <<adapter, uploads, mains, thumbs, rows, deletions, uploadFaults>>

-----------------------------------------------------------------------------
UploadInit ==
  /\ adapter \in {"s3", "local"}
  /\ uploads = [f \in Uploads |-> [at |-> "none", input |-> NoInput]]
  /\ mains = {} /\ thumbs = {} /\ rows = {}
  /\ deletions = [d \in Deletions |-> [at |-> "none", file |-> NoFile]]
  /\ links = [r \in LinkReaders |-> [at |-> "none", file |-> NoFile]]
  /\ uploadFaults = MaxUploadFaults

UploadNext ==
  \/ \E f \in Uploads, i \in Offered : ReceiveUpload(f, i)
  \/ \E f \in Uploads :
       \/ ProcessImage(f) \/ StoreMain(f) \/ StoreThumbnail(f)
       \/ SaveMetadata(f) \/ UploadFails(f)
  \/ \E d \in Deletions, f \in Uploads : FindMetadata(d, f)
  \/ \E d \in Deletions :
       \/ DeleteObject(d) \/ DeleteThumbnail(d) \/ RemoveMetadata(d)
       \/ DeletionFails(d)
  \/ \E r \in LinkReaders, f \in Uploads : SignUrl(r, f)
  \/ \E r \in LinkReaders : LinkExpires(r) \/ FollowS3Url(r) \/ ServeFile(r)

UploadSpec == UploadInit /\ [][UploadNext]_uploadVars

-----------------------------------------------------------------------------
\* A row whose object is not in the storage is one somebody has begun to
\* delete: uploadFile writes it after the objects, whatever fails or crashes.
RowsHaveTheirObjects ==
  \A f \in rows :
    \/ f \in mains /\ (HasThumbnail(f) => f \in thumbs)
    \/ \E d \in Deletions : deletions[d].file = f

\* Once the row of a file is gone nothing of it is left in the storage, and a
\* deletion that failed half-way can be asked for again: deleteFile removes the
\* row last.  Objects without a row are those of uploads that failed.
DeletedLeavesNothing ==
  \A f \in (mains \cup thumbs) \ rows : uploads[f].at # "saved"
=============================================================================
