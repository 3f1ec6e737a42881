------------------------------- MODULE Uploads -------------------------------
(***************************************************************************)
(* Attachments: the rows in postgres, the objects in the store that they   *)
(* name, the upload sessions over them, and the background job that makes  *)
(* a preview and, of a video, an HLS copy (internal/service/media, the     *)
(* media repository, the MinIO client and the media handlers).             *)
(*                                                                         *)
(* Postgres and the store share no transaction: a step is one call on one  *)
(* of them, and between two the process may stop, losing every request and *)
(* every job for good (nothing takes a job up again).  A call on the store *)
(* may fail, and the job ignores whether its statements reached postgres.  *)
(*                                                                         *)
(* Objects are named by what they are of their attachment's key prefix.    *)
(* The original goes by the client's name for it, which may be the key of  *)
(* an object the job makes: then each put replaces what was there.         *)
(* Left out: sizes, names and mime types, measured dimensions, which hosts *)
(* an import accepts, progress counts and the lifetime of signed URLs.     *)
(***************************************************************************)
EXTENDS Naturals, FiniteSets

CONSTANTS
  Users,      \* users
  Nobody,     \* not a user
  Files,      \* attachment ids, each used once
  NoFile,     \* not an attachment
  Requests,   \* requests that can be under way at a time
  Kinds,      \* audio goes the way of an image, but never fails on it
  Names       \* the keys a client's file name can make for an original

Objects == {"original", "preview", "master", "segments", "signed"}
HLS == {"master", "segments"}        \* the whole of an HLS copy

ASSUME UploadsAssumption ==
  /\ Nobody \notin Users /\ NoFile \notin Files
  /\ Kinds \subseteq {"image", "video", "file"}
  /\ Names \subseteq Objects

VARIABLES
  row,        \* attachments
  sess,       \* media_sessions: the status of the session over an attachment
  store,      \* the objects under the key prefix of an attachment
  upload,     \* the multipart upload the store holds for it
  key,        \* object_key: whose key the original is put under
  reads,      \* reads[u]: attachments posted in chats u is a member of
  job,        \* processPreviewAsync on an attachment: the call it makes next
  req,        \* what each request does next
  drops,      \* MEDIA_DELETE_ORIGINAL_AFTER_HLS
  skipped     \* history: an HLS copy was uploaded without one of its files

dbVars == <<row, sess>>
storeVars == <<store, upload, key>>
vars == <<dbVars, storeVars, reads, job, req, drops, skipped>>

NoRow == [owner |-> Nobody, kind |-> "file", via |-> "none", status |-> "uploaded",
          preview |-> FALSE, hls |-> FALSE, meta |-> FALSE]
NewRow(u, kind, via) == [NoRow EXCEPT !.owner = u, !.kind = kind, !.via = via]
Idle == [at |-> "idle", me |-> Nobody, file |-> NoFile, src |-> NoFile,
         kind |-> "file", sess |-> FALSE, meta |-> FALSE]

Init ==
  /\ row = [f \in Files |-> NoRow]
  /\ sess = [f \in Files |-> "none"]
  /\ store = [f \in Files |-> {}]
  /\ upload = [f \in Files |-> "none"]
  /\ key = [f \in Files |-> "original"]
  /\ reads = [u \in Users |-> {}]
  /\ job = [f \in Files |-> "none"]
  /\ req = [x \in Requests |-> Idle]
  /\ drops \in BOOLEAN
  /\ skipped = {}
-----------------------------------------------------------------------------
Exists(f) == row[f].via # "none"
\* An id no row, upload or object has, and no request has drawn: a new uuid.
Fresh(f) == /\ ~Exists(f) /\ upload[f] = "none" /\ store[f] = {}
            /\ \A x \in Requests : req[x].file # f
Owns(u, f) == Exists(f) /\ row[f].owner = u
\* A message with the attachment's token in a chat the user is in; deleted
\* messages count, their rows are still there.
CanUserAccessAttachment(u, f) == Exists(f) /\ f \in reads[u]
Readable(u, f) == Owns(u, f) \/ CanUserAccessAttachment(u, f)

Begin(x) == req[x] = Idle
Goto(x, at) == req' = [req EXCEPT ![x].at = at]
Then(x, r) == req' = [req EXCEPT ![x] = r]
Return(x) == Then(x, Idle)

KeyOf(f, o) == IF o = "original" THEN key[f] ELSE o
\* What a call on the key of o finds, replaces or deletes.
Under(f, o) == {p \in store[f] : KeyOf(f, p) = KeyOf(f, o)}

Put(f, o) == store' = [store EXCEPT ![f] = (@ \ Under(f, o)) \cup {o}]
Remove(f, o) == store' = [store EXCEPT ![f] = @ \ Under(f, o)]
\* Some of the files of o are put: o is not whole, what was there may be gone.
PutSome(f, o) == \/ store' = [store EXCEPT ![f] = @ \ (Under(f, o) \ {o})]
                 \/ UNCHANGED store
Insert(f, r) == row' = [row EXCEPT ![f] = r]
-----------------------------------------------------------------------------
(* Multipart uploads. *)

\* CreateAttachment opens the upload first; the row may never follow.  The
\* key ends in the file name as the client gave it, slashes and all.
NewMultipartUpload(f, name) ==
  upload' = [upload EXCEPT ![f] = "open"] /\ key' = [key EXCEPT ![f] = name]

CreateAttachment(x, u, kind, session) ==
  /\ Begin(x)
  /\ \E f \in Files, name \in Names :
       /\ Fresh(f) /\ NewMultipartUpload(f, name)
       /\ Then(x, [Idle EXCEPT !.at = "row", !.me = u, !.file = f, !.kind = kind, !.sess = session])
  /\ UNCHANGED <<dbVars, store, reads, job, drops, skipped>>

InsertAttachment(x) ==
  /\ req[x].at = "row"
  /\ Insert(req[x].file, NewRow(req[x].me, req[x].kind, "multipart"))
  /\ IF req[x].sess THEN Goto(x, "session") ELSE Return(x)
  /\ UNCHANGED <<sess, storeVars, reads, job, drops, skipped>>

CreateSession(x) ==
  /\ req[x].at = "session"
  /\ sess' = [sess EXCEPT ![req[x].file] = "uploading"] /\ Return(x)
  /\ UNCHANGED <<row, storeVars, reads, job, drops, skipped>>

\* A URL for a part, to the owner, while the row names the upload.
PresignPart(x, u, f) ==
  /\ Begin(x)
  /\ Owns(u, f) /\ row[f].via = "multipart"
  /\ upload' = [upload EXCEPT ![f] = IF @ = "open" THEN "signed" ELSE @]
  /\ UNCHANGED <<dbVars, store, key, reads, job, req, drops, skipped>>

\* Whose session it is, and whose attachment.
GetSession(u, f) == sess[f] # "none" /\ Owns(u, f)

PresignSessionPart(x, u, f) == GetSession(u, f) /\ sess[f] = "uploading" /\ PresignPart(x, u, f)

\* The client sends the parts to the store itself.
PutPart(f) ==
  /\ upload[f] = "signed"
  /\ upload' = [upload EXCEPT ![f] = "filled"]
  /\ UNCHANGED <<dbVars, store, key, reads, job, req, drops, skipped>>

\* The store puts the object together once: afterwards the upload is gone.
CompleteUpload(f) ==
  /\ upload[f] = "filled"
  /\ upload' = [upload EXCEPT ![f] = "done"]
  /\ Put(f, "original") /\ UNCHANGED key

CompleteMultipart(u, f) ==
  /\ Owns(u, f) /\ row[f].via = "multipart"
  /\ CompleteUpload(f)
  /\ job' = [job EXCEPT ![f] = "begin"]

CompleteAttachment(x, u, f) ==
  /\ Begin(x)
  /\ CompleteMultipart(u, f)
  /\ UNCHANGED <<dbVars, reads, req, drops, skipped>>

\* The job runs before the session is marked.
CompleteSession(x, u, f) ==
  /\ Begin(x)
  /\ GetSession(u, f) /\ CompleteMultipart(u, f)
  /\ Then(x, [Idle EXCEPT !.at = "mark", !.me = u, !.file = f])
  /\ UNCHANGED <<dbVars, reads, drops, skipped>>

\* Whatever the job has made of the session meanwhile.
FinalStatus(f) == IF row[f].kind = "video" THEN "processing" ELSE "ready"
MarkSessionFinalized(x) ==
  /\ req[x].at = "mark"
  /\ sess' = [sess EXCEPT ![req[x].file] = FinalStatus(req[x].file)]
  /\ Return(x)
  /\ UNCHANGED <<row, storeVars, reads, job, drops, skipped>>
-----------------------------------------------------------------------------
(* Imports and pins: an object first, then the row that names it.  The     *)
(* file name is cleaned of slashes, so their keys are nothing else's.      *)

ImportFromURL(x, u, kind) ==
  /\ Begin(x)
  /\ \E f \in Files :
       /\ Fresh(f) /\ Put(f, "original")
       /\ Then(x, [Idle EXCEPT !.at = "import", !.me = u, !.file = f, !.kind = kind])
  /\ UNCHANGED <<dbVars, upload, key, reads, job, drops, skipped>>

InsertImport(x) ==
  /\ req[x].at = "import"
  /\ Insert(req[x].file, NewRow(req[x].me, req[x].kind, "server_import"))
  /\ job' = [job EXCEPT ![req[x].file] = "begin"]
  /\ Return(x)
  /\ UNCHANGED <<sess, storeVars, reads, drops, skipped>>

\* One's own attachment needs no copy.  The copy has an id of its own.
PinAttachment(x, u, s) ==
  /\ Begin(x)
  /\ ~Owns(u, s) /\ CanUserAccessAttachment(u, s)
  /\ \E f \in Files :
       /\ Fresh(f)
       /\ Then(x, [Idle EXCEPT !.at = "copy", !.me = u, !.file = f, !.src = s,
                               !.kind = row[s].kind, !.meta = row[s].meta])
  /\ UNCHANGED <<dbVars, storeVars, reads, job, drops, skipped>>

\* The original may be gone by now: then there is nothing to pin.
CopyObject(x) ==
  /\ req[x].at = "copy"
  /\ IF Under(req[x].src, "original") # {}
     THEN Put(req[x].file, "original") /\ Goto(x, "pin")
     ELSE UNCHANGED store /\ Return(x)
  /\ UNCHANGED <<dbVars, upload, key, reads, job, drops, skipped>>
InsertPin(x) ==
  /\ req[x].at = "pin"
  /\ Insert(req[x].file, NewRow(req[x].me, req[x].kind, "pin"))
  /\ IF req[x].meta THEN Goto(x, "pinMeta") ELSE Return(x)
  /\ UNCHANGED <<sess, storeVars, reads, job, drops, skipped>>

PinMeta(x) ==
  /\ req[x].at = "pinMeta"
  /\ row' = [row EXCEPT ![req[x].file].meta = TRUE] /\ Return(x)
  /\ UNCHANGED <<sess, storeVars, reads, job, drops, skipped>>
-----------------------------------------------------------------------------
(* What a reader is given. *)

\* A video is played from its HLS copy when the row names one: the manifest
\* is read and written again with signed references.
PlaysHLS(f) == row[f].kind = "video" /\ row[f].hls
PresignHLSPlaybackManifest(f) == Under(f, "master") # {} /\ Put(f, "signed")

GetAttachment(x, u, f) ==
  /\ Begin(x)
  /\ Readable(u, f)
  /\ \/ PlaysHLS(f) /\ PresignHLSPlaybackManifest(f)
     \/ ~PlaysHLS(f) /\ UNCHANGED store
  /\ UNCHANGED <<dbVars, upload, key, reads, job, req, drops, skipped>>

\* A download of a video writes the same manifest before it is put together.
CreateDownloadURL(x, u, f) ==
  /\ Begin(x)
  /\ Readable(u, f) /\ PlaysHLS(f) /\ PresignHLSPlaybackManifest(f)
  /\ UNCHANGED <<dbVars, upload, key, reads, job, req, drops, skipped>>

\* A reader who is not the owner passes the check and finds no row to write.
SetAttachmentUserMeta(u, f) ==
  row' = IF Owns(u, f) THEN [row EXCEPT ![f].meta = TRUE] ELSE row
SetUserMeta(x, u, f) ==
  /\ Begin(x)
  /\ Readable(u, f) /\ SetAttachmentUserMeta(u, f)
  /\ UNCHANGED <<sess, storeVars, reads, job, req, drops, skipped>>

\* Messages with the token, and chats joined and left, decide who reads
\* besides the owner.
Posted(u, f) ==
  /\ Exists(f) /\ ~Owns(u, f) /\ reads' = [reads EXCEPT ![u] = @ \cup {f}]
  /\ UNCHANGED <<dbVars, storeVars, job, req, drops, skipped>>
Left(u) ==
  /\ reads' = [reads EXCEPT ![u] = {}]
  /\ UNCHANGED <<dbVars, storeVars, job, req, drops, skipped>>
-----------------------------------------------------------------------------
(* processPreviewAsync *)

JobGoes(f, at) == job' = [job EXCEPT ![f] = at]
JobKeeps == UNCHANGED <<upload, key, reads, req, drops, skipped>>

\* SetProcessing writes the status and both keys; the job does not look
\* whether it did.
SetProcessing(f, status, preview, hls) ==
  \/ row' = [row EXCEPT ![f].status = status, ![f].preview = preview, ![f].hls = hls]
  \/ UNCHANGED row
\* No session, no row to write; or the statement is lost.
FinalizeSessionByAttachment(f, status) ==
  \/ sess' = [sess EXCEPT ![f] = IF @ = "none" THEN @ ELSE status]
  \/ UNCHANGED sess

JobBegins(f) ==
  /\ job[f] = "begin"
  /\ SetProcessing(f, "processing", FALSE, FALSE)
  /\ JobGoes(f, "preview") /\ UNCHANGED <<sess, store>> /\ JobKeeps

\* Only a preview of an image or a video can fail, on what it reads.
BuildPreview(f) ==
  /\ job[f] = "preview"
  /\ \/ /\ row[f].kind = "file" \/ Under(f, "original") # {}
        /\ JobGoes(f, IF row[f].kind = "video" THEN "master" ELSE "putPreview")
     \/ row[f].kind # "file" /\ JobGoes(f, "fail")
  /\ UNCHANGED <<dbVars, store>> /\ JobKeeps

\* The files ffmpeg left, in the order of their names: the playlist goes up
\* before the segments it lists.  A file that cannot be found any more is
\* passed over, and the copy is named all the same; a put that errs may have
\* happened.
AfterHLS == IF drops THEN "drop" ELSE "putPreview"
Skips(f) == skipped' = skipped \cup {f}
UploadMaster(f) ==
  /\ job[f] = "master"
  /\ \/ Put(f, "master") /\ JobGoes(f, "segments") /\ UNCHANGED skipped
     \/ UNCHANGED store /\ JobGoes(f, "segments") /\ Skips(f)
     \/ (Put(f, "master") \/ UNCHANGED store) /\ JobGoes(f, "fail") /\ UNCHANGED skipped
  /\ UNCHANGED <<dbVars, upload, key, reads, req, drops>>
\* A slip: a segment that cannot be stored is no reason to fail either.
UploadAnyway(f) ==
  /\ job[f] = "segments"
  /\ \/ Put(f, "segments") /\ UNCHANGED skipped
     \/ PutSome(f, "segments") /\ UNCHANGED skipped
     \/ PutSome(f, "segments") /\ Skips(f)
  /\ JobGoes(f, AfterHLS)
  /\ UNCHANGED <<dbVars, upload, key, reads, req, drops>>

UploadSegments(f) ==
  /\ job[f] = "segments"
  /\ \/ Put(f, "segments") /\ JobGoes(f, AfterHLS) /\ UNCHANGED skipped
     \/ PutSome(f, "segments") /\ JobGoes(f, AfterHLS) /\ Skips(f)
     \/ /\ Put(f, "segments") \/ PutSome(f, "segments")
        /\ JobGoes(f, "fail") /\ UNCHANGED skipped
  /\ UNCHANGED <<dbVars, upload, key, reads, req, drops>>
\* The original, or what has replaced it, is deleted after the copy was put; a
\* deletion that errs may have happened.
DropOriginal(f) ==
  /\ job[f] = "drop"
  /\ \/ Remove(f, "original") /\ JobGoes(f, "putPreview")
     \/ (Remove(f, "original") \/ UNCHANGED store) /\ JobGoes(f, "fail")
  /\ UNCHANGED dbVars /\ JobKeeps

\* A slip: a preview that could not be stored is named all the same.
PutPreviewAnyway(f) ==
  /\ job[f] = "putPreview"
  /\ Put(f, "preview") \/ UNCHANGED store
  /\ JobGoes(f, "ready")
  /\ UNCHANGED dbVars /\ JobKeeps

PutPreview(f) ==
  /\ job[f] = "putPreview"
  /\ \/ row[f].kind = "file" /\ UNCHANGED store /\ JobGoes(f, "ready")
     \/ row[f].kind # "file" /\ Put(f, "preview") /\ JobGoes(f, "ready")
     \/ /\ row[f].kind # "file" /\ JobGoes(f, "fail")
        /\ Put(f, "preview") \/ UNCHANGED store
  /\ UNCHANGED dbVars /\ JobKeeps
JobReady(f) ==
  /\ job[f] = "ready"
  /\ SetProcessing(f, "ready", row[f].kind # "file", row[f].kind = "video")
  /\ JobGoes(f, "closeReady") /\ UNCHANGED <<sess, store>> /\ JobKeeps

\* A failure, at whatever point, forgets the keys.
JobFails(f) ==
  /\ job[f] = "fail"
  /\ SetProcessing(f, "failed", FALSE, FALSE)
  /\ JobGoes(f, "closeFailed") /\ UNCHANGED <<sess, store>> /\ JobKeeps

JobCloses(f) ==
  /\ \/ job[f] = "closeReady" /\ FinalizeSessionByAttachment(f, "ready")
     \/ job[f] = "closeFailed" /\ FinalizeSessionByAttachment(f, "failed")
  /\ JobGoes(f, "none") /\ UNCHANGED <<row, store>> /\ JobKeeps

Job(f) ==
  \/ JobBegins(f) \/ BuildPreview(f) \/ UploadMaster(f) \/ UploadSegments(f)
  \/ DropOriginal(f) \/ PutPreview(f) \/ JobReady(f) \/ JobFails(f) \/ JobCloses(f)

\* The process stops: no request answers and no job is taken up again.
Crash ==
  /\ req' = [x \in Requests |-> Idle] /\ job' = [f \in Files |-> "none"]
  /\ UNCHANGED <<dbVars, storeVars, reads, drops, skipped>>
-----------------------------------------------------------------------------
AttachmentsHandler(x, u) == \E kind \in Kinds : CreateAttachment(x, u, kind, FALSE)
SessionsHandler(x, u) == \E kind \in Kinds : CreateAttachment(x, u, kind, TRUE)
AttachmentByIDHandler(x, u) ==
  \/ \E kind \in Kinds : ImportFromURL(x, u, kind)
  \/ \E f \in Files : \/ PresignPart(x, u, f) \/ CompleteAttachment(x, u, f)
                      \/ CreateDownloadURL(x, u, f) \/ SetUserMeta(x, u, f)
                      \/ PinAttachment(x, u, f) \/ GetAttachment(x, u, f)
SessionByIDHandler(x, u) ==
  \E f \in Files : PresignSessionPart(x, u, f) \/ CompleteSession(x, u, f)

Handlers(x) == \E u \in Users :
  \/ AttachmentsHandler(x, u) \/ SessionsHandler(x, u)
  \/ AttachmentByIDHandler(x, u) \/ SessionByIDHandler(x, u)

Continue(x) ==
  \/ InsertAttachment(x) \/ CreateSession(x) \/ MarkSessionFinalized(x)
  \/ InsertImport(x) \/ CopyObject(x) \/ InsertPin(x) \/ PinMeta(x)

Next ==
  \/ \E x \in Requests : Handlers(x) \/ Continue(x)
  \/ \E f \in Files : Job(f) \/ PutPart(f)
  \/ \E u \in Users : Left(u) \/ \E f \in Files : Posted(u, f)
  \/ Crash

Spec == Init /\ [][Next]_vars
-----------------------------------------------------------------------------
(* Properties *)

\* A row never names an object that is not in the store: a preview, an HLS
\* copy and a pinned copy are stored before the row says so, and no deletion,
\* of a source or of an original, and no put takes them away
\* (processPreviewAsync, PinAttachment).  A named HLS copy may lack a file only
\* where the upload passed one over, or where originals are deleted and the
\* client gave the original the name of a file of the copy.
NothingDangles == \A f \in Files :
  /\ row[f].preview => "preview" \in store[f]
  /\ row[f].hls /\ f \notin skipped /\ (drops => key[f] \notin HLS) => HLS \subseteq store[f]
  /\ row[f].via = "pin" => "original" \in store[f]

\* Whatever fails and whenever the process stops, what was uploaded under a
\* name of its own is still in the store, as the original or as an HLS copy
\* that is whole (or was put with a file passed over, the original deleted).
SomethingIsKept == \A f \in Files :
  /\ upload[f] = "done" \/ row[f].via \in {"server_import", "pin"}
  /\ key[f] = "original" /\ ~(drops /\ f \in skipped)
  => "original" \in store[f] \/ HLS \subseteq store[f]

=============================================================================
