---------------------------- MODULE AccountProofs ----------------------------
(***************************************************************************)
(* Proofs about what an account has: its uploads and its sessions.         *)
(*                                                                         *)
(* About Uploads, for any users, attachments and requests: no row names an *)
(* object that is not there, and what was uploaded is kept, wherever the   *)
(* process stops and whatever fails; but for an HLS copy that was put with *)
(* a file passed over, and an original with the name of what the job puts. *)
(*                                                                         *)
(* About AuthSessions, for any accounts, sessions and requests: a revoked  *)
(* session stays revoked, nobody unverified gets an unlimited token, and   *)
(* nobody is let past the login key to a session that is not limited.      *)
(***************************************************************************)
EXTENDS Uploads, AuthPromises, TLAPS

Statuses == {"uploaded", "processing", "ready", "failed"}
Rows == [owner : Users \union {Nobody}, kind : {"image", "video", "file"},
         via : {"none", "multipart", "server_import", "pin"}, status : Statuses,
         preview : BOOLEAN, hls : BOOLEAN, meta : BOOLEAN]
Stages == {"idle", "row", "session", "mark", "import", "copy", "pin", "pinMeta"}
InHand == [at : Stages, me : Users \union {Nobody}, file : Files \union {NoFile},
           src : Files \union {NoFile}, kind : {"image", "video", "file"},
           sess : BOOLEAN, meta : BOOLEAN]

TypeOK ==
  /\ row \in [Files -> Rows]
  /\ sess \in [Files -> Statuses \union {"none", "uploading"}]
  /\ store \in [Files -> SUBSET Objects]
  /\ upload \in [Files -> {"none", "open", "signed", "filled", "done"}]
  /\ key \in [Files -> Objects]
  /\ reads \in [Users -> SUBSET Files]
  /\ job \in [Files -> {"none", "begin", "preview", "master", "segments", "drop", "putPreview",
                        "ready", "fail", "closeReady", "closeFailed"}]
  /\ req \in [Requests -> InHand]
  /\ drops \in BOOLEAN
  /\ skipped \subseteq Files

\* A request that has drawn an id and not yet inserted its row has it to itself.
Drawing == {"row", "import", "copy", "pin"}
DrawnAlone ==
  /\ \A x \in Requests : req[x].at \in Drawing => req[x].file \in Files /\ ~Exists(req[x].file)
  /\ \A x, y \in Requests :
       req[x].at \in Drawing /\ req[y].at \in Drawing /\ req[x].file = req[y].file => x = y

\* The object of an import or of a copy is there before its row.
ObjectFirst ==
  \A x \in Requests : req[x].at \in {"import", "pin"} => "original" \in store[req[x].file]

\* Only an original that is uploaded has a name the client chose.
NamesAreChosen ==
  /\ \A f \in Files : /\ key[f] # "original" => upload[f] # "none"
                      /\ row[f].via \in {"server_import", "pin"} => upload[f] = "none"
  /\ \A x \in Requests : req[x].at \in {"import", "copy", "pin"} => upload[req[x].file] = "none"

\* A job works on an attachment that was uploaded or imported, never on a copy, and at every
\* point it has stored what it will say, or will do without.
JobIsOnTrack == \A f \in Files :
  /\ job[f] # "none" => row[f].via \in {"multipart", "server_import"}
  /\ job[f] = "segments" => "master" \in store[f] \/ f \in skipped
  /\ job[f] = "drop" => drops /\ (HLS \subseteq store[f] \/ f \in skipped)
  /\ job[f] \in {"putPreview", "ready"} /\ row[f].kind = "video" /\ (drops => key[f] \notin HLS)
       => HLS \subseteq store[f] \/ f \in skipped
  /\ job[f] = "ready" /\ row[f].kind # "file" => "preview" \in store[f]

\* The job runs once: before it is ready the row names nothing, nor does it before the store
\* has put the upload together.
Uploading(f) == upload[f] \notin {"none", "done"}
Early == {"begin", "preview", "master", "segments", "drop", "putPreview"}
NamesNothing(f) == ~row[f].preview /\ ~row[f].hls
JobRunsOnce == \A f \in Files :
  /\ ~Exists(f) \/ Uploading(f) \/ job[f] \in Early => NamesNothing(f)
  /\ Uploading(f) => job[f] = "none"

KeptInv == /\ TypeOK /\ DrawnAlone /\ NamesAreChosen /\ ObjectFirst /\ JobIsOnTrack /\ JobRunsOnce
           /\ NothingDangles /\ SomethingIsKept
-----------------------------------------------------------------------------
(* Types.                                                                  *)

LEMMA ObjectsOfJobs == ASSUME TypeOK, NEW f \in Files
  PROVE  /\ row[f] \in Rows /\ store[f] \subseteq Objects
         /\ \A g \in Files, o \in Objects : Put(g, o) => store' \in [Files -> SUBSET Objects]
         /\ \A g \in Files : \A o :
              Remove(g, o) \/ PutSome(g, o) => store' \in [Files -> SUBSET Objects]
BY DEF TypeOK, Put, Remove, PutSome

LEMMA NewRowType == ASSUME NEW u \in Users \union {Nobody}, NEW kind \in {"image", "video", "file"},
                           NEW via \in {"none", "multipart", "server_import", "pin"}
  PROVE  NewRow(u, kind, via) \in Rows /\ NewRow(u, kind, via).via = via
         /\ ~NewRow(u, kind, via).preview /\ ~NewRow(u, kind, via).hls
         /\ NewRow(u, kind, via).kind = kind
BY DEF NewRow, NoRow, Rows, Statuses

LEMMA RowWrites == ASSUME NEW r \in Rows
  PROVE  /\ [r EXCEPT !.meta = TRUE] \in Rows
         /\ \A s \in Statuses, p, h \in BOOLEAN :
              [r EXCEPT !.status = s, !.preview = p, !.hls = h] \in Rows
BY DEF Rows

LEMMA RowWritten == ASSUME TypeOK, NEW f, NEW r \in Rows, row' = [row EXCEPT ![f] = r]
  PROVE  row' \in [Files -> Rows]
BY DEF TypeOK

LEMMA IdleType == Idle \in InHand
BY DEF Idle, InHand, Stages

LEMMA InitType == Init => TypeOK
BY NewRowType, IdleType DEF Init, TypeOK, NoRow, Rows, Statuses, Objects

LEMMA HandlersType == ASSUME TypeOK, NEW x \in Requests, Handlers(x) PROVE TypeOK'
<1> USE DEF dbVars, storeVars
<1>0. PICK u \in Users : \/ AttachmentsHandler(x, u) \/ SessionsHandler(x, u)
                         \/ AttachmentByIDHandler(x, u) \/ SessionByIDHandler(x, u)
  BY DEF Handlers
<1>1. ASSUME NEW kind \in Kinds, NEW opened \in BOOLEAN, CreateAttachment(x, u, kind, opened)
      PROVE  TypeOK'
  <2>1. PICK f \in Files, name \in Names :
                           /\ upload' = [upload EXCEPT ![f] = "open"] /\ key' = [key EXCEPT ![f] = name]
                           /\ req' = [req EXCEPT ![x] = [Idle EXCEPT !.at = "row", !.me = u, !.file = f,
                                                                    !.kind = kind, !.sess = opened]]
    BY <1>1 DEF CreateAttachment, NewMultipartUpload, Then
  <2>2. req'[x] \in InHand /\ req' \in [Requests -> InHand]
    BY <2>1, UploadsAssumption DEF Idle, InHand, Stages, TypeOK
  <2> QED  BY <1>1, <2>1, <2>2, UploadsAssumption DEF CreateAttachment, TypeOK
<1>2. ASSUME NEW kind \in Kinds, ImportFromURL(x, u, kind) PROVE TypeOK'
  <2>1. PICK f \in Files : /\ Put(f, "original")
                           /\ req' = [req EXCEPT ![x] = [Idle EXCEPT !.at = "import", !.me = u, !.file = f,
                                                                    !.kind = kind]]
    BY <1>2 DEF ImportFromURL, Then
  <2>2. req'[x] \in InHand /\ req' \in [Requests -> InHand]
    BY <2>1, UploadsAssumption DEF Idle, InHand, Stages, TypeOK
  <2>3. store' \in [Files -> SUBSET Objects]
    BY <2>1, ObjectsOfJobs DEF Objects
  <2> QED  BY <1>2, <2>2, <2>3 DEF ImportFromURL, TypeOK
<1>3. ASSUME NEW s \in Files, PinAttachment(x, u, s) PROVE TypeOK'
  <2>1. PICK f \in Files :
          req' = [req EXCEPT ![x] = [Idle EXCEPT !.at = "copy", !.me = u, !.file = f, !.src = s,
                                                 !.kind = row[s].kind, !.meta = row[s].meta]]
    BY <1>3 DEF PinAttachment, Then
  <2>2. row[s].kind \in {"image", "video", "file"} /\ row[s].meta \in BOOLEAN
    BY DEF TypeOK, Rows
  <2>3. req'[x] \in InHand /\ req' \in [Requests -> InHand]
    BY <2>1, <2>2 DEF Idle, InHand, Stages, TypeOK
  <2> QED  BY <1>3, <2>3 DEF PinAttachment, TypeOK
<1>4. ASSUME NEW f \in Files, PresignPart(x, u, f) PROVE TypeOK'
  BY <1>4 DEF PresignPart, TypeOK
<1>5. ASSUME NEW f \in Files, CompleteAttachment(x, u, f) \/ CompleteSession(x, u, f) PROVE TypeOK'
  <2>1. /\ Put(f, "original") /\ upload' = [upload EXCEPT ![f] = "done"]
        /\ job' = [job EXCEPT ![f] = "begin"] /\ UNCHANGED <<dbVars, key, reads, drops, skipped>>
    BY <1>5 DEF CompleteAttachment, CompleteSession, CompleteMultipart, CompleteUpload
  <2>2. req' \in [Requests -> InHand]
    <3>1. CASE CompleteAttachment(x, u, f)
      BY <3>1 DEF CompleteAttachment, TypeOK
    <3>2. CASE CompleteSession(x, u, f)
      <4>1. [Idle EXCEPT !.at = "mark", !.me = u, !.file = f] \in InHand
        BY DEF Idle, InHand, Stages
      <4> QED  BY <3>2, <4>1 DEF CompleteSession, Then, TypeOK
    <3> QED  BY <1>5, <3>1, <3>2
  <2>3. store' \in [Files -> SUBSET Objects]
    BY <2>1, ObjectsOfJobs DEF Objects
  <2> QED  BY <2>1, <2>2, <2>3 DEF TypeOK
<1>6. ASSUME NEW f \in Files, GetAttachment(x, u, f) \/ CreateDownloadURL(x, u, f) PROVE TypeOK'
  <2>1. UNCHANGED store \/ Put(f, "signed")
    BY <1>6 DEF GetAttachment, CreateDownloadURL, PresignHLSPlaybackManifest
  <2>2. store' \in [Files -> SUBSET Objects]
    BY <2>1, ObjectsOfJobs DEF Objects, TypeOK
  <2> QED  BY <1>6, <2>2 DEF GetAttachment, CreateDownloadURL, TypeOK
<1>7. ASSUME NEW f \in Files, SetUserMeta(x, u, f) PROVE TypeOK'
  <2>1. row' \in [Files -> Rows]
    <3>1. row[f] \in Rows /\ [row[f] EXCEPT !.meta = TRUE] \in Rows
      BY RowWrites DEF TypeOK
    <3>2. row' = row \/ row' = [row EXCEPT ![f] = [row[f] EXCEPT !.meta = TRUE]]
      BY <1>7 DEF SetUserMeta, SetAttachmentUserMeta
    <3> QED  BY <3>1, <3>2, RowWritten DEF TypeOK
  <2> QED  BY <1>7, <2>1 DEF SetUserMeta, TypeOK
<1> QED
  BY <1>0, <1>1, <1>2, <1>3, <1>4, <1>5, <1>6, <1>7
     DEF AttachmentsHandler, SessionsHandler, AttachmentByIDHandler, SessionByIDHandler, PresignSessionPart

LEMMA ContinueType == ASSUME TypeOK, NEW x \in Requests, Continue(x) PROVE TypeOK'
<1> USE DEF dbVars, storeVars, InHand
<1>0. /\ req[x] \in InHand
      /\ \A at \in Stages : Goto(x, at) => req' \in [Requests -> InHand]
      /\ Return(x) => req' \in [Requests -> InHand]
  BY IdleType DEF TypeOK, Goto, Return, Then
<1>1. CASE InsertAttachment(x) \/ InsertImport(x) \/ InsertPin(x)
  <2>1. \E via \in {"multipart", "server_import", "pin"} :
          Insert(req[x].file, NewRow(req[x].me, req[x].kind, via))
    BY <1>1 DEF InsertAttachment, InsertImport, InsertPin
  <2>2. row' \in [Files -> Rows]
    <3>1. PICK via \in {"multipart", "server_import", "pin"} :
            Insert(req[x].file, NewRow(req[x].me, req[x].kind, via))
      BY <2>1
    <3>2. NewRow(req[x].me, req[x].kind, via) \in Rows
      BY <1>0, NewRowType
    <3> QED  BY <3>1, <3>2 DEF Insert, TypeOK
  <2>3. req' \in [Requests -> InHand] /\ UNCHANGED <<sess, storeVars, reads, drops, skipped>>
    BY <1>0, <1>1 DEF InsertAttachment, InsertImport, InsertPin, Stages
  <2>4. job' = job \/ job' = [job EXCEPT ![req[x].file] = "begin"]
    BY <1>1 DEF InsertAttachment, InsertImport, InsertPin
  <2> QED  BY <2>2, <2>3, <2>4 DEF TypeOK
<1>2. CASE CreateSession(x) \/ MarkSessionFinalized(x)
  <2>1. req' \in [Requests -> InHand] /\ UNCHANGED <<row, storeVars, reads, job, drops, skipped>>
    BY <1>0, <1>2 DEF CreateSession, MarkSessionFinalized
  <2>2. \E s \in {"uploading", "processing", "ready"} : sess' = [sess EXCEPT ![req[x].file] = s]
    BY <1>2 DEF CreateSession, MarkSessionFinalized, FinalStatus
  <2>3. sess' \in [Files -> Statuses \union {"none", "uploading"}]
    BY <2>2 DEF TypeOK, Statuses
  <2> QED  BY <2>1, <2>3 DEF TypeOK
<1>3. CASE CopyObject(x)
  <2>1. req' \in [Requests -> InHand] /\ UNCHANGED <<dbVars, upload, key, reads, job, drops, skipped>>
    BY <1>0, <1>3 DEF CopyObject, Stages
  <2>2. store' = store \/ \E gone : store' = [store EXCEPT ![req[x].file] = (@ \ gone) \union {"original"}]
    BY <1>3 DEF CopyObject, Put
  <2> QED  BY <2>1, <2>2 DEF TypeOK, Objects
<1>4. CASE PinMeta(x)
  <2>1. row' \in [Files -> Rows]
    <3> DEFINE f == req[x].file
    <3>1. f \in Files => [row[f] EXCEPT !.meta = TRUE] \in Rows
      BY RowWrites DEF TypeOK
    <3>2. row' = [row EXCEPT ![f] = [row[f] EXCEPT !.meta = TRUE]]
      BY <1>4 DEF PinMeta
    <3> HIDE DEF f
    <3>3. CASE f \in Files
      BY <3>1, <3>2, <3>3, RowWritten
    <3>4. CASE f \notin Files
      BY <3>2, <3>4 DEF TypeOK
    <3> QED  BY <3>3, <3>4
  <2> QED  BY <1>0, <1>4, <2>1 DEF PinMeta, TypeOK
<1> QED  BY <1>1, <1>2, <1>3, <1>4 DEF Continue

LEMMA JobType == ASSUME TypeOK, NEW f \in Files, Job(f) \/ PutPart(f) PROVE TypeOK'
<1> USE DEF dbVars, storeVars, JobKeeps, JobGoes
<1>0. /\ \A o \in Objects : Put(f, o) => store' \in [Files -> SUBSET Objects]
      /\ \A o : Remove(f, o) \/ PutSome(f, o) => store' \in [Files -> SUBSET Objects]
      /\ "master" \in Objects /\ "segments" \in Objects /\ "preview" \in Objects
  BY ObjectsOfJobs DEF Objects
<1>1. CASE JobBegins(f) \/ JobReady(f) \/ JobFails(f)
  <2>1. \E s \in Statuses, p \in BOOLEAN, h \in BOOLEAN : SetProcessing(f, s, p, h)
    BY <1>1 DEF JobBegins, JobReady, JobFails, Statuses
  <2>2. row' \in [Files -> Rows]
    <3>1. PICK s \in Statuses, p \in BOOLEAN, h \in BOOLEAN : SetProcessing(f, s, p, h)
      BY <2>1
    <3>2. row[f] \in Rows /\ [row[f] EXCEPT !.status = s, !.preview = p, !.hls = h] \in Rows
      BY RowWrites DEF TypeOK
    <3>3. row' = row \/ row' = [row EXCEPT ![f] = [row[f] EXCEPT !.status = s, !.preview = p, !.hls = h]]
      BY <3>1 DEF SetProcessing
    <3> QED  BY <3>2, <3>3, RowWritten DEF TypeOK
  <2> QED  BY <1>1, <2>2 DEF JobBegins, JobReady, JobFails, TypeOK
<1>2. CASE BuildPreview(f)
  BY <1>2 DEF BuildPreview, TypeOK
<1>3. CASE UploadMaster(f) \/ UploadSegments(f) \/ DropOriginal(f) \/ PutPreview(f)
  <2>1. store' \in [Files -> SUBSET Objects]
    BY <1>0, <1>3 DEF UploadMaster, UploadSegments, DropOriginal, PutPreview, TypeOK
  <2>2. \E to \in {"segments", "drop", "putPreview", "ready", "fail"} : job' = [job EXCEPT ![f] = to]
    BY <1>3 DEF UploadMaster, UploadSegments, DropOriginal, PutPreview, AfterHLS
  <2>3. UNCHANGED <<dbVars, upload, key, reads, req, drops>> /\ skipped' \subseteq Files
    BY <1>3 DEF UploadMaster, UploadSegments, DropOriginal, PutPreview, Skips, TypeOK
  <2> QED  BY <2>1, <2>2, <2>3 DEF TypeOK
<1>4. CASE JobCloses(f)
  BY <1>4 DEF JobCloses, FinalizeSessionByAttachment, TypeOK, Statuses
<1>5. CASE PutPart(f)
  BY <1>5 DEF PutPart, TypeOK
<1> QED  BY <1>1, <1>2, <1>3, <1>4, <1>5 DEF Job

LEMMA NextType == TypeOK /\ [Next]_vars => TypeOK'
<1> SUFFICES ASSUME TypeOK, [Next]_vars PROVE TypeOK'
  OBVIOUS
<1> USE DEF dbVars, storeVars
<1>1. ASSUME NEW u \in Users, Left(u) \/ \E f \in Files : Posted(u, f) PROVE TypeOK'
  BY <1>1 DEF Left, Posted, TypeOK
<1>2. CASE Crash
  BY <1>2, IdleType DEF Crash, TypeOK
<1>3. CASE UNCHANGED vars
  BY <1>3 DEF vars, TypeOK
<1> QED  BY <1>1, <1>2, <1>3, HandlersType, ContinueType, JobType DEF Next

\* Rows, sessions, objects, uploads, jobs and requests always have their types.
THEOREM TypeCorrect == Spec => []TypeOK
BY InitType, NextType, PTL DEF Spec
-----------------------------------------------------------------------------
(* What a step may do to one attachment.                                   *)

LEMMA Steps ==
  ASSUME [Next]_vars
  PROVE  \/ UNCHANGED <<row, store, upload, key, job, req, drops, skipped>>
         \/ Crash
         \/ \E x \in Requests : Continue(x)
         \/ \E x \in Requests, u \in Users, kind \in Kinds :
              ImportFromURL(x, u, kind) \/ \E inSession \in BOOLEAN : CreateAttachment(x, u, kind, inSession)
         \/ \E x \in Requests, u \in Users, f \in Files :
              \/ PresignPart(x, u, f) \/ CompleteAttachment(x, u, f) \/ CompleteSession(x, u, f)
              \/ CreateDownloadURL(x, u, f) \/ SetUserMeta(x, u, f)
              \/ PinAttachment(x, u, f) \/ GetAttachment(x, u, f)
         \/ \E f \in Files : Job(f) \/ PutPart(f)
<1>1. ASSUME NEW u \in Users, Left(u) \/ \E f \in Files : Posted(u, f)
      PROVE  UNCHANGED <<row, store, upload, key, job, req, drops, skipped>>
  BY <1>1 DEF Left, Posted, dbVars, storeVars
<1>2. UNCHANGED vars => UNCHANGED <<row, store, upload, key, job, req, drops, skipped>>
  BY DEF vars, dbVars, storeVars
<1> QED
  BY <1>1, <1>2 DEF Next, Handlers, AttachmentsHandler, SessionsHandler, AttachmentByIDHandler,
     SessionByIDHandler, PresignSessionPart

\* The request x inserts the row of f, and no longer has it to itself.
Inserts(x, f) ==
  /\ req[x].file = f
  /\ ~row'[f].preview /\ ~row'[f].hls
  /\ \/ req[x].at = "row" /\ row'[f].via = "multipart"
     \/ req[x].at = "import" /\ row'[f].via = "server_import"
     \/ req[x].at = "pin" /\ row'[f].via = "pin"
  /\ req'[x].at \notin Drawing

\* A row that is not inserted stays the row of the same thing, and says more
\* only where its job is ready.
Stays(f) ==
  /\ row'[f].via = row[f].via /\ row'[f].kind = row[f].kind
  /\ row'[f].preview => row[f].preview \/ (job[f] = "ready" /\ row[f].kind # "file")
  /\ row'[f].hls => row[f].hls \/ (job[f] = "ready" /\ row[f].kind = "video")

LEMMA RowStep ==
  ASSUME TypeOK, [Next]_vars, NEW f \in Files
  PROVE  Stays(f) \/ \E x \in Requests : Inserts(x, f)
<1> USE DEF dbVars, storeVars
<1>0. row'[f] = row[f] => Stays(f)
  BY DEF Stays
<1>1. ASSUME NEW x \in Requests, NEW via,
             Insert(req[x].file, NewRow(req[x].me, req[x].kind, via)), req[x].file # f
      PROVE  row'[f] = row[f]
  BY <1>1 DEF Insert, TypeOK
<1>2. ASSUME NEW x \in Requests, NEW via \in {"multipart", "server_import", "pin"},
             Insert(req[x].file, NewRow(req[x].me, req[x].kind, via)), req[x].file = f
      PROVE  row'[f].via = via /\ ~row'[f].preview /\ ~row'[f].hls
  BY <1>2, NewRowType DEF Insert, TypeOK, InHand
<1>3. ASSUME NEW x \in Requests, InsertAttachment(x) \/ InsertImport(x) \/ InsertPin(x)
      PROVE  Stays(f) \/ Inserts(x, f)
  <2>1. req'[x].at \notin Drawing
    BY <1>3 DEF InsertAttachment, InsertImport, InsertPin, Goto, Return, Then, Idle, Drawing, TypeOK, InHand
  <2>2. CASE req[x].file # f
    BY <1>0, <1>1, <1>3, <2>2 DEF InsertAttachment, InsertImport, InsertPin
  <2>3. CASE req[x].file = f
    BY <1>2, <1>3, <2>1, <2>3 DEF InsertAttachment, InsertImport, InsertPin, Inserts
  <2> QED  BY <2>2, <2>3
<1>4. ASSUME NEW x \in Requests,
             CreateSession(x) \/ MarkSessionFinalized(x) \/ CopyObject(x) \/ PinMeta(x)
      PROVE  Stays(f)
  BY <1>0, <1>4 DEF CreateSession, MarkSessionFinalized, CopyObject, PinMeta, Stays, TypeOK, Rows
<1>5. ASSUME NEW x \in Requests, NEW u \in Users, NEW g \in Files, SetUserMeta(x, u, g)
      PROVE  Stays(f)
  BY <1>0, <1>5 DEF SetUserMeta, SetAttachmentUserMeta, Stays, TypeOK, Rows
<1>6. ASSUME NEW g \in Files, Job(g) \/ PutPart(g) PROVE Stays(f)
  <2>1. CASE JobBegins(g) \/ JobFails(g)
    <3>1. \E s \in Statuses : SetProcessing(g, s, FALSE, FALSE)
      BY <2>1 DEF JobBegins, JobFails, Statuses
    <3> QED  BY <1>0, <3>1 DEF SetProcessing, Stays, TypeOK, Rows
  <2>2. CASE JobReady(g)
    BY <1>0, <2>2 DEF JobReady, SetProcessing, Stays, TypeOK, Rows
  <2>3. CASE row' = row
    BY <1>0, <2>3
  <2> QED
    BY <1>6, <2>1, <2>2, <2>3 DEF Job, BuildPreview, UploadMaster, UploadSegments, DropOriginal,
       PutPreview, JobCloses, PutPart
<1>7. CASE row' = row
  BY <1>0, <1>7
<1> QED
  BY <1>3, <1>4, <1>5, <1>6, <1>7, Steps DEF Continue, Crash, ImportFromURL, CreateAttachment,
     PresignPart, CompleteAttachment, CompleteSession, CreateDownloadURL, PinAttachment, GetAttachment

\* A put replaces the original, where that has the key of something else, or what is under
\* the key of the original; a deletion of the original takes what is under its key.
LEMMA StoreStep ==
  ASSUME TypeOK, NamesAreChosen, [Next]_vars, NEW f \in Files, NEW o \in store[f], o \notin store'[f]
  PROVE  \/ o = "original" /\ key[f] # "original"
         \/ DropOriginal(f) /\ o \in {"original", key[f]}
         \/ Uploading(f)
<1> USE DEF dbVars, storeVars, TypeOK
<1>0. ASSUME NEW g \in Files, NEW new, Put(g, new) \/ PutSome(g, new)
      PROVE  /\ g = f /\ o # new /\ KeyOf(f, o) = KeyOf(f, new)
             /\ new # "original" => o = "original" /\ key[f] # "original"
  <2>1. store'[g] = (store[g] \ Under(g, new)) \cup {new} \/ store'[g] = store[g] \ (Under(g, new) \ {new})
        \/ store' = store
    BY <1>0 DEF Put, PutSome
  <2>2. \A h \in Files : h # g => store'[h] = store[h]
    BY <1>0 DEF Put, PutSome
  <2>3. g = f /\ o # new /\ KeyOf(f, o) = KeyOf(f, new)
    BY <2>1, <2>2 DEF Under
  <2> QED  BY <2>3 DEF KeyOf
<1>1. ASSUME NEW x \in Requests, Continue(x) PROVE o = "original" /\ key[f] # "original"
  <2>1. CopyObject(x) /\ store' # store
    BY <1>1 DEF Continue, InsertAttachment, CreateSession, MarkSessionFinalized, InsertImport,
       InsertPin, PinMeta
  <2>2. Put(req[x].file, "original") /\ req[x].at = "copy"
    BY <2>1 DEF CopyObject
  <2>3. req[x].file = f
    BY <2>2 DEF Put
  <2>4. o # "original" /\ KeyOf(f, o) = KeyOf(f, "original") /\ key[f] = "original"
    BY <1>0, <2>2, <2>3 DEF NamesAreChosen
  <2> QED  BY <2>4 DEF KeyOf
<1>2. ASSUME NEW x \in Requests, NEW u \in Users, NEW kind \in Kinds,
             ImportFromURL(x, u, kind) \/ \E inSession \in BOOLEAN : CreateAttachment(x, u, kind, inSession)
      PROVE  FALSE
  <2>1. PICK g \in Files : Fresh(g) /\ Put(g, "original")
    BY <1>2 DEF ImportFromURL, CreateAttachment
  <2> QED  BY <1>0, <2>1 DEF Fresh
<1>3. ASSUME NEW x \in Requests, NEW u \in Users, NEW g \in Files,
             \/ PresignPart(x, u, g) \/ CompleteAttachment(x, u, g) \/ CompleteSession(x, u, g)
             \/ CreateDownloadURL(x, u, g) \/ SetUserMeta(x, u, g)
             \/ PinAttachment(x, u, g) \/ GetAttachment(x, u, g)
      PROVE  Uploading(f) \/ (o = "original" /\ key[f] # "original")
  <2>1. CASE CompleteAttachment(x, u, g) \/ CompleteSession(x, u, g)
    <3>1. Put(g, "original") /\ upload[g] = "filled"
      BY <2>1 DEF CompleteAttachment, CompleteSession, CompleteMultipart, CompleteUpload
    <3> QED  BY <1>0, <3>1 DEF Uploading
  <2>2. CASE CreateDownloadURL(x, u, g) \/ GetAttachment(x, u, g)
    <3>1. Put(g, "signed")
      BY <2>2 DEF CreateDownloadURL, GetAttachment, PresignHLSPlaybackManifest
    <3> QED  BY <1>0, <3>1
  <2> QED  BY <1>3, <2>1, <2>2 DEF PresignPart, SetUserMeta, PinAttachment
<1>4. ASSUME NEW g \in Files, Job(g) \/ PutPart(g)
      PROVE  (o = "original" /\ key[f] # "original") \/ (DropOriginal(f) /\ o \in {"original", key[f]})
  <2>1. CASE DropOriginal(g)
    <3>1. job[g] = "drop" /\ Remove(g, "original")
      BY <2>1 DEF DropOriginal
    <3>2. g = f /\ o \in Under(f, "original")
      BY <3>1 DEF Remove
    <3> QED  BY <2>1, <3>1, <3>2 DEF Under, KeyOf
  <2>2. CASE ~DropOriginal(g)
    <3>1. \E new \in {"master", "segments", "preview"} : Put(g, new) \/ PutSome(g, new)
      BY <1>4, <2>2 DEF Job, JobBegins, BuildPreview, UploadMaster, UploadSegments, PutPreview,
         JobReady, JobFails, JobCloses, PutPart
    <3> QED  BY <1>0, <3>1
  <2> QED  BY <2>1, <2>2
<1> QED  BY <1>1, <1>2, <1>3, <1>4, Steps DEF Crash

\* An upload is opened, under a name, for an id nothing else has, and goes on until the store
\* has put the original together.
Opens(f) ==
  /\ Fresh(f) /\ upload'[f] = "open" /\ UNCHANGED <<row, job>>
  /\ \E x \in Requests : /\ req'[x].at = "row" /\ req'[x].file = f
                         /\ \A y \in Requests \ {x} : req'[y] = req[y]

LEMMA UploadStep ==
  ASSUME TypeOK, [Next]_vars, NEW f \in Files
  PROVE  \/ Opens(f)
         \/ /\ key'[f] = key[f] /\ (upload'[f] = "none" <=> upload[f] = "none")
            /\ upload[f] = "done" => upload'[f] = "done"
            /\ upload'[f] = "done" => upload[f] = "done" \/ "original" \in store'[f]
<1> USE DEF dbVars, storeVars, TypeOK
<1>1. ASSUME NEW x \in Requests, Continue(x) PROVE upload' = upload /\ key' = key
  BY <1>1 DEF Continue, InsertAttachment, CreateSession, MarkSessionFinalized, InsertImport,
     CopyObject, InsertPin, PinMeta
<1>2. ASSUME NEW x \in Requests, NEW u \in Users, NEW kind \in Kinds, NEW inSession \in BOOLEAN,
             CreateAttachment(x, u, kind, inSession)
      PROVE  Opens(f) \/ (upload'[f] = upload[f] /\ key'[f] = key[f])
  <2>1. PICK g \in Files, name \in Names :
          /\ Fresh(g) /\ upload' = [upload EXCEPT ![g] = "open"] /\ key' = [key EXCEPT ![g] = name]
          /\ req' = [req EXCEPT ![x] = [Idle EXCEPT !.at = "row", !.me = u, !.file = g, !.kind = kind,
                                                   !.sess = inSession]]
    BY <1>2 DEF CreateAttachment, NewMultipartUpload, Then
  <2>2. CASE g # f
    BY <2>1, <2>2
  <2>3. CASE g = f
    <3>1. req'[x].at = "row" /\ req'[x].file = f /\ \A y \in Requests \ {x} : req'[y] = req[y]
      BY <2>1, <2>3 DEF Idle
    <3> QED  BY <1>2, <2>1, <2>3, <3>1 DEF Opens, CreateAttachment
  <2> QED  BY <2>2, <2>3
<1>3. ASSUME NEW x \in Requests, NEW u \in Users, NEW g \in Files,
             \/ PresignPart(x, u, g) \/ CompleteAttachment(x, u, g) \/ CompleteSession(x, u, g)
             \/ CreateDownloadURL(x, u, g) \/ SetUserMeta(x, u, g)
             \/ PinAttachment(x, u, g) \/ GetAttachment(x, u, g)
      PROVE  /\ key' = key /\ (upload'[f] = "none" <=> upload[f] = "none")
             /\ upload[f] = "done" => upload'[f] = "done"
             /\ upload'[f] = "done" => upload[f] = "done" \/ "original" \in store'[f]
  <2>1. CASE CompleteAttachment(x, u, g) \/ CompleteSession(x, u, g)
    <3>1. /\ upload[g] = "filled" /\ upload' = [upload EXCEPT ![g] = "done"] /\ key' = key
          /\ Put(g, "original")
      BY <2>1 DEF CompleteAttachment, CompleteSession, CompleteMultipart, CompleteUpload
    <3> QED  BY <3>1 DEF Put
  <2>2. CASE PresignPart(x, u, g)
    BY <2>2 DEF PresignPart
  <2>3. CASE upload' = upload /\ key' = key
    BY <2>3
  <2> QED
    BY <1>3, <2>1, <2>2, <2>3 DEF CreateDownloadURL, SetUserMeta, PinAttachment, GetAttachment
<1>4. ASSUME NEW g \in Files, Job(g)
      PROVE  upload' = upload /\ key' = key
  BY <1>4 DEF Job, JobKeeps, JobBegins, BuildPreview, UploadMaster, UploadSegments, DropOriginal,
     PutPreview, JobReady, JobFails, JobCloses
<1>5. ASSUME NEW g \in Files, PutPart(g)
      PROVE  /\ key' = key /\ (upload'[f] = "none" <=> upload[f] = "none")
             /\ upload[f] = "done" => upload'[f] = "done"
             /\ upload'[f] = "done" => upload[f] = "done"
  BY <1>5 DEF PutPart
<1>6. ASSUME NEW x \in Requests, NEW u \in Users, NEW kind \in Kinds, ImportFromURL(x, u, kind)
      PROVE  upload' = upload /\ key' = key
  BY <1>6 DEF ImportFromURL
<1> QED  BY <1>1, <1>2, <1>3, <1>4, <1>5, <1>6, Steps DEF Crash

\* A request goes on with the id it drew, or draws one nothing else has.
LEMMA RequestStep ==
  ASSUME TypeOK, DrawnAlone, [Next]_vars, NEW x \in Requests, req'[x].at \in Drawing
  PROVE  \/ /\ req[x].at \in Drawing /\ req'[x].file = req[x].file
            /\ \/ req'[x].at = req[x].at
               \/ req[x].at = "copy" /\ req'[x].at = "pin" /\ "original" \in store'[req'[x].file]
         \/ /\ req'[x].file \in Files /\ Fresh(req'[x].file) /\ req'[x].at # "pin"
            /\ req'[x].at = "import" => "original" \in store'[req'[x].file]
            /\ req'[x].at # "row" => UNCHANGED <<upload, key>>
            /\ \A y \in Requests \ {x} : req'[y] = req[y]
<1> USE DEF dbVars, storeVars
<1>0. "idle" \notin Drawing /\ "row" # "pin" /\ "copy" # "pin" /\ \A y \in Requests : req[y].file \in Files \union {NoFile}
  BY DEF Drawing, TypeOK, InHand
<1>1. ASSUME req'[x] = req[x] PROVE req[x].at \in Drawing /\ req'[x].file = req[x].file /\ req'[x].at = req[x].at
  BY <1>1
<1>2. ASSUME NEW y \in Requests, Continue(y)
      PROVE  req'[x] = req[x] \/ (/\ req[x].at \in Drawing /\ req'[x].file = req[x].file
                                  /\ req[x].at = "copy" /\ req'[x].at = "pin"
                                  /\ "original" \in store'[req'[x].file])
  <2>1. CASE x # y
    BY <1>2, <2>1 DEF Continue, InsertAttachment, CreateSession, MarkSessionFinalized, InsertImport,
       CopyObject, InsertPin, PinMeta, Goto, Return, Then, TypeOK
  <2>2. CASE Return(x)
    BY <1>0, <2>2 DEF Return, Then, Idle, TypeOK
  <2>3. CASE x = y /\ CopyObject(x) /\ ~Return(x)
    <3>1. /\ req[x].at = "copy"
          /\ \E gone : store' = [store EXCEPT ![req[x].file] = (@ \ gone) \cup {"original"}]
          /\ req' = [req EXCEPT ![x].at = "pin"]
      BY <2>3 DEF CopyObject, Put, Goto
    <3>2. req'[x].at = "pin" /\ req'[x].file = req[x].file
      BY <3>1 DEF TypeOK, InHand
    <3>3. req[x].file \in Files /\ req[x].at \in Drawing
      BY <3>1 DEF DrawnAlone, Drawing
    <3> QED  BY <3>1, <3>2, <3>3 DEF TypeOK, Drawing
  <2>4. CASE x = y /\ ~CopyObject(x) /\ ~Return(x)
    <3>1. \E at \in {"session", "pinMeta"} : Goto(x, at)
      BY <1>2, <2>4 DEF Continue, InsertAttachment, CreateSession, MarkSessionFinalized, InsertImport,
         InsertPin, PinMeta
    <3> QED  BY <3>1 DEF Goto, TypeOK, Drawing, InHand
  <2> QED  BY <2>1, <2>2, <2>3, <2>4
<1>3. ASSUME NEW y \in Requests, NEW f \in Files, NEW r \in InHand, Fresh(f), Then(y, r), r.file = f,
             r.at \in {"row", "import", "copy"}, r.at = "import" => "original" \in store'[f],
             r.at # "row" => UNCHANGED <<upload, key>>
      PROVE  \/ req'[x] = req[x]
             \/ /\ req'[x].file \in Files /\ Fresh(req'[x].file) /\ req'[x].at # "pin"
                /\ req'[x].at = "import" => "original" \in store'[req'[x].file]
                /\ req'[x].at # "row" => UNCHANGED <<upload, key>>
                /\ \A z \in Requests \ {x} : req'[z] = req[z]
  <2>1. CASE x # y
    BY <1>3, <2>1 DEF Then, TypeOK
  <2>2. CASE x = y
    <3>1. req'[x] = r /\ \A z \in Requests \ {x} : req'[z] = req[z]
      BY <1>3, <2>2 DEF Then, TypeOK
    <3> QED  BY <1>3, <3>1
  <2> QED  BY <2>1, <2>2
<1> DEFINE Draws(y) == \E f \in Files, r \in InHand :
                         /\ Fresh(f) /\ Then(y, r) /\ r.file = f /\ r.at \in {"row", "import", "copy"}
                         /\ r.at = "import" => "original" \in store'[f]
                         /\ r.at # "row" => UNCHANGED <<upload, key>>
<1>4. ASSUME NEW y \in Requests, NEW u \in Users, NEW kind \in Kinds, ImportFromURL(y, u, kind)
      PROVE  Draws(y)
  <2>1. PICK f \in Files : /\ Fresh(f) /\ Put(f, "original")
                           /\ Then(y, [Idle EXCEPT !.at = "import", !.me = u, !.file = f, !.kind = kind])
    BY <1>4 DEF ImportFromURL
  <2>2. [Idle EXCEPT !.at = "import", !.me = u, !.file = f, !.kind = kind] \in InHand
    BY UploadsAssumption DEF Idle, InHand, Stages
  <2>3. "original" \in store'[f]
    BY <2>1 DEF Put, TypeOK
  <2> QED  BY <1>4, <2>1, <2>2, <2>3 DEF Idle, ImportFromURL
<1>5. ASSUME NEW y \in Requests, NEW u \in Users, NEW kind \in Kinds, NEW inSession \in BOOLEAN,
             CreateAttachment(y, u, kind, inSession)
      PROVE  Draws(y)
  <2>1. PICK f \in Files :
          /\ Fresh(f)
          /\ Then(y, [Idle EXCEPT !.at = "row", !.me = u, !.file = f, !.kind = kind, !.sess = inSession])
    BY <1>5 DEF CreateAttachment
  <2>2. [Idle EXCEPT !.at = "row", !.me = u, !.file = f, !.kind = kind, !.sess = inSession] \in InHand
    BY UploadsAssumption DEF Idle, InHand, Stages
  <2> QED  BY <2>1, <2>2 DEF Idle
<1>6. ASSUME NEW y \in Requests, NEW u \in Users, NEW s \in Files, PinAttachment(y, u, s)
      PROVE  Draws(y)
  <2>1. PICK f \in Files :
          /\ Fresh(f)
          /\ Then(y, [Idle EXCEPT !.at = "copy", !.me = u, !.file = f, !.src = s,
                                  !.kind = row[s].kind, !.meta = row[s].meta])
    BY <1>6 DEF PinAttachment
  <2>2. row[s].kind \in {"image", "video", "file"} /\ row[s].meta \in BOOLEAN
    BY DEF TypeOK, Rows
  <2>3. [Idle EXCEPT !.at = "copy", !.me = u, !.file = f, !.src = s,
                     !.kind = row[s].kind, !.meta = row[s].meta] \in InHand
    BY <2>2 DEF Idle, InHand, Stages
  <2> QED  BY <1>6, <2>1, <2>3 DEF Idle, PinAttachment
<1>7. ASSUME NEW y \in Requests, NEW u \in Users, NEW f \in Files,
             \/ PresignPart(y, u, f) \/ CompleteAttachment(y, u, f) \/ CompleteSession(y, u, f)
             \/ CreateDownloadURL(y, u, f) \/ SetUserMeta(y, u, f) \/ GetAttachment(y, u, f)
      PROVE  req'[x] = req[x]
  <2>1. CASE CompleteSession(y, u, f)
    <3>1. req' = [req EXCEPT ![y] = [Idle EXCEPT !.at = "mark", !.me = u, !.file = f]]
      BY <2>1 DEF CompleteSession, Then
    <3> QED  BY <3>1 DEF Idle, Drawing, TypeOK
  <2>2. CASE ~CompleteSession(y, u, f)
    BY <1>7, <2>2 DEF PresignPart, CompleteAttachment, CreateDownloadURL, SetUserMeta, GetAttachment
  <2> QED  BY <2>1, <2>2
<1>8. ASSUME NEW f \in Files, Job(f) \/ PutPart(f) PROVE req' = req
  BY <1>8 DEF Job, JobKeeps, JobBegins, BuildPreview, UploadMaster, UploadSegments, DropOriginal,
     PutPreview, JobReady, JobFails, JobCloses, PutPart
<1>9. ~Crash
  BY <1>0 DEF Crash, Idle
<1> HIDE DEF Draws
<1>10. \/ req'[x] = req[x]
       \/ \E y \in Requests : Continue(y) \/ Draws(y)
  BY <1>4, <1>5, <1>6, <1>7, <1>8, <1>9, Steps
<1> USE DEF Draws
<1> QED  BY <1>1, <1>2, <1>3, <1>10

\* What a job does next, and what it has put in the store for it.
LEMMA JobStep ==
  ASSUME TypeOK, [Next]_vars, NEW f \in Files, job'[f] # job[f]
  PROVE  \/ job'[f] = "none"
         \/ job'[f] = "begin" /\ row[f].via = "multipart" /\ row' = row /\ Uploading(f) /\ upload'[f] = "done"
         \/ job'[f] = "begin" /\ row'[f].via = "server_import" /\ \E x \in Requests : Inserts(x, f)
         \/ job[f] # "none" /\ job'[f] \in {"fail", "closeReady", "closeFailed"}
         \/ /\ job[f] \in Early
            /\ \/ job'[f] \in {"preview", "master"}
               \/ job[f] = "preview" /\ job'[f] = "putPreview" /\ row'[f].kind # "video"
               \/ job[f] = "master" /\ job'[f] = "segments" /\ ("master" \in store'[f] \/ f \in skipped')
               \/ /\ job[f] = "segments" /\ ("segments" \in store'[f] \/ f \in skipped')
                  /\ \/ job'[f] = "drop" /\ drops
                     \/ job'[f] = "putPreview"
               \/ job[f] = "drop" /\ job'[f] = "putPreview"
               \/ /\ job[f] = "putPreview" /\ job'[f] = "ready"
                  /\ row'[f].kind = "file" \/ "preview" \in store'[f]
<1> USE DEF dbVars, storeVars
<1>1. ASSUME NEW x \in Requests, Continue(x)
      PROVE  job'[f] = "begin" /\ row'[f].via = "server_import" /\ Inserts(x, f)
  <2>1. InsertImport(x)
    BY <1>1 DEF Continue, InsertAttachment, CreateSession, MarkSessionFinalized, CopyObject, InsertPin,
                PinMeta
  <2>2. req[x].file = f /\ job'[f] = "begin"
    BY <2>1 DEF InsertImport, TypeOK
  <2>3. row'[f].via = "server_import" /\ ~row'[f].preview /\ ~row'[f].hls
    BY <2>1, <2>2, NewRowType DEF InsertImport, Insert, TypeOK, InHand
  <2>4. req[x].at = "import" /\ req'[x].at \notin Drawing
    BY <2>1 DEF InsertImport, Return, Then, Idle, Drawing, TypeOK, InHand
  <2> QED  BY <2>2, <2>3, <2>4 DEF Inserts
<1>2. ASSUME NEW x \in Requests, NEW u \in Users, NEW g \in Files,
             \/ PresignPart(x, u, g) \/ CompleteAttachment(x, u, g) \/ CompleteSession(x, u, g)
             \/ CreateDownloadURL(x, u, g) \/ SetUserMeta(x, u, g)
             \/ PinAttachment(x, u, g) \/ GetAttachment(x, u, g)
      PROVE  job'[f] = "begin" /\ row[f].via = "multipart" /\ row' = row /\ Uploading(f) /\ upload'[f] = "done"
  <2>1. CompleteAttachment(x, u, g) \/ CompleteSession(x, u, g)
    BY <1>2 DEF PresignPart, CreateDownloadURL, SetUserMeta, PinAttachment, GetAttachment
  <2> QED  BY <2>1 DEF CompleteAttachment, CompleteSession, CompleteMultipart, CompleteUpload, Uploading, TypeOK
<1>3. ASSUME NEW x \in Requests, NEW u \in Users, NEW kind \in Kinds,
             ImportFromURL(x, u, kind) \/ \E inSession \in BOOLEAN : CreateAttachment(x, u, kind, inSession)
      PROVE  FALSE
  BY <1>3 DEF ImportFromURL, CreateAttachment
<1>4. CASE Crash
  BY <1>4 DEF Crash
<1>5. ASSUME NEW g \in Files, Job(g) \/ PutPart(g) PROVE g = f /\ Job(f)
  BY <1>5 DEF Job, JobGoes, JobBegins, BuildPreview, UploadMaster, UploadSegments, DropOriginal,
     PutPreview, JobReady, JobFails, JobCloses, PutPart, TypeOK
<1>6. CASE JobBegins(f) \/ JobReady(f) \/ JobFails(f) \/ JobCloses(f)
  BY <1>6 DEF JobBegins, JobReady, JobFails, JobCloses, JobGoes, Early, TypeOK
<1>7. CASE BuildPreview(f)
  BY <1>7 DEF BuildPreview, JobGoes, Early, TypeOK
<1>8. CASE UploadMaster(f) \/ UploadSegments(f)
  BY <1>8 DEF UploadMaster, UploadSegments, AfterHLS, JobGoes, Put, Skips, Early, TypeOK
<1>9. CASE DropOriginal(f) \/ PutPreview(f)
  BY <1>9 DEF DropOriginal, PutPreview, JobGoes, Put, Early, TypeOK
<1> QED  BY <1>1, <1>2, <1>3, <1>4, <1>5, <1>6, <1>7, <1>8, <1>9, Steps DEF Job
-----------------------------------------------------------------------------
(* What was uploaded is kept, and what a row names is there.               *)

LEMMA DrawnStep == ASSUME TypeOK, DrawnAlone, [Next]_vars PROVE DrawnAlone'
<1> USE DEF Exists, Fresh
<1> DEFINE Old(x) == req[x].at \in Drawing /\ req'[x].file = req[x].file
           New(x) == /\ req'[x].file \in Files /\ Fresh(req'[x].file)
                     /\ \A y \in Requests \ {x} : req'[y] = req[y]
<1>1. \A x \in Requests : req'[x].at \in Drawing => Old(x) \/ New(x)
  BY RequestStep
<1>2. ASSUME NEW x \in Requests, req'[x].at \in Drawing
      PROVE  req'[x].file \in Files /\ row'[req'[x].file].via = "none"
  <2>1. PICK f : f = req'[x].file
    OBVIOUS
  <2>2. f \in Files /\ row[f].via = "none"
    BY <1>1, <1>2, <2>1 DEF DrawnAlone
  <2>3. ASSUME NEW y \in Requests, Inserts(y, f) PROVE FALSE
    <3>1. req[y].file = f /\ req[y].at \in Drawing /\ req'[y].at \notin Drawing
      BY <2>3 DEF Inserts, Drawing
    <3>2. Old(x) /\ x # y
      BY <1>1, <1>2, <2>1, <3>1
    <3> QED  BY <2>1, <3>1, <3>2 DEF DrawnAlone
  <2>4. Stays(f)
    BY <2>2, <2>3, RowStep
  <2> QED  BY <2>1, <2>2, <2>4 DEF Stays
<1>3. ASSUME NEW x \in Requests, NEW y \in Requests, req'[x].at \in Drawing, req'[y].at \in Drawing,
             req'[x].file = req'[y].file, x # y
      PROVE  FALSE
  BY <1>1, <1>3 DEF DrawnAlone
<1> QED  BY <1>2, <1>3 DEF DrawnAlone

LEMMA DropStage == \A f \in Files : DropOriginal(f) => job[f] = "drop"
BY DEF DropOriginal

\* What is drawn, and what was never uploaded, keeps its own name.
LEMMA NamesStep ==
  ASSUME TypeOK, DrawnAlone, NamesAreChosen, [Next]_vars PROVE NamesAreChosen'
<1>1. ASSUME NEW f \in Files PROVE key'[f] # "original" => upload'[f] # "none"
  BY UploadStep DEF NamesAreChosen, Opens
<1>2. ASSUME NEW f \in Files, row'[f].via \in {"server_import", "pin"} PROVE upload'[f] = "none"
  <2>1. CASE Opens(f)
    BY <1>2, <2>1 DEF Opens, Fresh, Exists
  <2>2. CASE upload'[f] = "none" <=> upload[f] = "none"
    <3>1. CASE row[f].via = row'[f].via
      BY <1>2, <2>2, <3>1 DEF NamesAreChosen
    <3>2. CASE \E x \in Requests : Inserts(x, f)
      BY <1>2, <2>2, <3>2 DEF Inserts, NamesAreChosen
    <3> QED  BY <3>1, <3>2, RowStep DEF Stays
  <2> QED  BY <2>1, <2>2, UploadStep
<1>3. ASSUME NEW x \in Requests, req'[x].at \in {"import", "copy", "pin"}
      PROVE  upload'[req'[x].file] = "none"
  <2> DEFINE f == req'[x].file
  <2>1. CASE /\ f \in Files /\ Fresh(f) /\ UNCHANGED <<upload, key>>
    BY <2>1 DEF Fresh
  <2>2. CASE req[x].at \in {"import", "copy", "pin"} /\ req[x].file = f
    <3>1. f \in Files /\ upload[f] = "none" /\ ~Fresh(f)
      BY <2>2 DEF DrawnAlone, Drawing, NamesAreChosen, Fresh
    <3> QED  BY <3>1, UploadStep DEF Opens
  <2> QED  BY <1>3, <2>1, <2>2, RequestStep DEF Drawing
<1> QED  BY <1>1, <1>2, <1>3 DEF NamesAreChosen

\* Who draws an id has no job over it, so no object of his goes.
LEMMA ObjectStep ==
  ASSUME TypeOK, DrawnAlone, NamesAreChosen, ObjectFirst, JobIsOnTrack, [Next]_vars PROVE ObjectFirst'
<1> SUFFICES ASSUME NEW x \in Requests, req'[x].at \in {"import", "pin"}
             PROVE  "original" \in store'[req'[x].file]
  BY DEF ObjectFirst
<1>1. req'[x].at \in Drawing
  BY DEF Drawing
<1>2. CASE req[x].at = req'[x].at /\ req'[x].file = req[x].file
  <2>1. PICK f \in Files : /\ f = req[x].file /\ row[f].via = "none" /\ "original" \in store[f]
                           /\ upload[f] = "none" /\ key[f] = "original"
    BY <1>1, <1>2 DEF DrawnAlone, ObjectFirst, Exists, NamesAreChosen
  <2>2. job[f] = "none"
    BY <2>1 DEF JobIsOnTrack
  <2> QED  BY <1>2, <2>1, <2>2, StoreStep, DropStage DEF Uploading
<1> QED  BY <1>1, <1>2, RequestStep

\* A row that a job works on is not inserted.
LEMMA JobsRowStays ==
  ASSUME TypeOK, DrawnAlone, JobIsOnTrack, [Next]_vars, NEW f \in Files, job[f] # "none"
  PROVE  Stays(f)
<1>1. Exists(f)
  BY DEF JobIsOnTrack, Exists
<1>2. \A x \in Requests : ~Inserts(x, f)
  BY <1>1 DEF Inserts, DrawnAlone, Drawing
<1> QED  BY <1>2, RowStep

LEMMA HistoryStep == [Next]_vars => drops' = drops /\ skipped \subseteq skipped'
<1> SUFFICES ASSUME [Next]_vars PROVE drops' = drops /\ skipped \subseteq skipped'
  OBVIOUS
<1>1. ASSUME NEW f \in Files, Job(f) \/ PutPart(f) PROVE drops' = drops /\ skipped \subseteq skipped'
  BY <1>1 DEF Job, JobKeeps, JobBegins, BuildPreview, UploadMaster, UploadSegments, DropOriginal,
     PutPreview, JobReady, JobFails, JobCloses, PutPart, Skips
<1>2. ASSUME NEW x \in Requests, Continue(x) PROVE UNCHANGED <<drops, skipped>>
  BY <1>2 DEF Continue, InsertAttachment, CreateSession, MarkSessionFinalized, InsertImport,
     CopyObject, InsertPin, PinMeta
<1> QED
  BY <1>1, <1>2, Steps DEF Crash, ImportFromURL, CreateAttachment, PresignPart, CompleteAttachment,
     CompleteSession, CreateDownloadURL, SetUserMeta, PinAttachment, GetAttachment

\* An id that is only now named has no job.
LEMMA NamedOnce ==
  ASSUME TypeOK, JobIsOnTrack, [Next]_vars, NEW f \in Files, Exists(f) \/ job[f] # "none"
  PROVE  ~Opens(f) /\ key'[f] = key[f]
<1>1. Exists(f)
  BY DEF JobIsOnTrack, Exists
<1> QED  BY <1>1, UploadStep DEF Opens, Fresh

LEMMA TrackStep ==
  ASSUME TypeOK, DrawnAlone, NamesAreChosen, JobIsOnTrack, JobRunsOnce, [Next]_vars PROVE JobIsOnTrack'
<1> DEFINE Whole(f) == HLS \subseteq store[f] \/ f \in skipped
           OnTrack(f) ==
      /\ job[f] # "none" => row[f].via \in {"multipart", "server_import"}
      /\ job[f] = "segments" => "master" \in store[f] \/ f \in skipped
      /\ job[f] = "drop" => drops /\ Whole(f)
      /\ job[f] \in {"putPreview", "ready"} /\ row[f].kind = "video" /\ (drops => key[f] \notin HLS)
           => Whole(f)
      /\ job[f] = "ready" /\ row[f].kind # "file" => "preview" \in store[f]
<1> SUFFICES ASSUME NEW f \in Files PROVE OnTrack(f)'
  BY DEF JobIsOnTrack
<1>0. OnTrack(f)
  BY DEF JobIsOnTrack
<1>1. job[f] # "none" => /\ row'[f].via = row[f].via /\ row'[f].kind = row[f].kind
                         /\ ~Uploading(f) /\ key'[f] = key[f]
  BY JobsRowStays, NamedOnce DEF Stays, JobRunsOnce
<1>2. \A o \in {"master", "segments", "preview"} :
        o \in store[f] /\ job[f] # "none" => o \in store'[f] \/ (job[f] = "drop" /\ o = key[f])
  BY <1>1, StoreStep, DropStage
<1>3. drops' = drops /\ (f \in skipped => f \in skipped')
  BY HistoryStep
<1>4. Whole(f) /\ job[f] # "none" => Whole(f)' \/ (job[f] = "drop" /\ key[f] \in HLS)
  BY <1>2, <1>3 DEF HLS
<1>5. CASE job'[f] = job[f]
  <2>1. job[f] = "drop" => Whole(f)'
    <3>1. ASSUME job[f] = "drop", NEW o \in HLS, o \in store[f], o \notin store'[f] PROVE job'[f] # job[f]
      <4>1. \A g \in Files : DropOriginal(g) => job'[g] # job[g]
        BY DEF DropOriginal, JobGoes, TypeOK
      <4> QED  BY <1>1, <3>1, <4>1, StoreStep DEF HLS
    <3> QED  BY <1>0, <1>3, <1>5, <3>1 DEF HLS
  <2> QED  BY <1>0, <1>1, <1>2, <1>3, <1>4, <1>5, <2>1
<1>6. CASE job'[f] # job[f]
  <2>1. \/ job'[f] = "none"
        \/ job'[f] = "begin" /\ row'[f].via \in {"multipart", "server_import"}
        \/ job[f] # "none" /\ job'[f] \in {"preview", "master", "fail", "closeReady", "closeFailed"}
        \/ job[f] = "preview" /\ job'[f] = "putPreview" /\ row'[f].kind # "video"
        \/ job[f] = "master" /\ job'[f] = "segments" /\ ("master" \in store'[f] \/ f \in skipped')
        \/ /\ job[f] = "segments" /\ ("segments" \in store'[f] \/ f \in skipped')
           /\ \/ job'[f] = "drop" /\ drops
              \/ job'[f] = "putPreview"
        \/ job[f] = "drop" /\ job'[f] = "putPreview"
        \/ job[f] = "putPreview" /\ job'[f] = "ready" /\ (row'[f].kind = "file" \/ "preview" \in store'[f])
    BY <1>6, JobStep DEF Early
  <2>2. CASE job[f] = "segments" /\ ("segments" \in store'[f] \/ f \in skipped')
    <3>1. Whole(f)'
      BY <1>0, <1>2, <1>3, <2>2 DEF HLS
    <3> QED  BY <1>0, <1>1, <1>3, <2>1, <2>2, <3>1
  <2>3. CASE job[f] = "drop" /\ job'[f] = "putPreview"
    BY <1>0, <1>1, <1>3, <1>4, <2>3
  <2>4. CASE job[f] = "putPreview" /\ job'[f] = "ready" /\ (row'[f].kind = "file" \/ "preview" \in store'[f])
    BY <1>0, <1>1, <1>3, <1>4, <2>4
  <2> QED  BY <1>0, <1>1, <2>1, <2>2, <2>3, <2>4
<1> QED  BY <1>5, <1>6

LEMMA OnceStep ==
  ASSUME TypeOK, DrawnAlone, NamesAreChosen, JobIsOnTrack, JobRunsOnce, [Next]_vars PROVE JobRunsOnce'
<1> SUFFICES ASSUME NEW f \in Files
             PROVE  /\ (~Exists(f) \/ Uploading(f) \/ job[f] \in Early => NamesNothing(f))'
                    /\ (Uploading(f) => job[f] = "none")'
  BY DEF JobRunsOnce
<1>1. NamesAreChosen'
  BY NamesStep
<1>2. Uploading(f)' => Uploading(f) \/ Opens(f)
  BY UploadStep DEF Uploading
<1>3. (Uploading(f) => job[f] = "none")'
  <2>1. ASSUME Opens(f) PROVE job'[f] = "none"
    BY <2>1 DEF Opens, Fresh, Exists, JobIsOnTrack
  <2>2. ASSUME Uploading(f), Uploading(f)', job'[f] # "none" PROVE FALSE
    <3>1. job[f] = "none"
      BY <2>2 DEF JobRunsOnce
    <3>2. row'[f].via = "server_import" \/ upload'[f] = "done"
      BY <2>2, <3>1, JobStep DEF Early
    <3> QED  BY <1>1, <2>2, <3>2 DEF NamesAreChosen, Uploading
  <2> QED  BY <1>2, <2>1, <2>2
<1>4. ASSUME NEW x \in Requests, Inserts(x, f) PROVE NamesNothing(f)'
  BY <1>4 DEF Inserts, NamesNothing
<1>5. ASSUME NamesNothing(f), Stays(f), job[f] # "ready" PROVE NamesNothing(f)'
  BY <1>5 DEF Stays, NamesNothing
<1>6. CASE Stays(f) /\ (~Exists(f) \/ Uploading(f) \/ job[f] \in Early)
  <2>1. job[f] # "ready"
    BY <1>6 DEF JobIsOnTrack, JobRunsOnce, Exists, Early
  <2>2. NamesNothing(f)
    BY <1>6 DEF JobRunsOnce
  <2> QED  BY <1>3, <1>5, <1>6, <2>1, <2>2
<1>7. CASE Stays(f) /\ Exists(f) /\ ~Uploading(f) /\ job[f] \notin Early /\ ~\E x \in Requests : Inserts(x, f)
  <2>1. Exists(f)' /\ ~Opens(f)
    BY <1>7 DEF Stays, Exists, Opens, Fresh
  <2>2. job'[f] \notin Early
    BY <1>7, JobStep DEF Early
  <2> QED  BY <1>2, <1>3, <1>7, <2>1, <2>2
<1> QED  BY <1>3, <1>4, <1>6, <1>7, RowStep

LEMMA DanglesStep ==
  ASSUME TypeOK, DrawnAlone, NamesAreChosen, ObjectFirst, JobIsOnTrack, JobRunsOnce, NothingDangles,
         [Next]_vars
  PROVE  NothingDangles'
<1> SUFFICES ASSUME NEW f \in Files
             PROVE  /\ row'[f].preview => "preview" \in store'[f]
                    /\ row'[f].hls /\ f \notin skipped' /\ (drops' => key'[f] \notin HLS)
                         => HLS \subseteq store'[f]
                    /\ row'[f].via = "pin" => "original" \in store'[f]
  BY DEF NothingDangles
<1>1. \A o \in store[f] : o # "original" /\ ~Uploading(f) /\ job[f] # "drop" => o \in store'[f]
  BY StoreStep, DropStage
<1>2. "original" \in store[f] /\ upload[f] = "none" /\ job[f] # "drop" => "original" \in store'[f]
  BY StoreStep, DropStage DEF NamesAreChosen, Uploading
<1>3. drops' = drops /\ (f \in skipped => f \in skipped')
  BY HistoryStep
<1>4. CASE Stays(f)
  <2>1. ASSUME row'[f].preview \/ row'[f].hls
        PROVE  ~Uploading(f) /\ job[f] # "drop" /\ key'[f] = key[f]
    <3>1. ~NamesNothing(f) \/ job[f] = "ready"
      BY <1>4, <2>1 DEF Stays, NamesNothing
    <3>2. Exists(f) /\ ~Uploading(f) /\ job[f] # "drop"
      BY <3>1 DEF JobRunsOnce, JobIsOnTrack, Exists, Early
    <3> QED  BY <3>2, NamedOnce
  <2>2. row'[f].preview => "preview" \in store[f]
    BY <1>4 DEF Stays, NothingDangles, JobIsOnTrack
  <2>3. row'[f].hls /\ f \notin skipped /\ (drops => key[f] \notin HLS) => HLS \subseteq store[f]
    BY <1>4 DEF Stays, NothingDangles, JobIsOnTrack
  <2>4. row'[f].via = "pin" => "original" \in store'[f]
    <3>1. row'[f].via = "pin" => "original" \in store[f] /\ upload[f] = "none" /\ job[f] = "none"
      BY <1>4 DEF Stays, NothingDangles, NamesAreChosen, JobIsOnTrack
    <3> QED  BY <1>2, <3>1
  <2>5. row'[f].preview => "preview" \in store'[f]
    BY <1>1, <2>1, <2>2
  <2>6. row'[f].hls /\ f \notin skipped' /\ (drops' => key'[f] \notin HLS) => HLS \subseteq store'[f]
    <3> SUFFICES ASSUME row'[f].hls, f \notin skipped', drops' => key'[f] \notin HLS
                 PROVE  HLS \subseteq store'[f]
      OBVIOUS
    <3>1. HLS \subseteq store[f] /\ ~Uploading(f) /\ job[f] # "drop"
      BY <1>3, <2>1, <2>3
    <3> QED  BY <1>1, <3>1 DEF HLS
  <2> QED  BY <2>4, <2>5, <2>6
<1>5. ASSUME NEW x \in Requests, Inserts(x, f)
      PROVE  ~row'[f].preview /\ ~row'[f].hls /\ (row'[f].via = "pin" => "original" \in store'[f])
  <2>1. row[f].via = "none"
    BY <1>5 DEF Inserts, Drawing, DrawnAlone, Exists
  <2>2. job[f] = "none"
    BY <2>1 DEF JobIsOnTrack
  <2>3. row'[f].via = "pin" => "original" \in store[f] /\ upload[f] = "none"
    BY <1>5 DEF Inserts, ObjectFirst, NamesAreChosen
  <2> QED  BY <1>2, <1>5, <2>2, <2>3 DEF Inserts
<1> QED  BY <1>4, <1>5, RowStep

LEMMA KeptStep ==
  ASSUME TypeOK, DrawnAlone, NamesAreChosen, ObjectFirst, JobIsOnTrack, JobRunsOnce, SomethingIsKept,
         [Next]_vars
  PROVE  SomethingIsKept'
<1> SUFFICES ASSUME NEW f \in Files, upload'[f] = "done" \/ row'[f].via \in {"server_import", "pin"},
                    key'[f] = "original", ~(drops' /\ f \in skipped')
             PROVE  "original" \in store'[f] \/ HLS \subseteq store'[f]
  BY DEF SomethingIsKept
<1>1. ~Opens(f) /\ key[f] = "original"
  <2>1. ~Opens(f)
    BY DEF Opens, Fresh, Exists
  <2> QED  BY <2>1, UploadStep
<1>2. drops' = drops /\ (f \in skipped => f \in skipped')
  BY HistoryStep
<1>3. CASE upload[f] # "done" /\ upload'[f] = "done"
  BY <1>1, <1>3, UploadStep
<1>4. CASE ~Uploading(f) /\ ("original" \in store[f] \/ HLS \subseteq store[f])
  <2>1. job[f] = "drop" => HLS \subseteq store[f]
    BY <1>2 DEF JobIsOnTrack
  <2>2. HLS \subseteq store[f] => HLS \subseteq store'[f]
    BY <1>1, <1>4, StoreStep, DropStage DEF HLS
  <2>3. "original" \in store[f] /\ job[f] # "drop" => "original" \in store'[f]
    BY <1>1, <1>4, StoreStep, DropStage
  <2> QED  BY <1>4, <2>1, <2>2, <2>3
<1>5. CASE upload[f] = "done" \/ row[f].via \in {"server_import", "pin"}
  <2>1. ~Uploading(f)
    BY <1>5 DEF Uploading, NamesAreChosen
  <2>2. "original" \in store[f] \/ HLS \subseteq store[f]
    BY <1>1, <1>2, <1>5 DEF SomethingIsKept
  <2> QED  BY <1>4, <2>1, <2>2
<1>6. CASE row[f].via \notin {"server_import", "pin"} /\ row'[f].via \in {"server_import", "pin"}
  <2>1. PICK x \in Requests : Inserts(x, f)
    BY <1>6, RowStep DEF Stays
  <2>2. "original" \in store[f] /\ upload[f] = "none"
    BY <1>6, <2>1 DEF Inserts, ObjectFirst, NamesAreChosen
  <2> QED  BY <1>4, <2>2 DEF Uploading
<1> QED  BY <1>3, <1>5, <1>6

LEMMA KeptStart == Init => KeptInv
<1> SUFFICES ASSUME Init PROVE KeptInv
  OBVIOUS
<1>1. DrawnAlone /\ ObjectFirst
  BY DEF Init, Idle, DrawnAlone, ObjectFirst, Drawing
<1>2. JobIsOnTrack /\ NothingDangles /\ SomethingIsKept
  BY DEF Init, NoRow, JobIsOnTrack, NothingDangles, SomethingIsKept
<1>3. NamesAreChosen /\ JobRunsOnce
  BY DEF Init, NoRow, Idle, NamesAreChosen, JobRunsOnce, Uploading, NamesNothing, Early
<1> QED  BY <1>1, <1>2, <1>3, InitType DEF KeptInv

LEMMA KeptAlways == Spec => []KeptInv
<1>1. KeptInv /\ [Next]_vars => KeptInv'
  BY NextType, DrawnStep, NamesStep, ObjectStep, TrackStep, OnceStep, DanglesStep, KeptStep DEF KeptInv
<1> QED  BY <1>1, KeptStart, PTL DEF Spec

\* For any number of users, requests and attachments, of any kind, under any name the client
\* gives and whatever stops, fails or is lost: no row names an object the store does not hold
\* (processPreviewAsync, PinAttachment), unless it is an HLS copy that was put with a file passed
\* over, or one of whose files went as the original it shared its key with.
THEOREM NothingEverDangles == Spec => []NothingDangles
<1>1. KeptInv => NothingDangles
  BY DEF KeptInv
<1> QED  BY <1>1, KeptAlways, PTL

\* And what was uploaded under a name of its own, imported or pinned is still in the store, as the
\* original or as an HLS copy, whole where no file of it was passed over, even where the deployment
\* deletes originals.
THEOREM SomethingIsAlwaysKept == Spec => []SomethingIsKept
<1>1. KeptInv => SomethingIsKept
  BY DEF KeptInv
<1> QED  BY <1>1, KeptAlways, PTL

-----------------------------------------------------------------------------
(* AuthSessions, with its own requests and the same users.                 *)

CONSTANTS Migrated, Sessions, AuthRequests, MaxTokens

Auth == INSTANCE AuthSessions WITH Requests <- AuthRequests

\* A request about to hand out a token without the claim has a verified user.
PromisesKept ==
  \A x \in AuthRequests :
    pc[x] \in {"create", "update"} /\ ~migr[x] => user[x] \notin legacy

\* Why a request let past the key creates limited sessions only: its user has
\* a scrypt password, which nothing turns into a bcrypt one.
KeyInv ==
  /\ \A u \in legacy : hashKind[u] = "scrypt"
  /\ \A x \in AuthRequests :
       /\ Auth!At(x, "password") => hashKind[user[x]] = "bcrypt"
       /\ Auth!At(x, "login") /\ keyless[x] => hashKind[user[x]] = "scrypt"
       /\ pc[x] \in {"idle", "bind", "bindEmail"} => ~keyless[x]

\* The inductive invariant.
AuthInv == Auth!TypeOK /\ PromisesKept /\ LimitedUntilBound /\ KeyInv /\ KeylessIsLimited

-----------------------------------------------------------------------------
LEMMA AuthInit == Auth!AccountsAssumption /\ Auth!Init => AuthInv
BY DEF Auth!AccountsAssumption, Auth!Init, AuthInv, Auth!TypeOK, Auth!Labels, Auth!Live, Auth!At,
       PromisesKept, LimitedUntilBound, KeyInv, KeylessIsLimited

-----------------------------------------------------------------------------
(* The steps of a request.                                                 *)

LEMMA RegisterKeeps ==
  ASSUME Auth!AccountsAssumption, AuthInv, NEW x \in AuthRequests, Auth!Register(x)
  PROVE AuthInv'
<1> USE DEF Auth!AccountsAssumption, Auth!Register, Auth!For, Auth!Goto, Auth!At, Auth!userVars,
            Auth!sessionVars, Auth!clientVars, Auth!localVars
<1>1. Auth!TypeOK' BY DEF AuthInv, Auth!TypeOK, Auth!Labels, Auth!Live
<1>2. PromisesKept' BY DEF AuthInv, Auth!TypeOK, Auth!Labels, PromisesKept
<1>3. LimitedUntilBound' BY DEF AuthInv, Auth!TypeOK, LimitedUntilBound, PromisesKept
<1>4. KeyInv' BY DEF AuthInv, Auth!TypeOK, Auth!Labels, KeyInv
<1>5. KeylessIsLimited' BY DEF AuthInv, Auth!TypeOK, Auth!Labels, KeyInv, KeylessIsLimited
<1> QED BY <1>1, <1>2, <1>3, <1>4, <1>5 DEF AuthInv

LEMMA LoginGateKeeps ==
  ASSUME Auth!AccountsAssumption, AuthInv, NEW x \in AuthRequests, Auth!LoginGate(x)
  PROVE AuthInv'
<1> USE DEF Auth!AccountsAssumption, Auth!LoginGate, Auth!For, Auth!Goto, Auth!At, Auth!userVars,
            Auth!sessionVars, Auth!clientVars, Auth!localVars
<1>1. Auth!TypeOK' BY DEF AuthInv, Auth!TypeOK, Auth!Labels, Auth!Live
<1>2. PromisesKept' BY DEF AuthInv, Auth!TypeOK, Auth!Labels, PromisesKept
<1>3. LimitedUntilBound' BY DEF AuthInv, Auth!TypeOK, LimitedUntilBound, PromisesKept
<1>4. KeyInv' BY DEF AuthInv, Auth!TypeOK, Auth!Labels, KeyInv
<1>5. KeylessIsLimited' BY DEF AuthInv, Auth!TypeOK, Auth!Labels, KeyInv, KeylessIsLimited
<1> QED BY <1>1, <1>2, <1>3, <1>4, <1>5 DEF AuthInv

LEMMA LoginKeeps ==
  ASSUME Auth!AccountsAssumption, AuthInv, NEW x \in AuthRequests, Auth!Login(x)
  PROVE AuthInv'
<1> USE DEF Auth!AccountsAssumption, Auth!Login, Auth!Goto, Auth!At, Auth!userVars,
            Auth!sessionVars, Auth!clientVars, Auth!localVars
<1>1. Auth!TypeOK' BY DEF AuthInv, Auth!TypeOK, Auth!Labels, Auth!Live
<1>2. PromisesKept' BY DEF AuthInv, Auth!TypeOK, Auth!Labels, PromisesKept
<1>3. LimitedUntilBound' BY DEF AuthInv, Auth!TypeOK, LimitedUntilBound, PromisesKept
<1>4. KeyInv' BY DEF AuthInv, Auth!TypeOK, Auth!Labels, KeyInv
<1>5. KeylessIsLimited' BY DEF AuthInv, Auth!TypeOK, Auth!Labels, KeyInv, KeylessIsLimited
<1> QED BY <1>1, <1>2, <1>3, <1>4, <1>5 DEF AuthInv

LEMMA CreateSessionKeeps ==
  ASSUME Auth!AccountsAssumption, AuthInv, NEW x \in AuthRequests, Auth!CreateSession(x)
  PROVE AuthInv'
<1> USE DEF Auth!AccountsAssumption, Auth!CreateSession, Auth!Answer, Auth!Return, Auth!Goto,
            Auth!At, Auth!userVars, Auth!sessionVars, Auth!clientVars, Auth!localVars
<1>1. Auth!TypeOK' BY DEF AuthInv, Auth!TypeOK, Auth!Labels, Auth!Live
<1>2. PromisesKept' BY DEF AuthInv, Auth!TypeOK, Auth!Labels, PromisesKept
<1>3. LimitedUntilBound' BY DEF AuthInv, Auth!TypeOK, LimitedUntilBound, PromisesKept
<1>4. KeyInv' BY DEF AuthInv, Auth!TypeOK, Auth!Labels, KeyInv
<1>5. KeylessIsLimited' BY DEF AuthInv, Auth!TypeOK, Auth!Labels, KeyInv, KeylessIsLimited
<1> QED BY <1>1, <1>2, <1>3, <1>4, <1>5 DEF AuthInv

LEMMA VerifyBindKeeps ==
  ASSUME Auth!AccountsAssumption, AuthInv, NEW x \in AuthRequests, Auth!VerifyBind(x)
  PROVE AuthInv'
<1> USE DEF Auth!AccountsAssumption, Auth!VerifyBind, Auth!For, Auth!Goto, Auth!At, Auth!userVars,
            Auth!sessionVars, Auth!clientVars, Auth!localVars
<1>1. Auth!TypeOK' BY DEF AuthInv, Auth!TypeOK, Auth!Labels, Auth!Live
<1>2. PromisesKept' BY DEF AuthInv, Auth!TypeOK, Auth!Labels, PromisesKept
<1>3. LimitedUntilBound' BY DEF AuthInv, Auth!TypeOK, LimitedUntilBound, PromisesKept
<1>4. KeyInv' BY DEF AuthInv, Auth!TypeOK, Auth!Labels, KeyInv
<1>5. KeylessIsLimited' BY DEF AuthInv, Auth!TypeOK, Auth!Labels, KeyInv, KeylessIsLimited
<1> QED BY <1>1, <1>2, <1>3, <1>4, <1>5 DEF AuthInv

LEMMA FindLegacyKeeps ==
  ASSUME Auth!AccountsAssumption, AuthInv, NEW x \in AuthRequests, Auth!FindLegacy(x)
  PROVE AuthInv'
<1> USE DEF Auth!AccountsAssumption, Auth!FindLegacy, Auth!Goto, Auth!At, Auth!userVars,
            Auth!sessionVars, Auth!clientVars, Auth!localVars
<1>1. Auth!TypeOK' BY DEF AuthInv, Auth!TypeOK, Auth!Labels, Auth!Live
<1>2. PromisesKept' BY DEF AuthInv, Auth!TypeOK, Auth!Labels, PromisesKept
<1>3. LimitedUntilBound' BY DEF AuthInv, Auth!TypeOK, LimitedUntilBound, PromisesKept
<1>4. KeyInv' BY DEF AuthInv, Auth!TypeOK, Auth!Labels, KeyInv
<1>5. KeylessIsLimited' BY DEF AuthInv, Auth!TypeOK, Auth!Labels, KeyInv, KeylessIsLimited
<1> QED BY <1>1, <1>2, <1>3, <1>4, <1>5 DEF AuthInv

LEMMA BindLegacyEmailKeeps ==
  ASSUME Auth!AccountsAssumption, AuthInv, NEW x \in AuthRequests, Auth!BindLegacyEmail(x)
  PROVE AuthInv'
<1> USE DEF Auth!AccountsAssumption, Auth!BindLegacyEmail, Auth!Goto, Auth!At, Auth!userVars,
            Auth!sessionVars, Auth!clientVars, Auth!localVars
<1>1. Auth!TypeOK' BY DEF AuthInv, Auth!TypeOK, Auth!Labels, Auth!Live
<1>2. PromisesKept' BY DEF AuthInv, Auth!TypeOK, Auth!Labels, PromisesKept
<1>3. LimitedUntilBound' BY DEF AuthInv, Auth!TypeOK, LimitedUntilBound, PromisesKept
<1>4. KeyInv' BY DEF AuthInv, Auth!TypeOK, Auth!Labels, KeyInv
<1>5. KeylessIsLimited' BY DEF AuthInv, Auth!TypeOK, Auth!Labels, KeyInv, KeylessIsLimited
<1> QED BY <1>1, <1>2, <1>3, <1>4, <1>5 DEF AuthInv

LEMMA ChangePasswordKeeps ==
  ASSUME Auth!AccountsAssumption, AuthInv, NEW x \in AuthRequests, Auth!ChangePassword(x)
  PROVE AuthInv'
<1> USE DEF Auth!AccountsAssumption, Auth!ChangePassword, Auth!For, Auth!Goto, Auth!At,
            Auth!userVars, Auth!sessionVars, Auth!clientVars, Auth!localVars
<1>1. Auth!TypeOK' BY DEF AuthInv, Auth!TypeOK, Auth!Labels, Auth!Live
<1>2. PromisesKept' BY DEF AuthInv, Auth!TypeOK, Auth!Labels, PromisesKept
<1>3. LimitedUntilBound' BY DEF AuthInv, Auth!TypeOK, LimitedUntilBound, PromisesKept
<1>4. KeyInv' BY DEF AuthInv, Auth!TypeOK, Auth!Labels, KeyInv
<1>5. KeylessIsLimited' BY DEF AuthInv, Auth!TypeOK, Auth!Labels, KeyInv, KeylessIsLimited
<1> QED BY <1>1, <1>2, <1>3, <1>4, <1>5 DEF AuthInv

LEMMA UpdatePasswordHashKeeps ==
  ASSUME Auth!AccountsAssumption, AuthInv, NEW x \in AuthRequests, Auth!UpdatePasswordHash(x)
  PROVE AuthInv'
<1> USE DEF Auth!AccountsAssumption, Auth!UpdatePasswordHash, Auth!Return, Auth!Goto, Auth!At,
            Auth!userVars, Auth!sessionVars, Auth!clientVars, Auth!localVars
<1>1. Auth!TypeOK' BY DEF AuthInv, Auth!TypeOK, Auth!Labels, Auth!Live
<1>2. PromisesKept' BY DEF AuthInv, Auth!TypeOK, Auth!Labels, PromisesKept
<1>3. LimitedUntilBound' BY DEF AuthInv, Auth!TypeOK, LimitedUntilBound, PromisesKept
<1>4. KeyInv' BY DEF AuthInv, Auth!TypeOK, Auth!Labels, KeyInv
<1>5. KeylessIsLimited' BY DEF AuthInv, Auth!TypeOK, Auth!Labels, KeyInv, KeylessIsLimited
<1> QED BY <1>1, <1>2, <1>3, <1>4, <1>5 DEF AuthInv

LEMMA RefreshFindKeeps ==
  ASSUME Auth!AccountsAssumption, AuthInv, NEW x \in AuthRequests, Auth!RefreshFind(x)
  PROVE AuthInv'
<1> USE DEF Auth!AccountsAssumption, Auth!RefreshFind, Auth!For, Auth!Goto, Auth!At, Auth!userVars,
            Auth!sessionVars, Auth!clientVars, Auth!localVars
<1>1. Auth!TypeOK' BY DEF AuthInv, Auth!TypeOK, Auth!Labels, Auth!Live
<1>2. PromisesKept' BY DEF AuthInv, Auth!TypeOK, Auth!Labels, PromisesKept
<1>3. LimitedUntilBound' BY DEF AuthInv, Auth!TypeOK, LimitedUntilBound, PromisesKept
<1>4. KeyInv' BY DEF AuthInv, Auth!TypeOK, Auth!Labels, KeyInv
<1>5. KeylessIsLimited' BY DEF AuthInv, Auth!TypeOK, Auth!Labels, KeyInv, KeylessIsLimited
<1> QED BY <1>1, <1>2, <1>3, <1>4, <1>5 DEF AuthInv

LEMMA RefreshUserKeeps ==
  ASSUME Auth!AccountsAssumption, AuthInv, NEW x \in AuthRequests, Auth!RefreshUser(x)
  PROVE AuthInv'
<1> USE DEF Auth!AccountsAssumption, Auth!RefreshUser, Auth!Goto, Auth!At, Auth!userVars,
            Auth!sessionVars, Auth!clientVars, Auth!localVars
<1>1. Auth!TypeOK' BY DEF AuthInv, Auth!TypeOK, Auth!Labels, Auth!Live
<1>2. PromisesKept' BY DEF AuthInv, Auth!TypeOK, Auth!Labels, PromisesKept
<1>3. LimitedUntilBound' BY DEF AuthInv, Auth!TypeOK, LimitedUntilBound, PromisesKept
<1>4. KeyInv' BY DEF AuthInv, Auth!TypeOK, Auth!Labels, KeyInv
<1>5. KeylessIsLimited' BY DEF AuthInv, Auth!TypeOK, Auth!Labels, KeyInv, KeylessIsLimited
<1> QED BY <1>1, <1>2, <1>3, <1>4, <1>5 DEF AuthInv

LEMMA UpdateRefreshKeeps ==
  ASSUME Auth!AccountsAssumption, AuthInv, NEW x \in AuthRequests, Auth!UpdateRefresh(x)
  PROVE AuthInv'
<1> USE DEF Auth!AccountsAssumption, Auth!UpdateRefresh, Auth!Answer, Auth!Return, Auth!Goto,
            Auth!At, Auth!userVars, Auth!sessionVars, Auth!clientVars, Auth!localVars
<1>1. Auth!TypeOK' BY DEF AuthInv, Auth!TypeOK, Auth!Labels, Auth!Live
<1>2. PromisesKept' BY DEF AuthInv, Auth!TypeOK, Auth!Labels, PromisesKept
<1>3. LimitedUntilBound' BY DEF AuthInv, Auth!TypeOK, LimitedUntilBound, PromisesKept
<1>4. KeyInv' BY DEF AuthInv, Auth!TypeOK, Auth!Labels, KeyInv
<1>5. KeylessIsLimited' BY DEF AuthInv, Auth!TypeOK, Auth!Labels, KeyInv, KeylessIsLimited
<1> QED BY <1>1, <1>2, <1>3, <1>4, <1>5 DEF AuthInv

LEMMA FailKeeps ==
  ASSUME Auth!AccountsAssumption, AuthInv, NEW x \in AuthRequests, Auth!Fail(x)
  PROVE AuthInv'
<1> USE DEF Auth!AccountsAssumption, Auth!Fail, Auth!Return, Auth!Goto, Auth!At, Auth!userVars,
            Auth!sessionVars, Auth!clientVars, Auth!localVars
<1>1. Auth!TypeOK' BY DEF AuthInv, Auth!TypeOK, Auth!Labels, Auth!Live
<1>2. PromisesKept' BY DEF AuthInv, Auth!TypeOK, Auth!Labels, PromisesKept
<1>3. LimitedUntilBound' BY DEF AuthInv, Auth!TypeOK, LimitedUntilBound, PromisesKept
<1>4. KeyInv' BY DEF AuthInv, Auth!TypeOK, Auth!Labels, KeyInv
<1>5. KeylessIsLimited' BY DEF AuthInv, Auth!TypeOK, Auth!Labels, KeyInv, KeylessIsLimited
<1> QED BY <1>1, <1>2, <1>3, <1>4, <1>5 DEF AuthInv

-----------------------------------------------------------------------------
(* The steps that only touch the rows of sessions.                         *)

LEMMA DeleteKeeps ==
  ASSUME Auth!AccountsAssumption, AuthInv, NEW gone, Auth!DeleteSessions(gone)
  PROVE AuthInv'
<1> USE DEF Auth!AccountsAssumption, Auth!DeleteSessions, Auth!At, Auth!userVars, Auth!clientVars,
            Auth!localVars
<1>1. Auth!TypeOK' BY DEF AuthInv, Auth!TypeOK, Auth!Labels, Auth!Live
<1>2. PromisesKept' BY DEF AuthInv, PromisesKept
<1>3. LimitedUntilBound' BY DEF AuthInv, LimitedUntilBound
<1>4. KeyInv' BY DEF AuthInv, KeyInv
<1>5. KeylessIsLimited' BY DEF AuthInv, KeylessIsLimited
<1> QED BY <1>1, <1>2, <1>3, <1>4, <1>5 DEF AuthInv

LEMMA ExpiryKeeps ==
  ASSUME Auth!AccountsAssumption, AuthInv, (\E u \in known : Auth!UpdateExpiry(u)) \/ (\E s \in Sessions : Auth!Expire(s))
  PROVE  AuthInv'
<1> USE DEF Auth!AccountsAssumption, Auth!UpdateExpiry, Auth!Expire, Auth!SessionsOf, Auth!At,
            Auth!userVars, Auth!clientVars, Auth!localVars
<1>1. Auth!TypeOK' BY DEF AuthInv, Auth!TypeOK, Auth!Labels, Auth!Live
<1>2. PromisesKept' BY DEF AuthInv, PromisesKept
<1>3. LimitedUntilBound' BY DEF AuthInv, LimitedUntilBound
<1>4. KeyInv' BY DEF AuthInv, KeyInv
<1>5. KeylessIsLimited' BY DEF AuthInv, KeylessIsLimited
<1> QED BY <1>1, <1>2, <1>3, <1>4, <1>5 DEF AuthInv

LEMMA StutterKeeps == AuthInv /\ UNCHANGED Auth!vars => AuthInv'
<1> SUFFICES ASSUME AuthInv, UNCHANGED Auth!vars PROVE AuthInv' OBVIOUS
<1> USE DEF Auth!AccountsAssumption, Auth!vars, Auth!userVars, Auth!sessionVars, Auth!clientVars,
            Auth!localVars, Auth!At, Auth!Live
<1>1. Auth!TypeOK' BY DEF AuthInv, Auth!TypeOK
<1>2. PromisesKept' BY DEF AuthInv, PromisesKept
<1>3. LimitedUntilBound' BY DEF AuthInv, LimitedUntilBound
<1>4. KeyInv' BY DEF AuthInv, KeyInv
<1>5. KeylessIsLimited' BY DEF AuthInv, KeylessIsLimited
<1> QED BY <1>1, <1>2, <1>3, <1>4, <1>5 DEF AuthInv

LEMMA AuthStep == Auth!AccountsAssumption /\ AuthInv /\ [Auth!Next]_(Auth!vars) => AuthInv'
<1> SUFFICES ASSUME Auth!AccountsAssumption, AuthInv, [Auth!Next]_(Auth!vars) PROVE AuthInv' OBVIOUS
<1>1. ASSUME NEW x \in AuthRequests, Auth!SigningIn(x) PROVE AuthInv'
  BY <1>1, RegisterKeeps, LoginGateKeeps, LoginKeeps, CreateSessionKeeps DEF Auth!SigningIn
<1>2. ASSUME NEW x \in AuthRequests, Auth!Binding(x) PROVE AuthInv'
  BY <1>2, VerifyBindKeeps, FindLegacyKeeps, BindLegacyEmailKeeps DEF Auth!Binding
<1>3. ASSUME NEW x \in AuthRequests, Auth!Refreshing(x) PROVE AuthInv'
  BY <1>3, RefreshFindKeeps, RefreshUserKeeps, UpdateRefreshKeeps DEF Auth!Refreshing
<1>4. ASSUME NEW x \in AuthRequests, Auth!ChangePassword(x) \/ Auth!UpdatePasswordHash(x) \/ Auth!Fail(x)
      PROVE  AuthInv'
  BY <1>4, ChangePasswordKeeps, UpdatePasswordHashKeeps, FailKeeps
<1>5. CASE Auth!Logout BY <1>5, DeleteKeeps DEF Auth!Logout
<1>6. ASSUME NEW u \in known, Auth!RevokeSession(u) \/ Auth!RevokeOthers(u) PROVE AuthInv'
  BY <1>6, DeleteKeeps DEF Auth!RevokeSession, Auth!RevokeOthers
<1>7. CASE (\E u \in known : Auth!UpdateExpiry(u)) \/ (\E s \in Sessions : Auth!Expire(s))
  BY <1>7, ExpiryKeeps
<1>8. CASE UNCHANGED Auth!vars BY <1>8, StutterKeeps
<1> QED BY <1>1, <1>2, <1>3, <1>4, <1>5, <1>6, <1>7, <1>8 DEF Auth!Next

LEMMA AuthInvHolds ==
  ASSUME Auth!AccountsAssumption PROVE Auth!Spec => []AuthInv
BY AuthInit, AuthStep, PTL DEF Auth!Spec

-----------------------------------------------------------------------------
(* The results.                                                            *)

\* The rows and the locals have their types, however many requests run.
THEOREM AuthTypeCorrect ==
  ASSUME Auth!AccountsAssumption PROVE Auth!Spec => []Auth!TypeOK
<1>1. AuthInv => Auth!TypeOK BY DEF AuthInv
<1> QED BY <1>1, AuthInvHolds, PTL

\* No unlimited token for a migrated user before his email is bound
\* (issueSessionTokensWithMigration, Login, Refresh, CompleteLegacyBind).
THEOREM NobodyUnverifiedIsUnlimited ==
  ASSUME Auth!AccountsAssumption PROVE Auth!Spec => []LimitedUntilBound
<1>1. AuthInv => LimitedUntilBound BY DEF AuthInv
<1> QED BY <1>1, AuthInvHolds, PTL

\* The login key is not to be evaded by binding between the two reads of the
\* user, in newLoginHandler and in Login.
THEOREM KeylessLoginIsLimited ==
  ASSUME Auth!AccountsAssumption PROVE Auth!Spec => []KeylessIsLimited
<1>1. AuthInv => KeylessIsLimited BY DEF AuthInv
<1> QED BY <1>1, AuthInvHolds, PTL

LEMMA RevokedStep ==
  ASSUME Auth!TypeOK, [Auth!Next]_(Auth!vars), NEW s \in ids, ~Auth!Live(s)
  PROVE  ~Auth!Live(s)'
<1> USE DEF Auth!AccountsAssumption, Auth!Live
<1>1. s \in Sessions BY DEF Auth!TypeOK
<1>2. CASE \E x \in AuthRequests : Auth!CreateSession(x) BY <1>1, <1>2 DEF Auth!CreateSession, Auth!TypeOK
<1>3. ASSUME NEW gone, Auth!DeleteSessions(gone) PROVE ~Auth!Live(s)' BY <1>1, <1>3 DEF Auth!DeleteSessions
<1>4. CASE Auth!Logout BY <1>3, <1>4 DEF Auth!Logout
<1>5. ASSUME NEW u \in known, Auth!RevokeSession(u) \/ Auth!RevokeOthers(u) PROVE ~Auth!Live(s)'
  BY <1>3, <1>5 DEF Auth!RevokeSession, Auth!RevokeOthers
<1>6. CASE UNCHANGED owner BY <1>6
<1>7. ASSUME NEW x \in AuthRequests, Auth!Register(x) \/ Auth!LoginGate(x) \/ Auth!Login(x) \/ Auth!Binding(x)
      PROVE  UNCHANGED owner
  BY <1>7 DEF Auth!Register, Auth!LoginGate, Auth!Login, Auth!Binding, Auth!VerifyBind, Auth!FindLegacy,
              Auth!BindLegacyEmail, Auth!sessionVars
<1>8. ASSUME NEW x \in AuthRequests,
             Auth!Refreshing(x) \/ Auth!ChangePassword(x) \/ Auth!UpdatePasswordHash(x) \/ Auth!Fail(x)
      PROVE  UNCHANGED owner
  BY <1>8 DEF Auth!Refreshing, Auth!RefreshFind, Auth!RefreshUser, Auth!UpdateRefresh, Auth!ChangePassword,
              Auth!UpdatePasswordHash, Auth!Fail, Auth!sessionVars
<1>9. ASSUME NEW u, Auth!UpdateExpiry(u) \/ Auth!Expire(u) \/ UNCHANGED Auth!vars PROVE UNCHANGED owner
  BY <1>9 DEF Auth!UpdateExpiry, Auth!Expire, Auth!vars, Auth!sessionVars
<1> QED BY <1>2, <1>4, <1>5, <1>6, <1>7, <1>8, <1>9 DEF Auth!Next, Auth!SigningIn

\* A refresh that found its session before it was revoked does not bring it
\* back (Refresh, UpdateRefresh), nor does any other request.
THEOREM RevocationIsFinal ==
  ASSUME Auth!AccountsAssumption PROVE Auth!Spec => RevokedStaysRevoked
<1>1. Auth!TypeOK /\ [Auth!Next]_(Auth!vars) => [\A s \in ids : owner[s] = None => owner'[s] = None]_authVars
  BY RevokedStep DEF Auth!Live
<1> QED BY <1>1, AuthTypeCorrect, PTL DEF Auth!Spec, RevokedStaysRevoked
=============================================================================
