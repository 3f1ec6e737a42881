# Specifications of combox-backend

TLA+ modules about the backend in `src/`: models of its subsystems, TLC runs
that check them on small instances, and TLAPS proofs of what matters most for
every instance. Everything is read from the Go code; line numbers below are
lines of `src/`.

Run from this directory:

    tlc -workers 2 -config hub_calls.cfg MCCallHub.tla
    tlapm --threads 4 CallHubProofs.tla

## 1. The system

combox-backend is a messenger server in one Go process, with PostgreSQL for
rows, Valkey for presence, events and short-lived tokens, and MinIO for files.
Its parts, in the order of how much of their correctness is protocol rather
than data:

| Part | State | Operations | What is hard | What makes it correct |
|---|---|---|---|---|
| **Call hub** `internal/calls/hub.go` | `Hub.rooms`, `Hub.byChat`, one `Room` per live call (closed, kind, topology, participants), rows in `call_sessions` / `call_participants` | join (find, create, rebind, register, escalate), leave, decline, end, discard, shutdown | one goroutine per connection; three kinds of locks; rows and notifications are written after the locks are released; connections of one user replace each other | one live call per chat, found by the hub; slots held by live connections only; ended once, for good, and everybody told |
| **Signaling sessions** `session.go`, `types.go` | per connection: its room, closed, the join gate and its buffer; per participant: the connection bound | deliver a frame, join gate, track maps, relay, cleanup | frames are sent by the goroutine that causes them, over locks taken one after the other | nothing before `call.joined`; nothing missed; nobody left in an ended call |
| **Call media** `sfu.go` | server peers, published and forwarded tracks, routes | offer/answer, publish, attach, detach, close | callbacks of the WebRTC library, two locks per peer and room | everybody hears everybody; no leg outlives its peer; no deadlock |
| **Auth and sessions** `service/auth` | `users`, `sessions` (refresh hash, expiry) | register, login, refresh, logout, revoke, idle TTL, legacy binding | statements without transactions: two refreshes, a refresh and a revocation | one valid refresh token per session; a revoked session stays revoked |
| **Email codes** `service/emailcode`, `repository/valkey` | codes, verified addresses, login keys | send, verify, consume | a new code revokes the proof of the old one; attempts | a proof is used once |
| **Chats** `service_chat_management.go`, `service_saved.go`, `chat_repository.go` | `chats`, their parents, topic counters and public names, `comment_threads` | make or find (self-chat, direct chat, group, topic, channel, thread), rename, delete | find-then-create; unique indexes; a counter that may be NULL or behind; cascades | one self-chat; a topic number nobody else holds; nothing outlives what it belongs to |
| **Chat membership** `service/chat` | `chat_members` with roles, invitations, links | add, remove, promote, leave, subscribe, accept, delete | read-check-write over several statements; the two statements of a hand-over | an owner is kept; a ban is lifted by others, or by unsubscribing from a public channel |
| **Messages and polls** | messages, files, reactions, pins, receipts, ballots, bans and mutes | post, forward, edit, delete, react, pin, mark, clear, vote, close, moderate | checks made before the write; deletion under other requests | only the entitled post; what is deleted stays so; ballots stand; what racing edits and receipts leave is mended by the next |
| **Attachments** `service/media` | rows, upload sessions, objects in the store | start, part, complete, import, pin, play; the preview job | two stores without a common transaction; a process that stops; a job that ignores errors | no row names a missing object and no upload is lost whole, but for what the names of files and passed over segments can do |
| **Legacy migration** `cmd/boxchat-migrate` | `legacy_id_map`, and every table above | the phases of `--apply`, in batches | stopped and run again, over chats that are in use | nothing twice, nothing missing, what people changed since stands |
| **Realtime and presence** `ws_handlers.go` | subscriptions, presence keys with TTL | connect, heartbeat, disconnect | several connections of one user | online while connected |
| E2E keys, folders, settings, privacy, blocks, reports, search, bots, translation, mail, logging | rows of one owner each, or none | single statements, pure functions | little | data, not protocol |

The parts meet in a few places. The hub asks the chat service whether a user is
a member (and may publish a stream), only on the way in. The hub writes call
rows and calls the notifier, which publishes `call.started` and `call.ended` to
the chat's members over Valkey. A session hands frames to the hub, and the hub
hands frames to the sessions bound to its participants. Every request about a
message or a poll asks first who the user is in the chat and what stands
against him there. A message carries the token of an attachment, and who may
read the chat may read the attachment. The import writes the rows all of these
live on, and leaves behind groups without a topic counter.

`PROJECT.json` lists every part with its sources and every hazard with its
line.

## 2. Modules

| Module | Of | Contents |
|---|---|---|
| `CallLifecycle` | what the calls subsystem promises | calls begin, users enter and exit, calls finish, the chat is told |
| `CallHub` | `hub.go`, with `session.go`, `run.go`, the call repository | the hub as its goroutines run it; properties; the refinement of `CallLifecycle` |
| `CallHubProofs` | | `TypeOK`, `RegistryInv`, `OneLiveCallPerChat`, `SlotsBacked`, `StaleConnectionHarmless`, `WithinLimits`, `StreamDiscipline`, `NoOrphanRoom`, `OverIsOver`, and that `CallHub` implements `CallLifecycle` |
| `CallSignals` | `session.go`, `types.go`, deliveries in `hub.go` | the frames of one call |
| `CallSignalsProofs` | | `NothingBeforeJoined`, `NoAnnouncementMissed`, `NobodyStranded` |
| `CallMedia` | `sfu.go`, peers in `hub.go` | server peers, tracks and legs of one call, with the locks around them |
| `CallMediaProofs` | | `ClosedPeersAreSilent`, `NoLostPeer`, `EveryoneHears` |
| `AuthPromises` | the rows of accounts and sessions | their state, and what is promised of it |
| `AuthSessions` | `service/auth`, its statements and handlers | the requests that sign in, refresh, revoke and bind |
| `ChatMembers` | `service_chat_management.go`, `service_invites.go`, `service_chat_invite_links.go`, their statements and routes | the members of one chat and their roles |
| `ChatMembersProofs` | | `TypeOK`, `OwnerKept`, `SoleOwner`, `BanHolds` |
| `ChatMessages` | `service.go`, `service_message_*.go`, `service_polls.go`, their statements, receipts in valkey | the messages of one chat, and what is done about them |
| `ChatMessagesProofs` | | `TypeOK`, `EditWhole`, `ReceiptsAgree`, `EntitledToPost`, `NothingComesBack`, `BallotStands` |
| `ChatRooms` | chats in `chat_repository.go`, `service_saved.go`, `service_chat_profile.go`, `service_delete_chat.go` | where chats come from and where they go |
| `ChatRoomsProofs` | | `TypeOK`, `SavedAgree`, `NobodyClashes`, `TopicsAreFresh` |
| `Uploads` | `service/media`, `media_repository.go`, `minio/client.go` | attachments over two stores, and the preview job |
| `AccountProofs` | | of `Uploads`: `NothingDangles`, `SomethingIsKept`; of `AuthSessions`: `RevokedStaysRevoked`, `LimitedUntilBound`, `KeylessIsLimited`, `TypeOK` |
| `BoxchatMigrate` | `cmd/boxchat-migrate/main.go` | the import, stopped and run again under an application that is in use |
| `BoxchatMigrateProofs` | | `TypeOK`, `ImportedOnce`, `FinishedIsComplete`, `RerunChangesNothing`, `HandEditsStand` |
| `MC...` | | the instances TLC checks, one module for each model |

### CallHub

A step is one critical section of the hub lock or of a room lock, one answer of
the chat service, one statement of the store, or one notification. `pc[p]` is
where a goroutine is: a connection's own (`session.run` serves one frame at a
time) or the shutdown path (`Server`). So the order of `Hub.Join` is
`checkMember` (454-466), `resolve` (468-490), `checkPublisher` (291-306),
`discard` / `discardForget` (801-816), `register` (308-359), `createCall`,
`callStarted` (361-366), `persist` (367), and other goroutines may do anything
between two of them. `slot[r][u]` is the connection bound to the participant,
so `participants` is the domain on which it is not `None`.

Statements may fail where the run lists `storeFails` among its `Events`; the
code logs or drops such errors, and so does the model. `EndCall` is two
statements of which the second may fail alone. `DeleteChatCall` may remove the
row of a live call. `members` is what the chat service answers and changes at
any time under `membership`.

Left to other modules: server peers (`CallMedia`), and what is written to the
clients (`CallSignals`).

### CallSignals

One call that admits everybody. A connection's goroutine delivers a frame to
its targets one by one: it reads the connection bound to the participant
(`PickTarget`), passes or fills that connection's gate (`PassGate`), and writes
(`WriteFrame`), three locks and three steps. The gate shuts before `Hub.Join`
(`JoinFrame`), `call.joined` goes past it (`Joined`), the snapshot of track
maps is replayed into it (`Replay`), then it is opened (`EndGate`) and only
then flushed (`Flush`). `inbox[c]` keeps what was written, each frame with the
`Participant` it was meant for, so that frames meant for an earlier stay of the
same user can be told apart. A connection that broke is seen when its goroutine
is idle again, as in `session.run`; until then frames are still written to it.
A gate holds `MaxQueued` frames and drops the next (`Buffer`); the ghost `lossy`
remembers the connections whose gate did so in their present join, of which
`NoAnnouncementMissed` and `NobodyStranded` say nothing.

### CallMedia

One call that escalates to the server. The goroutines are the sessions (named
by their users), the handler and pump of each track, the goroutine a failed
connection starts (named by its peer), and the shutdown. `pc[x]` says which
critical section x enters next. A critical section of the room's or of a peer's
lock is one step, except two kinds that hold one lock and wait for the other:
`ensurePeer` asks a peer whether it is closed with the room locked
(`Ensure`/`Look` and `Store`/`Compare`, hub.go 547-556 and 563-580), and
`handleOffer`, `negotiate` and `addForwarded` ask the room with a peer locked
(`HandleOffer`/`Answer`, `Negotiate`/`ServerOffer`, `Forward`/`Label`). There
`roomLock` and `peerLock[p]` name the holder between the two steps, and every
other step waits for the locks it takes to be free.

A join is `Hub.Join` with what the session does next: it asks for the topology
once more when `call.joined` is out (`Activate`; `room.describe` and the
beginning of `Hub.Activate` are one step), so that a user who joined a mesh may
activate the call it has become, and a user who is in the call already and is
rebound activates it again. A user has one session goroutine here; what a
second connection does beside the first is in `CallHub` and `CallSignals`.
Broadcasts are left out, and of `allowsPublish` (sfu.go 276) there is only that
it waits for the room.

A user's track has one key whatever peer carries it (`publishKey`). A leg is
identified by its subscriber's peer, its track and the goroutine that made it,
as the code tells legs apart by pointer. The ghost `skipped` remembers that some
session joined without going through `Activate` to its end: its connection broke
before `call.joined` was written, or a server peer could not be made. Nobody
attaches what it would have, so `EveryoneHears` says nothing of the rest of such
a call. The pairs of `attachExistingPublished`
are visited in any order, of which the two nested loops over maps take some.
The signaling state of the connection is left out: an offer that collides with
one of the server is refused, which is as if it had not been sent.

### AuthSessions

A request is a goroutine of the HTTP server and a sequence of statements
without a transaction. A step is one statement with the checks on its answer,
so other requests run between two of them: between the row a refresh finds
(`RefreshFind`), the user it reads next (`RefreshUser`) and the row it writes
(`UpdateRefresh`), or between the two reads of the user when he signs in
(`LoginGate`, in the handler, and `Login`). `Fail` ends a request anywhere:
that is a refusal, a failing statement or a broken connection, and what was
written stays. `Answer` is the last step of a request, with the case that
nobody hears it.

`owner[s]` is the `user_id` of a session's row, `None` without a row. A token
is a session and the number of its secret; `current[s]` is the one
`refresh_token_hash` is of. Passwords are right: a wrong one is a `Fail`. What
matters of a hash is its kind, `hashKind[u]`, because the two ways to sign in
read one kind each. `expired` stands for the clock: a row may expire at any
time, and every write of `expires_at` undoes that. Codes and login keys are for
`EmailCodes`; here a request that needs one has it or fails.

### ChatMembers

One chat of one kind. A request reads rows of `chat_members` and then writes
one, and a step is one statement with the checks on its answer:
`UpdateMemberRole` is the read of the actor's row, `TargetRole` of the
target's, `UpdateChatMemberRole` the write. `LeaveChat` takes up to five:
`LeaveRole`, `LeaveHeir`, `LeavePromote`, `LeaveRow`. `Fail` ends a request
anywhere, which is a failing statement or a client that is gone.

None of this is safe against a request that writes on the strength of rows
changed since it read them, and the code does not claim so. `saw[x]` is what x
has read; `overtaken` is set by a write of a request for which that no longer
holds, and `broken` when a hand-over fails between its two statements. The
properties are of everything else: they say which interleavings are harmless,
and the harmful ones are exactly the overtaken. To see one, take `overtaken`
out of `OwnerKept`: TLC then shows a hand-over during which a request that has
read the heir's old role demotes him, and the chat has no owner. `BanHolds`
states who may lift a ban; the banned member of a public channel is among them,
since `UnsubscribePublicChannel` removes any row but
an owner's (688-703)
and lets him subscribe again (`Unsubscribes`).

Left out: the journal of events, notifications, titles and avatars, revoking
and deleting links. `AddMembers` names one user at a time.

### ChatMessages

One chat, of any of seven kinds, which decide who reads, posts, replies, edits
and deletes (`Member`, `MayPost`, `MayReply`, `Readable` and the guards of the
operations). A request's reads are one step and each of its writes is another;
a write marks the requests that have read what it changes (`Then`), and
`overtaken` is set when such a request writes. The transactions that check once
more do so in the model too: `UpdateMessageContent` and `SoftDeleteMessage`
find live messages only, so an edit never reaches a deleted message even when
overtaken, and `NothingComesBack` says that of texts and files without the
exception it makes for reactions and ballots.

`text[m]` and `files[m]` are the numbers of the edits they are from, which is
all that `EditWhole` needs to tell two edits apart. `own` and `latest` are the
two records `UpsertMessageStatus` keeps in valkey. It reads both and drops the
errors (64, 70), so that `Receipt` may find none where there is one, and writes
them in a pipeline that is no transaction (`ReceiptBreaksOff`). What edits and
receipts that raced leave behind is not exempt for good: `mixed` are the
messages whose last edit was stale, `lapsed` those whose receipts went astray,
and the next edit that runs alone, or the next receipt of reading, takes a
message out of them. `EditWhole` and `ReceiptsAgree` are of all the others.
`cleared[u]` is a place in the order of messages instead of a time.
`RoleChanges` stands for the requests of `ChatMembers`.

Left out: content, previews and pages, archived and pinned chats, devices and
their envelopes, events to members, the privacy of forwarded names, and
forwarding from another chat than the one posted to.

### ChatRooms

All chats of a few users. A request that looks for a chat and makes one if
there is none is two steps (`EnsureSavedChat` and `MakeSaved`, `FindDirectChat`
and `MakeDirect`, `GetOrCreateCommentThread` and `MakeThread`), and the unique
indexes of the migrations are the operators `SavedTaken`, `SlugTaken` and
`TopicTaken`. `CreateChannel` takes along the highest topic number as its
statement's snapshot has it, and `MakeTopic` reads the counter when it gets the
group's row: that is how postgres runs `allocTopicQuery` when the UPDATE waits
for another one. Deletions take the chats under a chat along (`Below`), as the
foreign keys do.

`told[u]` records the self-chats u was answered with, `clashed` a request that
lost to an index it should have won. A run begins with nothing, or with a group
as the import leaves it: a NULL or stale counter and a topic.

Left out: what a chat shows (titles, avatars, colours), permissions to send,
and the lists of chats but for the self-chat they make.

### Uploads

Attachments as rows, objects, multipart uploads in the store and sessions. A
step is one call on postgres or on the store; a call on the store may fail;
`SetProcessing` and `FinalizeSessionByAttachment`, whose errors the job drops,
may do nothing; `Crash` loses all requests and jobs. Objects are named by what
they are (original, preview, master, segments, signed). The key of an upload
ends in the file name as the client gave it (media/service.go 283), which may
be that of an object the job makes: `key[f]` says whose key the original has,
and `Put`, `Remove` and `CopyObject` act on all that is under a key. Imports
and pins clean the name. `buildAndUploadHLSCopy` passes over a file it cannot
find (preview.go 530-533) and names the copy all the same, of which `skipped`
takes note; an error of a put or of a deletion may come after it was done.
`Readable` is the check of a reader: the owner, or a member of a chat with the
token (`Posted`, `Left`).

Left out: sizes, names and types, what a preview shows, which hosts an import
accepts, the lifetime of signed addresses, `BackfillAttachmentMeta`.

### BoxchatMigrate

`--apply`: `phase` is the function of `runApply` that runs, `pos` how far it is
in its list. A transaction is one step; what is outside of a transaction
(avatars, tracks) is two, with what is carried from the one to the other in
`held`. `Stop` ends a run anywhere, `StopAmongUploads` in a transaction whose
uploads stay. `Start` reads the accounts (`known`) and begins at the first
phase. Between two steps the application changes what has been imported
(`Registers`, `SetsRole`, `EditsMessage`, `ChoosesAvatar`, `Reacts`,
`SavesTrack`, `DropsTrack`), at most `MaxEdits` times. An edit deletes the links
of a message to its files and makes those the request names (chat_repository.go
1777-1794), so that a run may end with a file that nothing links. A list of
saved tracks holds `MaxTracks`; the import uploads a track before it looks
whether it fits (`PutTracks`, `Fitting`).

Legacy tables are constants and legacy rows are named by their place in them.
`rows[i]` counts the rows made for item i and `idmap` is `legacy_id_map`, so
that `ImportedOnce` relates the two. `settled` says whether the last whole run
was disturbed: after one that was not, the next changes nothing
(`RerunChangesNothing`), but for the tracks that a full list has no room for.

Left out: invite links, room avatars and channel icons, titles and bios, topic
numbers (`ChatRooms` starts from what the import leaves), two imports at once,
chats the application deletes, the order in which the users' tracks come, a
list of tracks that does not decode (main.go 2339; both writers encode it), and
the dry run.

## 3. Runs

Every constant of a run is in its `.cfg`. Deadlock is not checked: clients may
all hang up, and the process exits.

| Run | Bounds | Shows |
|---|---|---|
| `hub_calls` | 2 users, 3 connections (2 of one user), 1 chat, 2 calls, mesh limit 1, 2 participants | `OneLiveCallPerChat`, `SlotsBacked`, `WithinLimits`, `StaleConnectionHarmless`, and that the hub implements `CallLifecycle` |
| `hub_streams` | 3 users with a connection each, 1 stream, 2 users who may publish, both roles, shutdown | `NoOrphanRoom`, `StreamDiscipline` |
| `hub_ends` | 2 users, 1 call, declines, shutdown, changing members, failing statements, deletions; fairness | `OverIsOver`, `EndIsCarriedOut` |
| `signals` | 2 users, 3 connections, 3 joins, 1 frame of a client, gates of 2 frames | `NothingBeforeJoined`, `NoAnnouncementMissed`, `NobodyStranded` |
| `media` | 2 users, one of whom offers and publishes a track, 2 peers each, leaving, and one of: a user who joins a second time, a broken connection, a failing peer, the shutdown | `NoLostPeer`, `EveryoneHears`, `ClosedPeersAreSilent` |
| `auth_sessions` | 2 users, one of them migrated, 2 sessions, 2 requests at a time, 3 tokens made for a session | `RevokedStaysRevoked`, `LimitedUntilBound`, `KeylessIsLimited` |
| `chat_members` | 3 users, 2 requests at a time, a chat of each kind with any first members | `OwnerKept`, `SoleOwner`, `BanHolds` |
| `chat_messages` | 2 users of any standing, 2 requests at a time and in all, 2 messages, a chat of each kind | `EntitledToPost`, `NothingComesBack`, `EditWhole`, `BallotStands`, `ReceiptsAgree` |
| `chat_rooms` | 2 users, 2 requests at a time and 4 in all, 5 chats, 4 topic numbers, 1 public name | `SavedAgree`, `NobodyClashes`, `TopicsAreFresh` |
| `uploads` | 2 users, 2 attachments of any kind, one at most of them uploaded or imported and the other pinned, under any of the 5 keys, 2 requests at a time beside the jobs | `NothingDangles`, `SomethingIsKept` |
| `boxchat_migrate` | 3 legacy users of 2 names, one registered and one whose name is an address, a group with a topic, a broadcast room, 2 messages, a file, an avatar, a reaction, a track and a list that holds 1, which the application may fill first, a ban; batches of 2; 3 runs, 2 changes by the application | `ImportedOnce`, `FinishedIsComplete`, `RerunChangesNothing`, `HandEditsStand` |
| `media_deadlock` | 2 users, fairness | a counterexample, see below |

`TypeOK` is an invariant of the runs of `CallHub` (`hub_calls`), `ChatMembers`,
`ChatMessages`, `ChatRooms` and `BoxchatMigrate`, where it says more than
types: what refers to something refers to what is there.

Why these bounds are enough to meet the cases: a call that replaces another
needs two rooms and a forget of the first still under way; a slot taken over
needs two connections of a user; a peer made twice needs an `Activate` and an
offer at once, so two users; the lonely rule, the last leaver and the decline
need two users; a stream with two rivals and a third who is in the room's way
needs three; a gate of two frames is full when a third is sent, so that both
sides of `Buffer` are met; a relay that races a takeover needs a sender and two
connections of the receiver; a refresh that races a revocation, or a sign-in
that races a binding, needs two requests, and a third token is one that was
made of a refreshed one; the participant limit of `hub_calls` is as many as its
users, so that it is `CallsStayWithinLimits` alone that says it holds, and the
run says so of the mesh limit; two joins of a user are a rebind, or a return. A
hand-over has a leaver and an heir, and a third who changes either's role; two
messages and two requests are a post that races whatever is done about the
first, or two requests about one; four requests about chats are two that race
and what each of them needs before (a group and a topic in it); a pin and its
source are two attachments, and the jobs run beside each other and beside two
requests, of which one may read or pin what the other uploads. Two requests
about messages make a race, or a mishap and what mends it (an unread status or
a broken pipeline, and the next receipt); that a race is mended by a third
request is in the theorems only. An import that is stopped twice and ends the
third time has done every phase in any of three runs; lists of two and three
rows in batches of two make a full batch, a short one and one that is the last.
`Rooms` bounds the calls of a run, `MaxFrames` and `MaxJoins` bound what
clients send, `MaxOps` counts requests. `StillInOrder`, the constraint of
`chat_members` and `chat_messages`, drops what follows a write of an overtaken
request (and a broken hand-over), of which the properties say nothing. In
`chat_members` it keeps links to chats where they admit somebody, and to runs
in which the invitation is unused. `Few`, of `uploads`, keeps to one attachment
that is uploaded or imported, since two such share nothing; a second one is a
copy of the first. `Rarely`, of `media`, allows one mishap in a run (a second
join, a broken connection, a failing peer or the shutdown); what two of them do
together is in the theorems only. The symmetry used (interchangeable rooms,
connections of one user, sessions, users, attachments, requests) concerns runs
without liveness properties.

**Fairness** (`FairSpec` of `CallHub`): a goroutine inside an operation goes
on. Locks are held for a bounded time, statements run under five-second
contexts, the chat service answers. Nothing is assumed of clients: they need
not hang up, leave or send anything. If the process exits, nothing more
happens, and `EndIsCarriedOut` says so.

**What disagrees.** Where the code does something else than its own comments
and documents say. `media_deadlock` is a run that ends in its counterexample;
for the others the property is in the module and the last column says how TLC
shows it.

| Property | In short | Run |
|---|---|---|
| `OffersAreAnswered` (`CallMedia`) | room lock then peer lock against peer lock then room lock: two sessions wait for each other | `media_deadlock` |
| `NoOrphansPileUp` (`BoxchatMigrate`) | `applyMusicAndBans` uploads a track, under a new key, before it looks whether the list is full (main.go 2361-2369): what a full list has no room for is uploaded again by every run, against "else tracks duplicate on every --apply and orphan MinIO objects pile up" (main.go 2347) | `boxchat_migrate` with it as a property |
| `NoPhantomEnd` (`CallHub`) | the creator announces the call outside the lock, so its end can be told without, or before, its start | `hub_calls` with it as an invariant |
| `ClosedCallsAreRecorded` (`CallHub`) | a row written by a join that the end overtook stays open | `hub_calls` with it as an invariant |
| `DeclineSparesLiveCalls` (`CallHub`) | Decline counts, unlocks and ends | `hub_calls` with it as a property, `Users = {u1, u2, u3}`, `UserOf <- ThreeUsers`, `MaxParticipants = 3`, `Events = {"decline"}` |
| `LabelsSettle` (`CallSignals`) | the replay, or the flush of the gate, is overtaken by a newer map | `signals` with it as an invariant, `Conns = {c1, c3}`, `UserOf <- TwoConns`, `Kinds = {"tracks"}`, `MaxFrames = 2`, `MaxQueued = 4` |
| `RegularUsersUseBcrypt` (`AuthPromises`) | a migrated user who bound his address keeps a scrypt hash, which `Login` and `ChangePassword` read as bcrypt: his password is refused from then on | `auth_sessions` with it as an invariant |
| `NewReactionsStand` (`BoxchatMigrate`) | `applyReactions` gives a reaction made since the import the time of its message, if it is by a user and on a message that had an imported one | `boxchat_migrate` with it as a property, `MaxRuns = 2`, `MaxEdits = 1` |

Found by reading, while these were written, and visible in an action rather
than in a property:

- `DeleteChatForEveryone` is asked of direct chats and ends in a statement that
  deletes groups and channels: it never deletes (`ChatRooms`).
- Two direct chats of the same two users, or two threads of one post, of which
  the later takes the post and the earlier is left to itself, come of two
  requests at once (`MakeDirect`, `MakeThread`): no index stands in the way.
- `UpdateChat` decides on visibility and name from a row it has read: two of
  them can leave a public channel without a name (`WriteChat`).
- `CreatePoll` posts the message before it stores the poll, and nothing takes
  the message back if the second statement fails (`PollRow`).
- Clearing a history at the same time on two devices can move its beginning
  back (`SetChatHistoryCleared`).
- In a standalone channel whoever is not banned or muted reacts, whether he is
  a member or not (`ToggleMessageReaction`).
- `CompleteSession` starts the job and then marks the session: a job that is
  done first leaves the session of a video "processing"
  (`MarkSessionFinalized`).
- `minio/client.go` 139 says "object keys are immutable"; `signed.m3u8` is one
  key written anew by every reader (`PresignHLSPlaybackManifest`).
- `MIGRATE_BOXCHAT.md` step 4 says `chat_members` use `DO NOTHING`;
  `applyMembers` is `DO UPDATE` (main.go 1677), and takes roles given since the
  import back (`ApplyMembers`). `HandEditsStand` is therefore of topics only.
- `applyAvatars` looks whether an avatar was imported and not whether the user
  has chosen one of his own, and a run that stops between upload and UPDATE
  leaves an object, against "no orphan objects" (main.go 2050; `PutAvatar`,
  `NameAvatar`).
- `applyMusicAndBans` reads a list of tracks and writes it back: a track saved
  in between is lost (`PutTracks`, `WriteTracks`). Its `track` (main.go 2315)
  has no `attachmentId`, which the service's has (auth/service.go 60-75): the
  tracks users saved themselves lose it.
- A video uploaded as `hls/master.m3u8`, with originals deleted after their HLS
  copies are made, loses the playlist its row names (`DropOriginal`); one with
  the name of a segment, or of `preview/tiny.jpg`, is overwritten by it.
- A segment that `buildAndUploadHLSCopy` cannot find is missing from the copy
  that the row names, and the original may be deleted all the same
  (`UploadSegments`, `skipped`).
- A receipt of delivery takes one of reading back if its `HGet` fails, and the
  status shown to the author with it (`StatusToWrite`, `ReceiptWrite`).
- A banned subscriber of a public channel unsubscribes and subscribes again
  (`UnsubscribePublicChannel`, service_chat_management.go 688-703).
- `AcceptInvite` consumes the token before it checks whom it is for.

`media_deadlock` is a run with fairness (`FairSpec` of `CallMedia`): every
goroutine that can take a step does, and the counterexample is a state in which
two of them cannot. The same states are reached in `media`, where they are
never quiet; its properties say something of all the executions that do not end
there. `EveryoneHears` is stated of a user's first peer and first track. Of
later ones it does not hold: the tidying up of an earlier peer
(`removeRoutesFor`, `detachPublisher`) goes by user and by key and may hit the
legs of the later one.

## 4. Proofs

Every theorem is of all executions and for every value of the constants that
the named assumptions admit: any users, connections, rows and requests, any
number of them. Each was a formula that TLC found no counterexample to first,
and so was each inductive invariant below.

`CallHubProofs` proves that `TypeOK` is an invariant of `CallHub!Spec`: one
lemma per action, under `ConstantsAssumption`. It also proves
`OneLiveCallPerChat`, which is not inductive: a goroutine at `forget` that held
an open room in its hands could unregister the live call. `RegistryInv` adds
what excludes it. A goroutine that is past closing (about to unregister, to
stamp rows or to tell the end) has a target that is closed, and closed is
final; a goroutine at work has a target; and a room that exists has a chat. The
argument for each action: whoever unregisters does so for a closed room, and
only if the chat's entry names that room, so the entry of an open room stays; a
new room is entered for a chat only when the entry names no open room.

It goes on from there, in three layers.

- `SeatsInv`, of who sits where: a slot is backed (`SlotsBacked`), only an open
  room has participants, a connection that is in a call waits for its next
  frame (`SeatedIdle`), and one that goes down joins nothing any more
  (`DyingGo`). Without the last two a connection could take a second slot while
  it holds one, or one that nobody will give back. `EverySlotIsBacked` and
  `StaleConnectionsAreHarmless` follow.
- `RoomsInv`, of the rooms: whoever was let past the lobby of a room is vouched
  for, an empty open room has its founder or its discarder at work, and the
  limits. `CallsStayWithinLimits`, `StreamsKeepDiscipline` and
  `NoRoomIsOrphaned` follow. A limit holds because `Join` counts, escalates and
  takes the slot in one critical section; what has to be proved is that nobody
  else adds a participant.
- `TellingInv`, of ends: a room has one goroutine that closes it, and until that
  one has told the end nobody has (`OneCloser`, `NotYetTold`); a room has one
  founder, and the founder announces (`OneFounder`, `MakersAnnounce`). Hence
  `OverStaysOver`, and `HubImplementsLifecycle`: each step of the hub is a step
  of `CallLifecycle` or leaves it as it is, under the mapping of `CallHub`. The
  interesting steps are those that close a room: the room that was open has its
  participants dropped in the same step, and whoever tells the end later is the
  one who closed it. The refinement is of safety; `EndIsCarriedOut` says the
  rest and is model-checked.

`CallSignalsProofs` proves the properties of `signals`, of `CallSignals!Spec`,
for any users, connections, joins and capacity of the gates. None of them is
inductive, and neither is any statement about one connection: what a goroutine
is about to send depends on where the receiver's is. The invariant has three
layers, each of which uses the one before.

- `PlaceInv` says who is where. A gate is shut exactly while its goroutine
  joins, holds frames only then, and the batch is there only while `endGate`
  writes it. A participant's connection (`Bound`) is in the room for him, or is
  about to be, or is being unbound, or the call is over. Because `Register`
  gives a new `Participant` to each join it must also be shown that there is one
  left: `JoinsCounted` counts the Participants made and the goroutines about to
  make one, and this is no more than the joins begun.
- `ExpectedInv`, for `NothingBeforeJoined`: whoever is about to write a frame
  for p to c, the gate, the batch or a sender who has passed the gate, does so
  to a connection that has the `joined` of p, is dead, or, if the frame is in
  the gate, will be given it first (`Expected`). The delicate place is
  `PassGate`: the sender has read the connection in one step and looks at the
  gate in another, and in between the connection may have been taken over, have
  left or have come back. `Stands` is what makes it hold: who was welcomed as p
  stays so, also when the connection serves another Participant by then.
- `MapsOnTheirWay` and `EndsOnTheirWay`, for the other two: the map that stands,
  and the end of a closed call, are in the inbox of each participant's
  connection, or in its gate, or in the batch being flushed, or in the snapshot
  its goroutine has yet to replay, or with a goroutine that has yet to send it
  to him (`OnItsWay`). A step of sending moves it from one of these places to
  the next (`SendKeeps`), a join from the snapshot to the gate to the inbox
  (`JoinKeeps`); the only way out is a full gate, which makes the connection
  `lossy`. When all is quiet all places but the inbox are empty
  (`QuietArrived`). The new maps are those of `SetTrackSources`, which stores
  the map and takes its receivers in one critical section, and a new
  participant is one whose snapshot was taken in the section that made him one.

The variants that break these are the mutants of `signals`: a reply written
after the gate was opened breaks `ExpectedInv` at `Joined`, a snapshot not
taken breaks `MapsOnTheirWay` at `Register`, and a batch that is not written
breaks `EndsOnTheirWay` at `Flush`.

`CallMediaProofs` proves `ClosedPeersAreSilent` of `CallMedia!Spec`. By itself
it is not inductive: a goroutine that found a peer open and has yet to add its
leg would add it to a closed one. `SilenceInv` adds `LockInv`: whoever works on
a peer between two steps (`WorksOn`) holds that peer's lock, and the peer is
open. It is kept because a peer is closed, and its lock given to somebody else,
only when nobody holds it; this is stated once (`OthersKeepLocks`), so that for
each action only the goroutine that moves is looked at. The assumption that a
goroutine is not `None` nor the `Server` by another name is `ProcsAssumption`.
The variant `ForwardUnlocked`, which unlocks the peer between the two steps,
breaks the proof at `ForwardStep` and the property in `media`.

`NoLostPeer`, in the same module, is not inductive either: between two steps a
peer may be known to nobody but the goroutine that made it, or the one that has
taken it out of the room to close it, and `dropPeerCaches` forgets peers that
nobody closes. `KeptInv` says where an open peer can be (`NothingLost`): in the
room (`InRoom`), in the hands of a goroutine (`InHand`), or in a call that is
over or about to be ended by somebody (`Dooms`), which is the only time the
caches are dropped with peers in them. Its other half, `InPlace`, is what a
goroutine relies on where it is: at `look` and `compare` it holds the room's
lock and its user has not left, so that the peer it puts into the room is not
put there after the user was swept out. What is in place for one goroutine is
not disturbed by another, again because of the lock (`BystanderKeeps`).

`EveryoneHears`, the last theorem of that module, cannot be argued from a lock:
a track is listed and its peers are looked up in two critical sections, a peer
stored and the tracks looked up in two others, and the legs are added one by
one long after. Its invariant is a promise (`PromiseInv`): whoever is to hear a
track (`Hears`) has a leg of it, or some goroutine is on its way to add one
(`Brings`) - the track's handler if the peer was there when it looked, or an
activation that has yet to look. That the second always finds a goroutine needs
`AwaitInv`: a participant without a peer is waited for by an activation, so
that also a peer made by `PeerFor`, which attaches nothing, comes before one
that does. Who begins to hear a track is promised it (`Promises`,
`StoringPromises`, `TrackPromises`), and what a step was to bring is there or
still to come (`Delivers`).

The other half of the proof is that nothing else takes a promised leg away.
Legs go by key and routes by user, so that this holds only of a first track and
of first peers: `TracksInv` says that a user's tracks follow each other,
`FreshInv` that a peer is known to nobody before it is stored, which gives that
a first track that plays is the only one of its key (`OnlyTrack`), and
`ClosersInv` whose peers a goroutine closes, so that `removeRoutesFor` spares
the routes of those who stay (`SweepSpares`). `LegsInv` and `RoutesInv` relate
the legs of the peers to the routing table, and give the "exactly one"
(`OneLeg`). Each invariant has a lemma per group of actions (`EnsuringFresh`,
`ClosingRoutes`, ...), put together in `HearNext`. `ProcsAssumption` also has
that a user is not a track or a peer by another name.

`AccountProofs` proves things of two modules. `AuthSessions` is there as `Auth`,
an instance with requests of its own, and `AccountsAssumption` is a hypothesis
of its theorems. They are `TypeOK` and all properties of `auth_sessions`, from
`AuthInv`. `LimitedUntilBound` needs `PromisesKept`: a request that is
about to hand out a token without the claim has a user who is not unverified,
and stays so because nothing marks a user again. `KeylessIsLimited` needs
`KeyInv`: a request let past the login key has a user whose password is a
scrypt hash, so that if he is bound before `Login` reads him, the bcrypt
comparison refuses him. The two-reads race is thus harmless only because
binding keeps the scrypt hash; a repair of that (see `RegularUsersUseBcrypt`)
that converts the hash when binding (`BindAndConvert`) breaks it, unless it
also settles who needs a login key once. `RevokedStaysRevoked` is an action
property: only `CreateSession` makes rows, of ids never used before (a new
UUID), and a refresh only writes a row that is there.

`ChatMembersProofs` proves the properties of `ChatMembers!Spec`. `OwnerKept`
alone is not inductive: a request at `RemoveChatMember` could be about the
owner. `PathInv` says of every place in a request whose rows it has read and
what they said: who is about to demote or remove has read a row that is not an
owner's; a leaver at his last statement who was the owner has an heir whose row
he knows to be an owner's. So a write that takes the last owner away
contradicts what its request has read, which is `Stale`, and sets `overtaken`
(`WriteKeepsOwners`). The variant `HeirsOrSelf`, where the leaver may inherit,
breaks `whom[x] # me[x]`. `SoleOwner` counts: owners are at most one more than
hand-overs between their two statements. `CountInv` adds that both can be
counted, and the proof follows the two numbers through each statement: the
second of a hand-over takes away the owner that the first had made one too
many. `BanHolds` needs `RecallInv`: a request that would write a member's row
and is not entitled to lift a ban has read a row without one, so that a ban in
between makes it `Stale`. What is left are those who managed roles or members
when they asked, the end of the chat, and the one write of one's own row that
is refused to owners only, which is unsubscribing.

`ChatMessagesProofs` proves the properties of `ChatMessages!Spec` from
`MessagesInv`. The code reads a message, a member or a poll in one statement
and writes in another, with no transaction around them, so that no property
could be inductive without a word on what was read. `FreshOrStale` is that
word: for each place of a request, what it has read and its write relies on
still holds, or the request is stale. `AllPlaced` says what a request that goes
on to write is about: a message that was posted, and a user. `TypesInv` is
these places with `TypeOK`, and `ClearedPosted` that only posted messages are
cleared. A write by a stale request sets `overtaken`, of which
`EntitledToPost`, `BallotStands` and the reactions and ballots of
`NothingComesBack` make an exception; the proofs show that there is no other
way to violate them. `EditWhole` and `ReceiptsAgree` make none: an edit that is
not stale has seen every file of the message, so that it leaves its own and
takes the message out of `mixed`, whatever was mixed before; a whole receipt of
reading writes the highest status there is into both records, whatever it
found. One lemma for each statement says what it keeps.

`ChatRoomsProofs` proves the properties of `ChatRooms!Spec` in three layers.
`RoomsInv` is types and shapes: what has a parent and of which kind
(`DepthByKind`), seats and threads in chats that are there. The depth is what
makes deletion whole: the model's cascade takes a chat, its topics and the
threads of either, and since nothing lies deeper nothing is left over
(`NothingOutlivesItsChat`). `SavedInv` adds `OneSelfChat`: a self-chat is found
by owner and role, so that the answers of two requests agree because there is
never a second one to find. `NumbersInv` adds `SnapshotOrCounter`: a request
that has read the largest topic number knows that every topic of the group is
at or below what it read, or below the group's counter. It is what a legacy
group needs whose counter is NULL: the first request to number a topic sets it
from its snapshot, and a second request with an older snapshot meets the
counter and takes that. `NobodyClashes` and `TopicsAreFresh` follow. Without
the maximum in `nextTopicNumber` it does not hold, and TLC finds the clash.

The same module proves `NothingDangles` and `SomethingIsKept` of
`Uploads!Spec`, from `KeptInv`. A request that has drawn an id has it to itself
until its row is there (`DrawnAlone`), and has stored the object before the row
(`ObjectFirst`); a job works on attachments that were uploaded or imported and
at each of its places has stored what it will say or will do without
(`JobIsOnTrack`), but for files it passed over. The puts and deletions under a
shared key are what the names are needed for: only an upload has a name of the
client's (`NamesAreChosen`), the store puts it together before the job begins
and the job runs once (`JobRunsOnce`), so that an original put late cannot take
away what a row names, and the deletion of an original takes only what shares
its key. A crash forgets requests and jobs and keeps rows and objects, so that
it can only take conditions away.

`BoxchatMigrateProofs` proves the five properties of the import. `MigrateInv` is
`Ledger` (what has a row is in `idmap`, once) and `TextsImported` (only
imported messages have a text). The first is kept because every phase that
makes rows leaves out what `idmap` has (`CreateKeepsLedger`); the second is
what keeps `ApplyMessages` away from a text that was edited. That topics keep
their roles needs no invariant: the rooms `applyMembers` writes to are not
topics, and `TopicRole` lets a role stand. `TypesInv`, for `TypeOK`, says which
rows the places of the run are at, and needs `LegacyAssumption`: in the legacy
tables a message's author and room, a topic's room and so on are rows of those
tables, and a file belongs to a message. `CompleteInv`, for
`FinishedIsComplete`, says that what is before the present phase, and before
the cursor in it, has been brought over: a run begins at the first phase with
nothing brought over in its own name, so a run that stops proves nothing and
one that ends proves all. Of a file it says that it is imported, and linked and
named by its message unless the message was edited since; an edit is the only
step that takes a link away.

`RerunChangesNothing` is proved of legacy data of which `OneRoleForASeat`
holds. Without that it is false: of two rows for one seat with two roles (two
legacy users of one name, in one room), in batches of their own, a run after a
whole run writes the first role over the second and then the second over the
first, as `applyMembers` is `DO UPDATE`. The end is the same, the steps are
not. `MCBoxchatMigrate` assumes it too, so that TLC evaluates it on the data of
the run. The invariant is `SettledInv`, in three parts:

- `Quiet`: in a run that nobody disturbed, what each phase has passed is not
  merely there, as in `CompleteInv`, but as the phase would leave it: the very
  role of the row, the link and the token of the file, the upload behind the
  avatar, and of a list of tracks that it has all of them or is full
  (`Served`). It begins empty with every `Start`, and a change by the
  application or a failed upload ends it.
- `Steady`: nothing is left to do for any phase. `Quiet` and `CompleteInv` give
  it at `Finish`, and each phase with nothing to do writes nothing, so that it
  stays whatever later runs do and wherever they stop.
- `Carried`: the statements outside a transaction name what is held from the
  one before. A list of tracks only grows, and not when it is full (`Grown`):
  what is held is the list and nothing else once all is steady; of the avatars
  nothing is held any more. That the avatars are counted off one by one is
  `RankThere`.

Model-checked only:

- `EndIsCarriedOut` and `OffersAreAnswered`: liveness is out of the prover's
  reach.

## 5. Plan

In this order, each module with its run, and each one written so that it can be
proved about (no recursion, invariants as conjunctions of named parts):

1. `EmailCodes`, with the login keys and the codes of the binding and of the
   change of an address: an abstract proof of an address (asked, proven, used)
   and its statements; a proof is used once, and of the address it was for.
   Then the composition with `AuthSessions`.
2. `Presence`: several connections of one user, keys with a TTL.
3. `Negotiation`: the signaling state of one server peer, its offers, answers
   and candidates against a client that reconnects.
4. One-time prekeys; folder invitations.

## 6. Not modelled

Email codes, presence, the signaling state of a peer and the key store are in
the plan. Not meant to be: parsing, formatting and HTTP error mapping; SDP and
RTP; reads that change nothing; what previews and transcoding compute;
`backfill-media-meta` and the clean-up script, one statement per row;
single-row services (settings, privacy, blocks, reports, search, profile
photos, folders); translation, mail and GIF providers. Their state is data of
one owner, written by single statements: there is no protocol to check.
