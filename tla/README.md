# Secrum server: a verification project

TLA+ models of the secrum messaging server, the TLC runs that check them on
small instances, and TLAPS proofs for every instance. Paths below are relative
to `src/internal/` unless they say otherwise.

The server is a Go process in front of PostgreSQL and redis. HTTP handlers and
WebSocket handlers run as goroutines. They share one in-memory structure, the
*hub*, and one database. Almost nothing is done in a transaction that spans two
statements, so what the models are about is what happens *between* statements:
other requests, errors, restarts, broken connections.

Run a model: `tlc -config DeliveryHub.cfg MCDeliveryHub`. Check the proofs of a
module: `tlapm DeliveryHubProofs.tla`; section 4 lists the others. `PROJECT.json`
lists the runs, the source lines of every definition, the hazards, the findings,
and for each property a fault of the code that it notices.

## 1. Inventory

### 1.1 Realtime hub and connections - `real_time/hub.go`, `adapters/http/ws.go`

*State.* `devices` (deviceID to connection), `userIdx` (userID to the list of its
devices), `groupIdx` (groupID to the list of its members), one `sync.RWMutex`. Each
connection has a channel of 32 events, a handler goroutine (which turns into the
reader) and a writer goroutine.

*Operations.* `Register`, `Unregister`, `PushToDevice`, `PushToUser`,
`PushToGroup`, `Broadcast`, `SetGroupMembers`; connect, announce the status, initial
sync, read frames, write events, heartbeat, deferred tear-down.

*Interacts with.* Message delivery pushes events to devices; the group service sets
member lists; the reader acknowledges messages and forwards typing events; a
connection marks its user present.

*Hard.* `Broadcast` takes the read lock twice. A push may meet a channel that was
just closed. Two connections of one device overlap whenever a client reconnects
before the server saw that its old socket is dead. Deferred calls run in the reverse
order, also in a panic.

*Correct when.* The indexes agree; a push reaches a live connection; the list of a
user does not grow with reconnections; what was begun on the hub ends.

### 1.2 Message delivery - `app/messages/service.go`, `adapters/postgres/message_repo_pg.go`

*State.* The `messages` table: one row for each recipient device, with
`delivered_at` and `read_at`.

*Operations.* Send to a user, forward, send to a group, fetch the pending page,
acknowledge (delivered and read), with receipts to the sender; history, search,
edit, delete, react, pin.

*Interacts with.* The devices table (which devices a user has), the hub, the sync
log, the chat list.

*Hard.* A send is a loop of insert, push, append for each device, that can stop
anywhere; a group send is a batch; acknowledgements are repeated, and come from the
socket and from HTTP; pushes are dropped without notice, so that fetching has to
make up for them. Reactions and pins are announced before they are made, edits and
deletions after. A page of history begins where the last one ended, by time.

*Correct when.* Nothing is announced that is not stored; a success means that every
device has its row; receipts are true; a message waits until it is acknowledged and
then never returns; a mailbox larger than a page can be emptied; the log tells what
the row holds; a reader who pages back sees every message.

### 1.3 Sync log - `app/sync/service.go`, `adapters/postgres/sync_event_repo_pg.go`

*State.* `sync_events`, with a BIGSERIAL id that is also the clients' cursor.

*Operations.* `Append`, `ListSince`, `GetLastID`; full sync, delta sync.

*Interacts with.* The chat list, which is what a full sync shows: for each peer the last
message by `created_at`, and how many are unread.

*Hard.* Ids are drawn in one order and committed in another; a full sync takes two
statements, and its cursor covers events of which its list shows the fewest; pages.

*Correct when.* A client that follows its cursor misses nothing; what a full sync passes
by is no message, or not the last of its chat.

### 1.4 One-time codes - `adapters/redis/otp_store.go`

*State.* A redis hash for each challenge, with a counter and five minutes to live.

*Operations.* `SaveChallenge`, `VerifyAndConsume`, five redis commands in all on one
verification's longest way.

*Hard.* Every command is a step of its own, the key may expire between any two of
them, and HINCRBY creates a key that is not there.

*Correct when.* A code is guessed at most three times and accepted at most once; a
right code is refused only for a cause.

### 1.5 Sessions and devices - `app/auth/service.go`, `app/devices/service.go`, `adapters/http/middleware.go`, `adapters/postgres/device_repo_pg.go`

*State.* The `devices` table (owner, `is_active`, `refresh_token_hash`), revocation
keys in redis, tokens that clients hold.

*Operations.* Registration after its code was accepted, refresh, the middleware,
deactivate, delete.

*Hard.* The row is read by one statement and written by a later one; a device is shut
out in two stores; tokens carry whole seconds.

*Correct when.* A device that is out stays out; a replaced token is not accepted
again; tokens name the owner of the device.

### 1.6 Groups - `app/groups/service.go`, `adapters/postgres/group_member_repo_pg.go`, `adapters/http/groups.go`

*State.* `groups`, `group_members`, and the hub's copy of each member list.

*Operations.* Create with optional members, add, remove, check the membership before
reading the history.

*Hard.* The check that a user is not a member precedes an upsert; the list is read
and handed to the hub later; the hub's copy is lost with the process.

*Correct when.* One owner, kept for ever; the hub pushes to members only, and knows
them all.

### 1.7 Pre-keys - `app/keys/service.go`, `adapters/postgres/otpk_repo_pg.go`

*State.* The table of one-time keys with `used_at`, and the identity and signed keys in
the row of a device. *Operations.* Upload (replace the row's keys, insert a batch);
bundle (list the devices, take one key of each with FOR UPDATE SKIP LOCKED).

*Hard.* Bundles overlap each other and uploads; a bundle that fails at the second
device has used up a key of the first. *Correct when.* A key is given once; `used_at`
says what became of it; a key is not newer than its device's row.

### 1.8 Presence - `presence/presence.go`, `adapters/http/ws.go`

*State.* One redis key for each user, with a minute to live. *Operations.* Set by every
handler of a connection, refreshed by its writer, deleted when it leaves.

*Hard.* The key is the user's, the handlers are the devices'; handler and writer write
one socket. *Correct when.* The key says whether the user is connected.

### 1.9 Attachments - `app/attachments/service.go`, `adapters/storage/local_storage.go`

*State.* Files and their rows. *Operations.* Upload: a goroutine reads the body,
feeds a pipe and hashes; the handler writes the file and inserts the row. Download.

*Hard.* Two goroutines make the file and its hash; either may stop without the other.
*Correct when.* The row tells of the file; the limit holds; no goroutine stays behind.

### 1.10 Profile, chats, contacts - `app/profile`, `app/chats`, `app/contact`

*State.* A row of `users`, a row for each chat with three flags, a row for each
contact. *Operations.* Read, change and write the profile; set a flag; add and import
contacts. (The handler of a flag swaps the two users, and that of a removal reads a
parameter that its route does not have: see 5.)

*Hard.* The profile is written back whole by requests of several devices; the flags of
a row come in one at a time and share it. *Correct when.* What was acknowledged is not undone by somebody else.

### 1.11 Phone numbers - `app/auth/service.go`, `app/users/search.go`

*State.* The hash of the number a user registered with. *Operations.* Write a number
in its stored form; search by id, nickname or number.

*Hard.* Registration and search each have rules for what people type, and the search
tries several forms in the order of a map. *Correct when.* One number is one user,
and leads to that user.

### 1.12 The rest

Start-up, configuration and logging are wiring. Of the migrations, 013 and 014 name
the columns of `group_members` differently; the code matches 013.

## 2. Modules

| module | models | extends |
|---|---|---|
| `DeliveryHub` | 1.1 | |
| `DeliveryHubProofs` | theorems about `DeliveryHub` | `DeliveryHub`, TLAPS |
| `Mailbox` | the abstract promise of the message store | |
| `MessageDelivery` | 1.2 over the table, the hub's push and the log | instantiates `Mailbox` |
| `MessageDeliveryProofs` | theorems about `MessageDelivery` | `MessageDelivery`, TLAPS |
| `SyncLog`, `SyncLogProofs` | 1.3 | the proofs: `SyncLog`, TLAPS |
| `OtpStore`, `OtpStoreProofs` | 1.4 | the proofs: `OtpStore`, TLAPS |
| `Sessions`, `SessionsProofs` | 1.5 | the proofs: `Sessions`, TLAPS |
| `Groups`, `GroupsProofs` | 1.6 with the hub's `groupIdx` | the proofs: `Groups`, TLAPS |
| `MessageMarks`, `MessageMarksProofs` | edits, deletions, reactions and pins of 1.2 | the proofs: `MessageMarks`, TLAPS |
| `History` | reading back, of 1.2 | |
| `PreKeys` | 1.7 | |
| `Presence` | 1.8 and the writes to a socket, of 1.1 | |
| `Attachments` | 1.9 | |
| `UserRecords` | 1.10 | |
| `UserSearch` | 1.11 | |
| `MCServices` | chooses one of the last seven components | `MessageMarks`; instantiates the others |
| `ServicesProofs` | theorems about `MCServices` and what it instantiates | `MCServices`, `MessageMarksProofs`, TLAPS |
| other `MC...` | values of constants for TLC | the module of the same name |

In each module, next to an operator that models code there may be one or more
*faulty variants* of it, with a comment that says what is wrong with them. No
specification uses them: put in the place of the operator they follow, they make a
property fail, which shows that the property depends on that code.

### 2.1 DeliveryHub

A handler is a program counter: `connect, register, greet, announce, sync, serve,
leave, farewell, close, unregister, gone`, the order of the code of `wsHandler`
with its defers run backwards. HTTP handlers (`Callers`) use the hub once: they push
to a device or set a member list.

The mutex is modelled by what the properties need: a call of `Lock` announces
itself (`writerWaiting`) and is granted once `readers` is empty; `RLock` is granted
unless a writer waits, as `sync.RWMutex` documents. A section that cannot block
while it holds the lock is one action. `Broadcast` can: it holds the read lock and
calls `PushToDevice`, which takes it again. So `BroadcastBegin`, `BroadcastStep` for
each device and `BroadcastEnd` are separate, and `readers` holds only those.

`writerWaiting` names one process; that further writers queue behind it changes
nothing, since they would only be granted after it.

A send on a closed channel panics. In `PushToDevice` the unlock is deferred, so the
handler unwinds through its own defers (`PushPanic`); in `Broadcast` it is not, so
the outer read lock stays with a handler that is gone (`BroadcastPanic` keeps `c` in
`readers`).

Abstractions: a channel is the number of events in it, a device list counts how
often a device is in it, a member list is a set. A `LinkBreaks` at any time stands
for every way a socket fails.

### 2.2 MessageDelivery and Mailbox

A request is a record that says which statement comes next. `Save` is the insert of
one device's message, `Push` and `AppendEvent` announce it, `GoOn` is the end of the
loop body. `SendGroup`, `GatherMember`, `SaveMany` are a group send: members are
looked up one after the other, the sender's own user among them, and the batch is one step, since pgx sends a batch as
one implicit transaction. `Ack`, `MarkDelivered`, `MarkRead`, `LoadAcked` and the same
two announcing steps are an acknowledgement. Every statement may fail, and a failing
insert may have been committed nevertheless; a push may be dropped or panic;
`Restart` loses requests and queued events and keeps the table.

`Mailbox` is the abstraction: each device has a set of messages to acknowledge and a
set of acknowledged ones; messages appear, and are taken by their own device, in any
number at once. `MessageDelivery` implements it by `box = Pending(d)`.

Clients acknowledge messages they received (by push or by fetch). The server does
not check that; a client that acknowledges what it never received is not modelled.

### 2.3 SyncLog

A change is a message of a chat (`ChatOf`, its two users) or something that adds no
row to the messages (`ChatOf[c] = {}`): a receipt, an edit, a deletion, a reaction, a
pin, a change of a group. `SaveChange` inserts the row of a message, whose `created_at`
(`Made`) was drawn before, so that rows come in any order of their times. `Append` draws
an id, after that insert if there is one; `Commit` makes the event visible,
`AppendFails` leaves a gap. When the update behind an edit or a reaction is made does
not matter here, since no list shows it; MessageMarks is about that order.

A full sync is `ListChats` then `ReadCursor`, a delta sync is `Delta`. The list shows one
message for each chat the user has a message in: the last, any of those with the same
time. A client that begins a full sync starts over: `known` is what the list shows. The
text of a message that was edited is shown as it is, but not that it was edited, so
the edit counts as not shown; the count of the unread messages names none of them.

The variables `late`, `before`, `window` and `passed` are history, and change nothing
else: which events committed behind a larger id; which were there when the list was
read, and which came between the two reads; and which the list need not show
(`NeedNotShow`: no message, or not the one last of its chat), which is said without a
look at what it shows.

### 2.4 OtpStore

One action for each redis command: `HSet`, `SetTTL`; `Exists`, `HIncrBy`, `HGetAll`,
`Delete`. `Expire` happens at any time. A failing command may have taken effect
(`SaveFails`, `VerifyFails`). `fields` tells a challenge from the bare counter that
HINCRBY makes of a key that is gone.

### 2.5 Sessions

One action for each statement. A refresh token is its claims, so that two tokens made
for a device within a second are one (`adapters/jwt`: whole seconds, no id). `hash`
is the column: `Empty` in a new row, `Null` after Deactivate, which makes the row
unreadable (`GetById` scans it into a string). A call records when it begins whether
its device was out already or its token spent already (`late`).

Tokens do not expire in the model: expiry only refuses more. The WebSocket handler
validates the access token itself and does not ask whether the device is active; it
is part of DeliveryHub, not of this module. Logout and the upload of keys are
registered outside the middleware and look for a device id which only the middleware
sets: they always answer 401 and change nothing.

### 2.6 Groups

One action for each statement of `CreateGroup`, `AddMember` and `RemoveMember`, and
`SetGroupMembers` for the hub. No handler makes an admin and none makes a row
inactive (removing does not work), so a row is a role. `overlap` and `blurred` are
history: a group is blurred when the last update of the hub overlapped another call
on the group, could not read the table, or came before a restart.

### 2.7 MessageMarks

A request is one update and one append to the user's own log, in the order of the code:
`TellMark` then `WriteMark` for a reaction or a pin, `WriteChange` then `TellChange` for
an edit or a deletion. A failing update may have taken effect; a failing append of a
mark is ignored and the update goes on. A mark is a user's entry in the `reactions`
object or the `pinned_by` array. `disturbed` and `clean` are history: which marks had
two requests at once, or one that failed.

Each statement names one id, and a message has a row for each recipient device: an
edit, a deletion or a mark reaches the copy of one device only. This is why `Msgs`
are rows and not messages.

### 2.8 History

`Selected` is the condition of the statement as PostgreSQL reads it: in the chat's, the
bound on the time belongs to the second direction only. `Pages` are the results ORDER
BY and LIMIT allow, rows of one time in any order. The client asks for the page before
the last row it was given and stops at a page that is not full. Rows are stored
meanwhile, with any `created_at`, since the clock is read before the insert. `owing`
and `ties` are history.

### 2.9 PreKeys

An upload is `BeginUpload`, `UpdateKeys`, `InsertKeys`; a bundle is `ListDevices`, then for each
device, in any order, `SelectKey` (which locks a row) or `NoKeyLeft`, `MarkUsed` (the
commit), and `Answer`. `BundleFails` rolls back, or hides a commit. The module is about
the service: over HTTP an upload never gets there (see 5).

### 2.10 Presence

The handler is at `mark, greet, sync, serve, pong, offline, farewell, unwind, gone`; the
writer is waiting or writing. `Tick` is half a minute: it ages the key and makes the
heartbeat of every writer due; one that can run does so before the next tick. A write
that meets another on the socket (`WritesCollide`) panics, in the handler, or in the
writer, where nobody recovers and the process ends. `why` and `owed` are history: what
may have taken the key away, and whether a handler left without deleting it.

### 2.11 Attachments

A body is a number of units. The feeder reads one, hands it over (`TakeUnit` is the
rendezvous of the pipe) and hashes it; the handler writes it. The limit lets one unit
more through than is allowed, and nobody looks whether it was used. A body that breaks
closes the pipe as its end does.

### 2.12 UserRecords

One function from fields to values stands for the three tables. `LoadProfile` and
`UpdateProfile` are two steps, everything else is one; the import of an address book is a
loop of `SyncOne`. `told` is history: what was last told of a field, and `None` where an
overlap or a failure may have changed it since.

The flags are those of the user's own row of a chat. Since the handler swaps its two
ids, this row is written by the requests of his peer, who is told of it, and the
user's own requests write the peer's row, which is another instance of the same. There
is no removal of a contact, since every one is answered 400.

### 2.13 UserSearch

Numbers are sequences of symbols. `DigitsOf` is what is left of one when all but the
digits is taken out: the k-th of them is the one with k digits up to and including it
(`Places`, `Rank`). `Normal` is how registration writes one, `Cleaned`,
`Dialled` and `Candidates` are how the search reads one, `Lookup` is one query.

## 3. Runs

Symmetry is used where the specification treats the values alike and no liveness is
checked. No run checks the types of SyncLog, OtpStore and Groups: they are proved.
Deadlock is not checked anywhere: the models are finite and may stop, when
every connection is gone, every id given out, every call made.

| run | instance | properties | shows |
|---|---|---|---|
| hub | two connections of one phone, an HTTP handler, channels of 1 | TypeOK, IndexAgrees, IndexBounded, RegisteredIsLive, FreezeIsForever, CallsFinish | the hub's state is right whatever overlaps, and it stops only by the two known freezes |
| hub_status | a phone and a tablet of two users | StatusIsSent (violated) | the first freeze |
| hub_reconnect | two connections of one phone | CurrentIsRegistered (violated) | an old handler takes the new connection down |
| delivery | 2 requests, sends or group sends, 1 message, a phone and a tablet that comes and goes, all faults | TypeOK, HeardIsStored, OkMeansStored, ReceiptIsTrue, RowsOnlyGain, ImplementsMailbox | the way of one message through retries, faults and restarts |
| delivery_page | sends, forwards and group sends of one phone, the group's copy going to itself too, 2 messages, pages of one, no faults | OkMeansStored, MailboxDrains | a batch of two is whole; a mailbox larger than a page is emptied |
| sync | 4 appends of 2 users, 3 of them of messages, 2 in one chat, pages of two | MissedHasCause, ToldOnlyOwn, CursorAdvances, CatchesUp | an event is missed for one of three causes; a full sync has the last message of each chat; polling catches up |
| sync_cursor | 2 appends | CursorCoversLog (violated) | a cursor passes an event |
| otp | 4 verifications of 1 code, 3 attempts, faults | GuessesBounded, RefusedForCause, CodeExpires | three guesses, whatever overlaps |
| otp_once | 2 verifications | ConsumedOnce (violated) | one code is accepted twice |
| sessions | 2 users, 2 devices, 2 calls, 2 seconds, 4 tokens, faults | TypeOK, OutStaysOut, SpentIsRefused, TokensNameOwner | registrations, refreshes and shut-outs that overlap |
| groups | 3 users, 1 group, 2 calls, faults | OneOwner, OnlyMembersHear, HubKnowsMembers | two calls on one group |
| services | one of seven components at a time, see 3.1 | TypesHold, KeysAreSpentOnce, NotAheadOfRow, PresenceIsTrue, SoleWriter, UploadIsTold, LostByOverlapOnly, SkippedOnlyByTie, GoesBackButForOwn, LogIsRight, MarksAreOnesOwn, NumberNamesUser | the components that do not depend on each other, each with its own races and failures |

`services` is one run because no step of one of its components reads what another one
writes: marks leave a row where History finds it, and a profile leaves the number
UserSearch looks for. `MCServices` chooses one in the initial state, and the others do
not move. Letting them interleave would multiply the states and show nothing, since no
property is about two of them.

### 3.1 Bounds, and why they are enough

* **DeliveryHub.** The races of the hub are between two handlers of one device, and
  a writer that comes between two read locks: two connections and one more process
  have them both. A broadcast to two devices is in hub_status only; the theorems of
  section 4 hold for any number. A channel of one event is full
  after one event; the code's 32 changes when, not whether. Each connection connects
  once: a reconnecting client is a second connection.
* **MessageDelivery.** `MaxMsgs` bounds the ids; a request is begun only while it
  can still get its ids (`Room`), so that the bound never stops one half-way. One
  message and two requests suffice for what is about one row, since a row is written
  by id only. Two ids are a batch or a loop of two devices; with pages of one they are
  a mailbox larger than a page. Larger batches are covered by the theorems of 4.2. `Ops` restricts which operations a run uses, `Guests` which devices are
  registered and deactivated meanwhile, `Online` which ever have a connection. The events of a message in the log are a set; a
  repeated receipt is the same event.
* **SyncLog.** Three appends of the client's user make a full page of two and a part
  of one: two messages of one chat, of which the list shows the later, and something that
  is no message. The fourth, a message of a chat the client's user is not in, moves the
  sequence. Messages of the same time, or announced to the other user, are left to the
  theorems. Each
  client is independent of the others, so the runs have one. Ids are bounded by the
  number of appends.
* **OtpStore.** Four verifications are one more than the attempts allowed. Challenges
  do not share state, so one is enough.
* **Sessions.** Two calls at a time are any two statements in a race, and slots are
  used again, so sequences are not bounded. `MaxTime` bounds the seconds: two let
  a token be replaced in the second after its own, and be presented again.
  `MaxHeld`, a constraint of `MCSessions`, stops the search where all the tokens two
  devices can have in two seconds, four, were given out; up to there a replaced token
  is presented again, and two devices and a user besides their owners meet.
* **Groups.** Three users are an owner and two that may be added at once. Slots are
  used again. Groups do not share state.
* **PreKeys.** Two calls, two devices, two uploads of one key: two bundles that meet at
  a key, and a bundle that fails at its second device.
* **Presence.** Two connections of one user; the key lives two heartbeats, as in the
  code. Slots are used again, so reconnections are not bounded.
* **Attachments.** One upload, as uploads share nothing; a limit of two units and
  bodies of up to four are bodies below, at, one above and well above the limit.
* **UserRecords.** Two requests, two fields of the profile, two flags and a contact.
* **History.** Four rows with three times: two pages and a tie. Limits asked for are
  none, zero, one, and one above the cap.
* **MessageMarks.** Two users, two requests at a time and three in all: two that
  overlap and one before or after; one message, and an id that is nobody's.
* **UserSearch.** Every text of up to three symbols (plus sign, zero, something else)
  and some with a second digit; two users. Two zeros, a plus sign that is not the
  first symbol, and numbers that differ in formatting only are among them.

### 3.2 Fairness

* Hub: weak fairness of each handler, writer and push: the Go scheduler runs every
  goroutine that can run. A client owes nothing: it need not connect, push, or stay.
  Strong fairness of `ReadFails`: a dead socket has finitely many frames left to
  read, so the reader of a broken link does not answer frames for ever. No fairness
  of `SetMembersLock`: a handler need not be called.
* Delivery: weak fairness of the steps of a request; a client keeps fetching (weak),
  and acknowledges what it received whenever a slot is free (strong: the slots are
  shared). This is what MailboxDrains asks of a client. Pushes may all be lost.
* Sync: a statement that was sent comes back (weak fairness of commit or failure,
  and of the second read of a full sync); a client that starts a full sync again and
  again keeps making delta syncs too (strong fairness of `Delta`). Nothing forces an
  append.

## 4. What is proved

### 4.1 The hub

`DeliveryHubProofs` proves, for every number of connections, HTTP handlers, devices,
users and groups and every capacity of a channel:

| theorem | states |
|---|---|
| `TypesHold` | `Spec => []TypeOK`; a channel never holds more than its capacity |
| `IndexesAgree` | `Spec => []IndexAgrees` |
| `ListIsBounded` | `Spec => []IndexBounded` |
| `NoDeadConnection` | `Spec => []RegisteredIsLive` |
| `FreezeIsPermanent` | `Spec => FreezeIsForever` |

*Assumptions.* `HubAssumption`: there are finitely many connections, each names a
device, each device has a user, a channel holds at least one event, and connections,
callers and `None` are distinct. TLC evaluates it in every run of the hub.

*Argument.* The inductive invariant is

    IInv == TypeOK /\ ClosedLate /\ IndexAgrees /\ RegisteredIsLive

`RegisteredIsLive` is not inductive by itself: a handler that registers has to be
one whose channel is still open. `ClosedLate` says so: a channel is closed only by a
handler that is about to unregister or is gone. Then `Register` enters a connection
with an open channel, `Unregister` removes whatever the device has, which is never a
connection of a handler that is gone, and `CloseChannel` closes a channel in the one
place `RegisteredIsLive` allows.

Most steps leave the indexes alone. Lemma `StepKinds` says that a step of `Next` is a
`Register`, an `Unregister`, a `CloseChannel`, or *quiet*: it changes neither index
nor the set of closed channels, and moves a handler only where it stays live. The
invariants are then proved of four cases, not of thirty actions.

`ListIsBounded` needs a count: a registration adds one entry to the list of a user
and one handler to those alive on the device (`FS_AddElement`), and an unregistration
takes away all entries of the device, while one handler less is alive. It needs the
invariant, since an entry that is left without a connection would stay.

`FreezeIsPermanent` needs only types: a frozen handler is a reader that either waits
for a lock which a writer withholds, and the writer waits for the reader, or has left
`Broadcast` without giving up its lock, which nothing else gives up.

### 4.2 Message delivery

`MessageDeliveryProofs` proves, for every number of requests, devices, users,
messages and every page size, with or without faults:

| theorem | states |
|---|---|
| `StateIsTyped` | `Spec => []TypeOK` |
| `NothingUnstoredIsHeard` | `Spec => []HeardIsStored` |
| `ReceiptsAreTrue` | `Spec => []ReceiptIsTrue` |
| `TableOnlyGains` | `Spec => RowsOnlyGain` |
| `SuccessMeansStored` | `Spec => []OkMeansStored` |
| `MailboxImplemented` | `Spec => ImplementsMailbox`, that is, of `Mail!Spec` |

*Assumptions.* `DeliveryAssumption`: there are finitely many devices, each has a
user, a page holds at least one message, and `None` is neither a user, a device nor
a row. `Faults`, `Ops`, `Routes`, `Guests` and `Online` are arbitrary.

*Argument.* The inductive invariant is

    IInv == TypeOK /\ PhaseOK /\ EventsHold /\ SeenIsStored /\ AckOK

`HeardIsStored` and `ReceiptIsTrue` speak of events that are out. They are not
inductive: what makes a push harmless is that the request only holds events that are
true already. `Holds(e)` says what an event claims of the table, and `EventsHold`
says it of the events on wires, in the log, and those a request still has to tell
(`ToTell`). `AckOK` says that what a request acknowledges is stored for one device,
is marked delivered once the first update is over, and read once the second is;
without it a receipt that is made after the updates could not be seen to be true.

All of these only claim that rows exist and are marked. So the proof has two halves.
`RowsStep` shows that no step takes anything from a row (`RowsGain`), which keeps
every old claim true (`HoldsOn`) and is `TableOnlyGains` itself. `FactsStep` then asks
of a step only where its new claims come from: `JobsTell` of requests, `WiresTell` of
connections, `ClientsHear` of clients and `LogTells` of the log, each proved for
calls, for the steps of requests, and for the rest.

`MailboxImplemented` has three cases. An insert, one or a batch, is `Put`: the new
ids lie above all ids in use (`MailPuts`). The first update of an acknowledgement is
`Take` of one device, because `AckOK` says that all messages of one request are for
one device (`MailTakes`). Everything else leaves mailboxes alone.

`SuccessMeansStored` needs one more invariant, `OwnOK`: at any point of the loop a
request has a row of its own for every device it has done, and a request that
returns has none left to do. Requests own different rows, since the ids of a
statement lie above all ids given out (`NextGrows`, `OneOwns`).

### 4.3 One-time codes

`OtpStoreProofs`, from `OtpAssumption`, for any number of challenges, verifications and
attempts, with or without faults: `CodesAreGuarded` (`TypeOK`, `GuessesBounded`),
`RightCodesAreTaken` (`RefusedForCause`) and `ChallengesExpire` (`CodeExpires`).

*Argument.* `GuessesBounded` counts calls, the code counts in a redis field. The
invariant ties them (`Counts`): as long as a hash still has its code, the calls that
were let through to it or have seen it (`Through`) are no more than its counter, and
the counter is no more than the calls that raised it. HINCRBY that makes a key anew
has no code beside it, so that `Real` is false and nothing is claimed. `Causes` says that
a known challenge without a code expired, was accepted, or was tried too often; that
is what a refusal of the right code rests on.

### 4.4 The sync log

`SyncLogProofs`, for any number of changes, users and clients and pages of any size,
from `SyncAssumption`: `LogIsFollowed` (`TypeOK`, `MissedHasCause`), `OthersAreNotTold`
(`ToldOnlyOwn`) and `CursorsAdvance` (`CursorAdvances`).

*Argument.* `lastId` is the number of events that drew an id, and no two have the same
(`Sequence`). A cursor is 0 or the id of a committed event of its user (`AtEvent`). What
lies behind the cursor of a client that is not between two reads is known to it, was
overtaken, fell into the window of its last full sync, or was passed by it (`Covered`);
between the two reads, what the log held at the first is known or passed. The latter
rests on `LastIsShown`: if a chat has one last message, the list shows that one. A page is the events
up to the largest of its ids, and that a page has a largest id is `Largest`, from the
well-foundedness of the natural numbers.

### 4.5 Groups

`GroupsProofs`, for any number of users, groups and calls, from `GroupsAssumption`:
`GroupsAreKept` (`TypeOK`, `OneOwner`), `StrangersHearNothing` (`OnlyMembersHear`) and
`MembersHear` (`HubKnowsMembers`).

*Argument.* `Stage` says what is so while a call is at some statement: nobody is in a
group whose owner is not added yet, and one call only is adding him; a call that adds
somebody else acts for the owner and not on him, so that the upsert cannot replace
the owner's role; a call that was never disturbed is alone on its group, and the list
it read is the list. `Known` says that the hub has the members of a group that is not
blurred, or a call is on its way to tell it. Lemma `UpsertStep` is about the only
statement that writes `group_members`.

### 4.6 Sessions

`SessionsProofs`, for any number of calls, users, devices and seconds, with or without
faults, from `SessionsAssumption` (tokens, rows and the two special values of the hash
column can be told apart): `SessionsAreTyped` (`TypeOK`), `TokensHaveOwners`
(`TokensNameOwner`), `OutIsForGood` (`OutStaysOut`) and `SpentStaysSpent`
(`SpentIsRefused`).

*Argument.* What is proved of a call rests on what it read some statements ago. So the
invariant says for each call what it may still rely on: `Registering`, `Refreshing`,
`Issuing`, `Requesting` of one that is at the statements of that name, and `Refused` of
one that came too late, which has not passed the check that will refuse it. `RowOK` says
that the token in a row is one of its device and not spent, and every spent token was
made in an earlier second (`t.at < now`): this is why a token that is made now cannot be
one that was replaced before. `RowsKept` is what makes old reads good: no statement
removes a row, changes its owner or activates it again (`CallKept`).

### 4.7 Marks

`MessageMarksProofs`: `LogIsTrue` (`TypeOK` and `LogIsRight`, that is `LogTellsRow` and
`NewsIsTrue`) and `MarksAreKept` (`MarksAreOnesOwn`), if messages are among the ids and
the values can be told apart (`Bounds`). The invariant adds that a request that is still
clean is alone on its mark, and that log and row agree but for what it has told and not
yet written.

### 4.8 The other services

`ServicesProofs` is about `ServicesSpec`, the specification the run `services` checks.
Theorem `ServicesImplement` says that a behaviour of it is one of each service alone: the
chosen one moves, and the others stutter. So an invariant of a service is one of
`ServicesSpec`, and each of these is proved for every value of the constants that
`ServicesAssumption` allows:

| theorem | states, with `ServicesSpec =>` |
|---|---|
| `ServicesAreTyped` | `[]TypesHold` |
| `KeysAreTakenOnce`, `KeysFollowTheirRow` | `[]KeysAreSpentOnce`, `[]NotAheadOfRow` |
| `UploadsAreTold` | `[]UploadIsTold` |
| `OnlineIsConnected`, `WritersAreAlone` | `[]PresenceIsTrue`, `[]SoleWriter` |
| `ChangesAreKept` | `[]LostByOverlapOnly` |
| `PagesSkipAtTies`, `PagesGoBack` | `[]SkippedOnlyByTie`, `GoesBackButForOwn` |
| `NumbersNameUsers` | `[]NumberNamesUser` |

*Assumptions.* `ServicesAssumption`, in `MCServices`, which TLC evaluates: limits and
times are numbers above 0, sizes and batches are numbers, the fields of the profile are
neither flags nor contacts and these two differ, a number has at least one digit, the plus sign is not a
digit, and `None` is none of the values it stands beside. A key lives longer than one
heartbeat (`TTL > 1`): in the code, a minute and half a minute.

*Arguments.*

* **Pre-keys** (`KeysInv`). A locked key is unused and locked once; a key is used exactly
  if it was given, is lost or is in the hands of a bundle; whatever a call holds comes
  from an upload that was numbered before.
* **Attachments** (`FilesInv`). What the feeder read, what the handler wrote and what was
  hashed are paired at every place of the two goroutines: they differ by the unit in
  hand.
* **Presence** (`OnlineInv`). While nothing has happened that may take the key away and a
  handler is present, the key outlives the next heartbeat, unless the writer is about to
  refresh it (`KeyLives`); a key that is there is that of a present handler, or was left
  behind (`KeyIsSomebodys`).
* **User records** (`OwnInv`). What a request has read of the profile is what the user was
  last told of every field that is not in doubt (`CopiesHold`): writing it back changes
  no such field.
* **History** (`PastInv`). What is still owed to the reader has a time at which a page
  ended, or is not newer than the place he is at and his last page was full
  (`OwedIsBehind`). For `GoesBackButForOwn`, what he was shown is not older than that place
  unless it is his own, or he has so many messages of his own that he stays where he is
  (`ShownIsAhead`).
* **User search** (`FindingInv`). The numbers that were looked up and not found were
  nobody's when the search began (`FormsAreTried`). The rest is about texts, of any length:
  the digits of a text are digits (`DigitsAreDigits`), a plus sign before digits adds none
  (`DigitsOfDigits`), a number that is not decorated is a plus sign and its digits
  (`PlainIsKnown`), and every form that is looked for has the digits that were typed, less
  two zeros (`CandidateForms`). That there is a k-th digit (`CountingUp`) is proved without
  induction, from the least place that has k digits before or at it.

A set of natural numbers has a least one (`LeastNumber`), since the order of the natural
numbers is well-founded. This stands where one would use induction: for the oldest row
of a page and for the k-th digit of a text.

### 4.9 What is only model-checked

Liveness under fairness (CallsFinish, MailboxDrains, CatchesUp) is out of the prover's
reach. Every other property of the passing runs is stated by a theorem.

## 5. Findings

Each is a run that TLC ends with a counterexample.

1. **The hub freezes** (`hub_status`, `hub.go:124`). `Broadcast` takes the read lock
   again while it holds it. If `Lock` is called in between, each waits for the other,
   until the process is restarted.
2. **A reconnected device is cut off** (`hub_reconnect`, `hub.go:58`). `Unregister` is
   given a device, not a connection: the old handler takes the new connection down.
3. **An event that is never listed** (`sync_cursor`, `sync_event_repo_pg.go:36`). An
   id is drawn before it is visible; a cursor may pass it.
4. **A code accepted twice** (`otp_once`, `otp_store.go:87`). Reading, comparing and
   deleting are not atomic.

A second way to freeze the hub is part of the model and of `Frozen`: a panic inside
`Broadcast` (`hub.go:126` is not deferred) takes the read lock with it. CallsFinish
shows that there is no third.

More faults are in the models as the code has them, and need no concurrency or break
no stated promise, so that no run is spent on them:

* A device that was deleted registers with success and is refused afterwards: a
  row that exists is used without a look at `is_active` (`auth/service.go:179`).
* A device that was deactivated cannot be deleted: its NULL hash cannot be scanned
  (`device_repo_pg.go:66`; `Readable` in Sessions).
* An error of `UpdateRefreshToken` is ignored (`auth/service.go:256`): the client is given
  a token the row does not hold, and has to register again.
* No member is ever removed: the statement has two parameters and is given three
  values (`group_member_repo_pg.go:33`; `UpdateMember` in Groups).
* No member reads the history of its group: user id and group id are swapped
  (`adapters/http/groups.go:42`; `FetchHistory` in Groups).
* A user with two devices is shown offline as soon as one of them leaves, until some
  device connects again: a heartbeat does not set the key (`presence.go:27` and 31).
* The answer to a ping may meet another write on the socket (`ws.go:270`).
* A page of a chat has the reader's own messages of any time in it, so that paging
  back may show them again and again (`message_repo_pg.go:527`; `GoesBackButForOwn`).
* Messages stored with the time at which a page ended are skipped
  (`message_repo_pg.go:353`; `SkippedOnlyByTie`).
* An edit, a deletion, a reaction or a pin changes the copy of one device
  (`message_repo_pg.go:611-650`).
* The time of a pin stays when the last pin is taken off (`pinnedAt` in MessageMarks).
* A body that breaks, or is longer than the limit, is stored and answered as a whole
  one (`attachments/service.go:99-117`); a failed save leaves its goroutine waiting.
* A number typed with a plus sign keeps its formatting (`auth/service.go:286`): the same
  number with other formatting is a second user, and a search does not find it.
* A full sync passes events its client is never shown: its list has no receipts, reactions,
  pins or changes of groups and one message of each chat, and its cursor covers them all
  (`sync/service.go:51-61`; `passed` in SyncLog).
* Pinning, muting or archiving a chat sets the flag in the peer's row, with the user as
  the chat: the handler passes its two ids in the wrong order (`adapters/http/chats.go:78`;
  `SetFlag` in UserRecords). The user's list never shows what he set, and shows what his
  peer set.
* A user who searches for his own nickname or number finds himself; only his id is
  left out (`users/search.go:38`).

In code that the models leave out, because it changes nothing:

* `DeleteForMe` passes its two ids in the wrong order (`app/messages/service.go:652`), so
  that no row is found and nothing is deleted.
* No contact is ever removed: the route names its parameter `id` and the handler reads
  `contact_user_id` (`adapters/http/contacts.go:16` and 49), so that every removal is answered 400.
* A group's history that breaks off while it is read is answered as a shorter page, without
  an error (`message_repo_pg.go:406` drops `rows.Err()`); nobody gets that far, see above.
* No attachment is ever downloaded: neither insert of a message stores its attachment,
  so that the lookup by attachment finds none (`message_repo_pg.go:757`).
* The routes of logout and of the upload of keys are registered outside the middleware
  that sets the device id they ask for (`bootstrap/di.go:102-117`), and answer 401.

## 6. What is not modelled, and why

* Cryptography: the server stores ciphertext and keys as they come. Content, mime
  policies, quotes and media change nothing in the order of the steps; a request they
  refuse stops before its first write.
* SQL beyond the statements' effect on rows: each statement is atomic, as PostgreSQL
  makes it. That two of them are not, is what the models are about.
* The content of the frames of a WebSocket connection; that they are written, by whom
  and when, is in Presence.
* Retries of the redis client: a command fails, with or without effect, or it does not.
* Downloads, lists and `DeleteForMe`, which change nothing (the list of chats is in SyncLog,
  as what a full sync shows); removals of contacts, which are refused; `Delete` and `MarkDeleted` of
  attachments, which nothing calls; mime policies of groups, which no handler sets.
* Times: created_at is the order of ids; a time to live ends at any moment; tokens
  carry seconds (Sessions) and do not expire.
* Start-up, configuration, logging, migrations: wiring, I/O and schema.

## 7. Plan

Done: every component that has state is modelled, and every safety property and action
property that a run expects to hold is proved.

What is left: Presence beside DeliveryHub in one module, so that the panics of the hub
are those of the handlers that hold the key, and the two theorems of presence carried
over to it.
