# A verification project for scvorrrechnik_backend

The repository is the backend of a messenger, two Go servers over one PostgreSQL each:
`src/scvrrrchnkAuthServer` (accounts and refresh tokens) and `src/scvrrrchnkMsgServer`
(chats, messages, room keys, and a WebSocket hub that pushes events). It has no tests.
This directory models the parts that keep state in TLA+, checks them with TLC on small
instances, and proves the safety of each of them with TLAPS for every instance.

Paths below are relative to the two `internal/` directories; `auth:` and `msg:` name
the server where it is not clear.

## 1. Inventory

| Component | State | Operations | Hard behaviour | Correct when |
|---|---|---|---|---|
| **Hub** `msg: ws/hub.go`, `ws/client.go` | map user → connections, `onlineUsers`, an RWMutex, two unbuffered channels, a buffered channel per connection | `Register`, `Unregister`, `BroadcastToChat`, `Run`, `ReadPump`, `WritePump` | many goroutines; a broadcaster sends to the hub while it holds the read lock; channels closed under other senders; panics of three kinds; a `WritePump` outlives its handler | the map and the online list agree, each status announced is true, no connection that ended stays, every broadcast returns |
| **WebSocket endpoint** `msg: handler/ws_handler.go` | none of its own | upgrade, dispatch of `chat_message` and `typing` frames | a frame runs the callback twice; five-second timeouts | one frame, one message |
| **Auth service** `auth: service/auth_service.go`, `repository/`, `handler/auth_handler.go` | tables `users`, `refresh_tokens` | register, login, refresh (rotation), logout | statements of two requests interleave; a refresh fails between delete and insert | a token is exchanged at most once, logout is final, no session is lost |
| **Messages** `msg: service/message_service.go`, `repository/message_repo.go`, `handler/message_handler.go` | table `messages` | send, edit, delete, each followed by an event to the chat | find-then-save of a whole row; event sent steps after the change; membership changes meanwhile | only the author changes a message, the chat is told what is stored, the right users hear of it |
| **Chats** `msg: service/chat_service.go`, `repository/chat_repo.go`, `handler/chat_handler.go` | tables `chats`, `chat_members` | create (one transaction), add members, leave, mark as read | lookup outside the transaction; transactions that insert the same users; batches refused as a whole | one private chat per pair, members are users, everyone asked for is added, a read receipt tells what is stored |
| **Users** `msg: repository/user_repo.go`, `middleware/auth.go`, `handler/user_handler.go` | table `users` of the messenger | `EnsureUser` before every handler, `FindOrCreate`, `EnsureUserExists`, public key, backup, search | first-or-create races; placeholder names; the row is written by every request | a user keeps the name of its token, a key or a backup lasts until the next one |
| **Room keys** `msg: repository/chat_key_repo.go`, `handler/chat_handler.go` | table `chat_keys` | save, read; list of the members' public keys | check then save; upsert in two statements with no index behind it; keys read one by one | one key per chat and user, of members only; the list is complete |
| **Lifecycle** `app/app.go`, `cmd/server/main.go`, `docker-compose.yml` | the process | run, shutdown, restart | `Shutdown` closes the database before the HTTP server | running requests end as if a statement had failed |
| **Schema** `migrations/`, `db/` | indexes, sequences | AutoMigrate | which unique indexes exist | those a handler relies on exist |
| **Auth middleware, config, logging, CORS** | none | | | not modelled: no state |

Interaction: a REST handler of the messenger runs `EnsureUser` (Users), then its service
(Messages or Chats) statement by statement, and the service calls `Hub.BroadcastToChat`
in the same goroutine. A frame takes the same way from `ReadPump`. Status changes go
from `Hub.Run` straight into the buffers of the other connections. The two servers
share a JWT secret and nothing else; the user ids and names the messenger stores come
from the claims of the auth server's tokens.

`PROJECT.json` lists every hazard found, at its line, with the properties that cover it
or the reason why none does yet.

## 2. Modules

| Module | Models | Composes or refines |
|---|---|---|
| `Presence` | abstract: who is online and what is announced | |
| `Hub` | the hub and both pumps of every connection | implements `Presence` |
| `HubProofs` | inductive invariant of `Hub`, refinement | |
| `Sessions` | abstract: what refresh tokens promise | |
| `Auth` | the auth server, statement by statement | implements `Sessions` |
| `AuthProofs` | inductive invariant of `Auth`, refinement | |
| `Messages` | send, edit, delete, from REST and from frames | membership is its environment, a broadcast is one step |
| `MessagesProofs` | inductive invariant of `Messages` | |
| `Chats` | create, add, leave, with the users they create | |
| `ChatsProofs` | inductive invariant of `Chats` | |
| `Delivery` | read receipts and statuses, from the statement to the clients | composes a call of the kind of `Messages` with the loops of `Hub` |
| `DeliveryProofs` | inductive invariant of `Delivery` | |
| `KeyRegister` | abstract: one room key per user, that changes at once | |
| `RoomKeys` | room keys, public keys, backups, the row of a user | implements `KeyRegister` |
| `RoomKeysProofs` | inductive invariant of `RoomKeys`, refinement | |
| `MCHub`, `MCAuth`, `MCMessages`, `MCChats`, `MCDelivery`, `MCRoomKeys` | instances for TLC | |

### Hub

`hubPc` is the program counter of `Hub.Run`, `pc` the one of each goroutine that can be
inside `BroadcastToChat` (the `ReadPump` of a connection, or a REST handler), `writer`
that of each `WritePump`. `clients` and `onlineUsers` are the fields of the same name.
The RWMutex is `rlocked` (its readers) and `hubPc = "pending"` (a `Lock` that waits, and
holds off later readers, as Go's does; `Unlock` lets in all who wait).

* `BeginIteration`, `Deliver`, `FindFull`, `CloseSend`, `Panic`, `EndIteration` are the
  loop of `BroadcastToChat` (hub.go:90-111). `ReceiveEvict` is the rendezvous of its
  `Unregister` with `Hub.Run`. A send on, or a second close of, a closed channel panics:
  `ReadPump` runs its deferred function, a REST handler ends in the recover middleware.
* `ReceiveRegister`, `ReceiveExit` and the steps of `HubStep` are `Run` (hub.go:33-66)
  and `broadcastStatus` (hub.go:68-87). A panic there ends the process; `Restart` is the
  `restart` policy of docker-compose.
* `Peer`, `ReadPump`, `WritePump` are what happens to one connection, `client.go` and
  the end of `ws_handler.go`.
* `object` is `Client.conn`. The websocket library keeps `*websocket.Conn` objects in a pool:
  when a handler returns (`ReturnHandler`) its object is emptied and may be given to the next
  connection (`Pool`, `Free`, `Connect`). Nothing ends `WritePump` before that: unregistering
  does not close `send`, and a closed connection is noticed at the next write only. `WriteNext`,
  `WriteClosed` and `PingFails` are its steps while its handler runs (`Writing`). Afterwards
  (`Outlives`) a payload, a tick or a closed channel meets an empty object or another
  writer's, which panics and ends the process (`WriterPanics`), or the object of another
  connection, which gets the payload or is closed (`WriteElsewhere`).

Payloads are not told apart: a buffer is its length. Slices of connections are sets, so
a loop visits them in any order, which includes the order of the code. Which user a connection
belongs to (`owner`) is chosen when a behaviour begins.

### Auth

A request is a goroutine; each action is one SQL statement, as the code runs none of
them in a transaction. `Register`, `Login`, `Refresh`, `Logout` start a request and carry
the checks that come before the first statement. `StatementFails` and the second
disjunct of each write are a statement that did nothing or whose outcome was lost;
`Crash` is the end of the process; `Expire` is time passing a token's `exp`. History
variables (`minted`, `parent`, `issued`, `presented`, `contended`, `loggedOut`) record what
became of each token; no action of the server reads them. `contended` holds the tokens that
two requests presented at a time: `Sessions` lets only those be exchanged twice, or come
back from an exchange, so the refinement holds of every behaviour and says what the code
guarantees when clients do not overlap.

### Messages

A call is a goroutine that serves one request or one frame; each action is one statement
or the broadcast. The five encrypted columns are written together and are one field,
`cipher`; a text is the name of the call that wrote it. `Save` of gorm writes all columns
of the row it holds and inserts it when the UPDATE met no row (`SaveMessage`).
`GetChatByID` is two statements, the JOIN (`Recheck`) and the preload of the members
(`ReadMembers`). `Return` starts the second run of a frame. `Join` and `Leave` are the
environment: what other calls do to the members. `lastEvent` and `untold` record what
the chat was told, `overlapped` the messages that two calls held at a time.

### Chats

A call is a goroutine behind `EnsureUser` (`SyncFind`, `SyncUpdate`, `SyncCreate`).
`CreateChat` is a transaction: the users it inserts are in `inserted` until it commits,
an INSERT of a key that another transaction has inserted waits (`MayInsert`), and
PostgreSQL fails one of a cycle of waiting transactions (`FailDeadlocked`). `Commit`
publishes the chat, its members and its users at once. `AddMembersToChat` is not a
transaction: `CheckAdd`, `ReadMembers`, a loop of `FindOrCreate` per user, and one INSERT
of all the rows, refused as a whole by the unique index (`Refused`). A username is the
one of the token or the placeholder `user_N`.

### Delivery

One chat, and what each connection of its members shows. A call of `MarkAsRead` is the
membership check, the UPDATE, the second `GetChatByID` in two statements and the loop of
`BroadcastToChat` (`MarkAsRead`, `CheckMember`, `UpdateLastRead`, `Recheck`, `ReadMembers`,
`BeginIteration`, `Deliver`, `Evict`, `Panic`, `EndIteration`); `Hub.Run` registers,
unregisters and announces (`HubRegister`, `HubUnregister`, `Announce`). A loop
keeps the hub from changing the map, as the read lock does (`Granted`). `reads` and `shows` are what a
client has on its screen: the last receipt of each user, and the users it takes for online.
These it asks for with `GET /online`, a request of its own, before its connection joins or at
any time later: `FetchOnline` reads the map under the read lock, `ShowOnline` is the answer
reaching the screen any number of steps later, and statuses change the screen before, in
between and afterwards. Payloads of a channel arrive in their order, so a screen changes when
a payload is buffered. The histories: `since` has the users who came or went while an answer was on
its way; `missed` the users whose last status was dropped at a full buffer or overtaken by the
answer; `steady` the receipts whose user stayed in the chat and had no other receipt on its way.
`recycled` has the connections that got the `websocket.Conn` of an ended one, whose `WritePump`
may still write to it: their screens are excepted from the properties, and `Die` includes the
panic of such a `WritePump`.

### RoomKeys

A call is a goroutine behind `EnsureUser` (`Begin`, `Sync`), then one handler.
`SaveRoomKey` asks for two memberships, one statement each (`CheckCaller`, `CheckTarget`),
and then runs gorm's `FirstOrCreate`: a SELECT ordered by id (`Find`), and an UPDATE that
leaves out empty columns (`Update`) or an INSERT in a transaction (`Insert`, `Commit`), whose
row others see after the commit while its id was drawn before. The model `ChatKey` names
its unique index like that of `ChatMember`; index names are unique in a schema, and gorm
creates an index only if none of its name exists, so `chat_keys` has none and two rows of
one user can be stored. Only the one with the lowest id is ever read or updated; the
refinement of `KeyRegister` shows that the rows are nevertheless one register for each
user. `GetChatKeys` reads the members at once and then the key of each (`Collect`), and
passes over a user whose SELECT fails (`Skip`).

## 3. What the runs check

The passing runs have between some ten thousand and some million distinct states and
end within two or three minutes each on two workers. Deadlock is not checked: connections, requests and bounded resources
may all be used up, and the process may rest with nothing to do.

| Run | Instance | Question |
|---|---|---|
| `hub_race` | 2 connections of one user or of two, 1 REST broadcaster, buffers of 1 | Type correctness; `VisitsRegistered`, `ClosedIsLeaving`, `NoGhost`: what stays true around overflow, eviction, a second eviction of the same connection, both panics and the restart; `OnlineMatchesClients`, and that the hub implements `Presence`: a user goes offline with the last connection and once; `DeathExplained`: the process dies in an eviction or by a `WritePump` that outlived its handler, and in no other way |
| `hub_live` | 1 connection, 2 REST broadcasters, fair | While no buffer overflows: `BroadcastReturns`; `LeavesTheMap`; `ReaderFollowsWriter`, after a `WritePump` closed its connection the reader ends, unregisters and its handler returns |
| `hub_recycled` | 2 connections | **violated**: client.go:18 a Client "stands for one WebSocket connection" |
| `hub_overflow` | as `hub_live` | **violated**: hub.go:104 "the buffer is full: we close the channel and remove the client" |
| `auth_race` | 2 requests, 3 tokens, 2 emails, failures and crashes | `RotationOrder`, `LogoutFinal`, `NoSilentLoss`, `ForkNeedsContention`, type correctness, and that the server implements `Sessions`. After the 200 of a logout the token passes no lookup of a refresh; one that had looked it up before may still exchange it, and only then |
| `auth_reuse` | 2 requests, nothing fails | **violated**: README.md:90 of the auth server, a used refresh token is answered 401 |
| `messages_race` | 2 calls, 2 users in or out of 1 chat, 1 message | `ScreensCurrent`, `EditTakesEffect`, `AuthorOnly`, `ReturnsByStaleSave`, `SilenceExplained`, type correctness |
| `messages_faults` | 1 call, 2 users, 2 chats, 3 joins or leaves, 1 failure or crash | `AudienceRight`, `StoredForMembers`, `SilenceExplained` |
| `chats_race` | 2 calls, 2 users, 2 chats | `MembersAreUsers`, `NameLostByAddOnly`, `AddedUnlessLeft`, `DuplicateNeedsOverlap`, type correctness |
| `chats_live` | 2 calls, 3 users, 2 chats, 1 failure or crash, fair | `CallsReturn`: transactions that wait for each other's users all end |
| `delivery` | 2 users with a connection each or one with two, receipts of one user, `GET /online` of one connection again and again, buffers of 1, a join or leave | `ReceiptIsStored`, `ReceiptReachesAll`; `PresenceShown`, a client that asked takes the right users for online, but for a status that was dropped or overtaken by an answer; type correctness |
| `room_keys` | 2 requests of 2 users, 2 rows, 2 joins or leaves | `ChatKeysRight`, `KeysSurviveSync`, `SavedForMembers`, type correctness, and that the rows implement `KeyRegister` |

Every property of a passing run has a mutant of the modelled code that violates it
(`PROJECT.json`, "mutants"; the mutated forms stand in the modules before the definition
they replace).

### Bounds, and why they are enough

* Two actors (connections, requests, calls) interleave everywhere. The races found need
  two; the third goroutine of `hub_race` lets one broadcast meet a buffer that
  another is evicting while the hub announces.
* `SendCap = 1` (256 in the code): only empty, partly full and full are told apart, and
  a full buffer is one payload away. The theorems hold for every capacity.
* `Tokens` (3) allows a login and two exchanges, so a fork of a session. Two emails and
  one username let registers collide in either column or in both.
* `MaxId`: one message, on which all calls meet. With one message the second run of a
  frame that stored one waits at its INSERT for ever; it goes on when the first run was
  refused, or fails. It does what the first does: nothing hides there.
* `MaxMoves`: 3 in `messages_faults` (a user leaves, comes back and leaves again within one
  call), 2 in `room_keys` (leaves and comes back, between any two statements), 1 in `delivery`,
  which begins with any members: a receipt is steady only while its user stays.
* `Askers` (`delivery`): answers of one client do not touch what another one shows, so one of
  the two connections asks. One receipt at a time fills the buffers, evicts and holds the lock; two
  of one user at a time, three connections and any number of askers are with the theorems.
* `Readers` (`delivery`): one of the two users sends receipts, so the other one's
  connections receive them; a receipt of the other user would meet the same buffers. Message
  ids 0 and 1: a mark moves forward and backward.
* `MaxRow = 2` (`room_keys`): two rows of one user, or one row each; a call whose INSERT finds
  no row id left waits, and may still fail.
* `Families` (`room_keys`): a behaviour calls either `SaveRoomKey` only or the handlers
  of public keys and backups only, which touch different tables; membership
  changes and `EnsureUser` are in both.
* `MaxFailures = 1`: one failing statement, with or without its effect, or one crash.
  Every state afterwards is one a call could have left.
* `MaxChat = 2`: two chats of one pair. Bodies in `MCChats`: every shape of request that
  takes another path, once.
* Symmetry: connections, tokens, calls, users and chats are compared for identity only; a
  set of which one member is named in a `.cfg` (`Readers`, `Askers`) is not permuted. Runs with liveness properties use none.

### Fairness

* Hub: the scheduler runs each goroutine that can run (weak fairness of its next step).
  Blocked senders of a channel are served in order and `select` picks among the ready
  channels at random, so none of the hub's senders is passed over for ever while the
  hub keeps coming back: strong fairness of `Receive...`. A read on a connection
  this side has closed fails. Nothing is assumed of a peer: it may be silent, and no
  frame need arrive. Nothing is assumed of pings, and nothing of a `WritePump` whose handler has
  returned: it may stay for ever.
* Chats: a call goes on (weak fairness of `Serve`), and an INSERT that waits for a key
  is woken when the holder ends, before another call takes the key again for ever (strong
  fairness of the INSERTs); the cycle check of PostgreSQL is part of `Serve`. Clients
  are under no obligation.

## 4. What is proved

Every safety property a run checks, as an invariant or as an action property, is a theorem of
the module's specification, checked by tlapm to the last leaf, and so are the three
refinements. What the proofs assume are the named assumptions of the modules: the bounds are
natural numbers (`SendCap` positive), `None`, the empty key and the
blank text are nothing else, connections and requests of `Hub` are different, the users who
send receipts are users, the connections that ask `GET /online` are connections, and the bodies of `Chats` are bodies a client can send
(`BodiesAssumption`); `Faults` of `Auth` is a flag and `Families` of `RoomKeys` holds sets of
handlers. Nothing is assumed of how many there are of anything; the bounds
(`MaxChat`, `MaxId`, ...) are any natural numbers.

All six proofs have one shape: an invariant `Inv`, inductive, that TLC also checked on the
instances of the runs; lemmas that say what each action or each step of a call does to the state (in
`ChatsProofs` and `MessagesProofs`, where dozens of cases share them); one lemma for each conjunct
and, in it, one step for each action; `Invariance`; and the theorems as consequences.

**Hub.** None of the properties is inductive alone. `Inv` joins them with:
`LockInv` (who holds the read lock is in `BroadcastToChat`, and a loop runs under
the lock), `LoopInv` (what a loop has yet to visit is registered), `HubInv` (what
`Hub.Run` has in hand at each point), and `ListInv` (a connection is listed under its owner, only
after `Register`, and while it is being listed its `ReadPump` has not ended). The heart
is that an eviction keeps the read lock until the hub has received it: the hub cannot
change the map between the visit and the close, so a closed channel in the map always has
somebody about to take it off (`ClosedIsLeaving`). From `Inv` follow, for every instance:

* `TypeCorrect`, `OnlineUsersCorrect`, `AnnouncementCorrect`, `LoopCorrect`,
  `EvictionCorrect`, `NoGhostConnection`: the invariants;
* `MapFrozen`, `OfflineAnnouncedOnce`: action properties that no run repeats, next to
  `VisitsRegistered`, `PresenceSpec` and `ClosedIsLeaving` of `hub_race`;
* `DeathCorrect`: the action property `DeathExplained` of `hub_race`;
* `ImplementsPresence`: every step of the hub is a step of `Presence` or a stutter.

**Auth.** `Inv` joins the properties with `CarryInv` (a request carries a token that was
presented and once stored), `HistoryInv` (every token in a history was stored), and
`DeletedInv` (a refresh about to store its new token has the old one out of the table).
For any number of requests that race, fail and crash: `TypeCorrect`, `RotationCorrect`,
`SessionsSurvive`, `ReuseOverlaps`. For `Sessions`
it is strengthened by what a request in flight knows of its token (`ContendInv`): a token that two
requests carry is contended, a token being deleted that is not contended is stored, and
its exchange is the first and not after its logout. This gives `ForksOverlap` (a token with two
successors was contended), `LogoutCorrect` (no lookup passes with a logged-out token, and one
that passed before exchanges it only if the token was contended) and `ImplementsSessions`; `auth_reuse` shows that contention does happen and
what it leads to.

**RoomKeys.** `Inv` joins type correctness with `CallInv` (a save carries a body and a row
where it needs one, and nothing else does), `SaveInv` (past a check, the user it asked for
was a member during the call), `ListInv` (of a user whose membership and key stay the same,
`GetChatKeys` has collected the key exactly if it has looked, and everyone it has yet to look
up is a member), and `RowInv`. The last one is what the missing index asks for: a call at
`update` holds the first row of its key, and a call at `insert` or `commit` found none, unless
another save has committed one since (`beaten`); and the id that a call at `commit` has drawn is
its own and has no row. For any number of users, calls and rows, with failing statements:
`TypeCorrect`, `ListCorrect`, `SyncHarmless`, `SaveCorrect`. For `ImplementsKeyRegister`, a
write of a row changes the key of its user exactly when no row is before it
(`KeyWritten`); the step then is `Store`, and otherwise, by `RowInv`, the save is `beaten`,
and the step is `Overtaken`.

**Messages.** `Inv` joins type correctness with: `CallInv` (what a call carries at each
statement), `RowInv` (message ids are given out in order, and a stored row has the chat and the
author its message began with), `SeenInv` (a call holds a row of its own message, and is
its author's when it is about to save), `HoldInv` (two calls at one message make it
`overlapped`, and so does a row that goes while another call works on it), `AloneInv` (of a message that one
call holds alone, statement by statement, how the row relates to what the call has in hand),
`ToldInv` (the chat was told what is stored, or a call is about to tell it, or the message is
excepted by name) and `AudienceInv` (the members a call reads are between those who stayed and
those who were ever there). `SeenInv` is why a stale row written back cannot give a message
another author; `AloneInv` is what turns `ToldInv` into an inductive statement: the
event a call is about to send equals the row only because nobody else holds the message.
Theorems: `TypeCorrect`, `ScreensCorrect`, `EditsCorrect`, `AudienceCorrect` and, as action
properties, `AuthorsCorrect`, `ReturnsCorrect`, `StoredCorrect`, `SilenceCorrect`.

**Chats.** `Inv` joins type correctness and `MembersAreUsers` with, for each call: `CallOK`
(what it carries), `InsertedOK` (the users its transaction has inserted are not there yet, and
no other transaction has inserted them), `SeenOK` (each user its loop has passed is there,
or is among those its transaction inserted), `ChatOK` (its chat is there, and whom it was asked
to add is new, in the chat, or has left since) and `LackedOK` (a
creation behind its lookup has seen every chat, at some time since it began, without being the pair's private
one); and `KindInv` (a chat that is not there has no members). `InsertedOK` needs the wait
for keys (`MayInsert`): `Spared`, one lemma for all steps, shows that no step of another call
creates a user that a transaction holds, removes a user or a chat, or takes a member out of a
chat unnoticed by those who add to it. So a commit publishes users nobody else created, and
every row of `chat_members` finds its user. Theorems: `TypeCorrect`, `MembersCorrect` and, as action
properties, `NamesCorrect`, `AddedCorrect`, `DuplicatesCorrect`.

**Delivery.** `Inv` joins type correctness and `ReceiptIsStored` with `CallInv`, `SteadyInv` (a
steady receipt is the only one of its user, who is a member once that was checked),
`ReachInv` (a loop has left to visit every connection that does not show its receipt yet: the map does
not change under the read lock, and only a receipt of the same user could hide it),
`HubInv` (the status being announced is what the map says), `AnswerInv` (an answer on its way
names the right users but for those who came or went since) and `ShownInv` (every
client that asked shows the right users but for statuses it missed and the one on its way to
it, `Pending`): an answer shown late is wrong only about users of `since`, who become `missed`.
Theorems: `TypeCorrect`, `StoredCorrect`, `PresenceCorrect`, `ReachedCorrect`.

**Only model-checked.** Liveness (`BroadcastReturns`, `LeavesTheMap` and `ReaderFollowsWriter` of
`hub_live`, `CallsReturn` of `chats_live`): it needs fairness and ENABLED, which the prover
does not handle. The three runs that expect a violation are counterexamples of TLC.
No module has a recursive operator or an induction over data.

## 5. What was found

Runs of `PROJECT.json` that TLC refutes:

1. **The hub and a broadcaster wait for each other** (`hub_overflow`, hub.go:106).
   `BroadcastToChat` sends on the unbuffered `unregister` under the read lock, and
   `Hub.Run`, the only receiver, may be waiting for that lock. Then no broadcast and no
   connection goes on until a restart.
2. **A refresh token is exchanged twice** (`auth_reuse`, auth_service.go:124-133): find
   and delete are two statements and the rows affected are not looked at.
3. **A `WritePump` outlives its connection** (`hub_recycled`, client.go:98): the handler returns,
   the library gives the object of the connection to another one, and the old `WritePump`, which
   nothing has ended, writes to it and closes it, or panics on the empty object.

Further statements of the repository that the modelled code does not meet. The
modules state them at their ends; no run is kept for them yet:

* `OneFrameOneMessage` (Messages): client.go:61-63 and :82-86 call the callback twice
  for a `chat_message` frame, so one frame is stored and sent out twice.
* `PlaintextCleared` (Messages): message_service.go:106 "we clear the plain text so that the
  server does not keep it"; it is cleared in a struct after the row was saved.
* `PrivateChatOnce` (Chats): chat_service.go:57 looks for the private chat outside the
  transaction that creates it; two overlapping requests both create one.
* `NameSynchronised` (Chats): chat_service.go:157 calls `FindOrCreate` with an empty name,
  which overwrites the name of an existing user by `user_N`.
* `DuplicateAnswered409` (Auth): user_repo.go:40 tests for `gorm.ErrDuplicatedKey`, which gorm
  gives only with `TranslateError`; the answer is 500.
* `BadInputAnswered400` (Auth): a body that is not JSON, or a password beyond the 72 bytes
  of bcrypt, is answered 500.

Two properties hold only in the weak form stated here: a deleted message may
come back when an edit saves the row it had found before (`ReturnsByStaleSave`), and two
calls on one message, or a call addressed to another chat, leave the chat with an event
that is not what is stored (`ScreensCurrent`, which excepts them by name).

## 6. What is not modelled

* Reads (history, search, lists of chats, `Me`), which change nothing.
* Signatures, claims, CORS, configuration, logging, HTTP codes outside Auth, JSON.
* The inside of the websocket library, but for its pool of connection objects; what a peer makes
  of a payload that was meant for another client (`WriteElsewhere`, `recycled`).
* Typing events at the clients: nothing is kept of them, and module `Hub` has their broadcast.
* The order of `Shutdown`: what running requests see of it are failing statements.
* `DeleteEncryptedKey`, `DeleteByUserID` and other operations no handler calls.
* The order in which receipts of one user reach a client when two are on their way: they may
  arrive in the other order than stored, and the repository does not say which one
  counts. `ReceiptIsStored` excepts them by name (`steady`).

## 7. Plan

On disk:

1. `Hub`, `Presence`, `HubProofs`.
2. `Auth`, `Sessions`, `AuthProofs`.
3. `Messages`, `MessagesProofs`.
4. `Chats`, `ChatsProofs`.
5. `Delivery`, `DeliveryProofs`: read receipts and statuses as the clients see them.
6. `RoomKeys`, `KeyRegister`, `RoomKeysProofs`.

Next, in this order:

7. `Board`, an abstract message board that `Messages` implements, with the refinement proved
   from the invariant of `MessagesProofs`.
8. `Lifecycle`: `Shutdown` with the database closed first, against open connections.
9. Runs for the statements of section 5 that have none.
