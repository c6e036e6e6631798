# Real-Time Chat App: TLA+ models, model checking and proofs

This directory holds a formal model of the chat application in the repository:
TLA+ modules translated from the Go backend and the React frontend, TLC
configurations that check them on small instances, and TLAPS proofs for every
value of the constants. `PROJECT.json` is the index: which definition stands for
which lines, which run checks which property, which changed definition (a "mutated
form" in the modules) breaks it, the hazards the properties are aimed at, and the
disagreements between code and documents that were found.

## 1. The system and its components

```
browser (App.tsx, api.ts)
   |  HTTP/JSON            |  one WebSocket per listed conversation
   v                       v
gin router -> middleware (JWT, rate limit) -> handlers -> services -> repositories -> PostgreSQL
                             |        |                                   (conversations,
                             |        +-- presence.Service -> Redis set    participants, messages, users)
                             +-- realtime.Hub <-> Redis Pub/Sub, one channel per conversation
cmd/migrate -> migrations.Runner -> PostgreSQL        ratelimit.Limiter -> Redis counters
```

### Conversations, rooms and roles
`services/conversation_service.go`, `repositories/conversation_repository.go`,
`handlers/conversations.go`.
- State: the rows of `conversations` (type, name, updated_at) and
  `conversation_participants` (role, last_read_at).
- Operations: CreateRoom, CreateDirect, AddRoomParticipant,
  UpdateParticipantRole, RemoveParticipant, LeaveRoom, TransferOwnership,
  UpdateRoomName, DeleteRoom, MarkRead, and lists.
- Hard: every function reads (conversation, actor, target) in separate
  statements and then writes, without a lock or a transaction around them; only
  TransferOwnership has a transaction, around its two UPDATEs and not around
  the checks. Requests of different users interleave between any two statements.
  The DELETE of a room cascades to its participants' rows one after the other and
  keeps them locked, as a transfer keeps the row it has demoted.
- Correct when: a room has one owner; roles change as README.md:327-330 says;
  the two participants of a direct conversation never change; a pair has one
  direct conversation; every request ends.

### Messages and read marks
`services/message_service.go`, `repositories/message_repository.go`,
`handlers/messages.go`, MarkRead.
- State: `messages` (sender, content, created_at), `conversations.updated_at`,
  `conversation_participants.last_read_at`; the event published after each change.
- Operations: Create (a transaction of two statements), Update, Delete, List
  (newest page, or the page before a time), MarkRead; UpdateRoomName, which sets
  `updated_at` too.
- Hard: `NOW()` is the start of a transaction, commits come in another order;
  updates and deletions check in one statement and write in another; the event
  is published after the commit, in no common order with other requests' events,
  and may be lost.
- Correct when: the last event about a message says what is stored; a message
  counts as unread exactly when it was not there at the last mark; the list of
  conversations is as new as its newest message; paging back shows everything.

### Realtime hub and WebSocket connections
`realtime/hub.go`, `redis_pubsub.go`, `client.go`, `handlers/websocket.go`.
- State: clients per conversation, the Redis subscription and its forwarder
  goroutine, each client's buffered `send` channel, ReadPump, WritePump and the
  connection.
- Operations: Subscribe, Unsubscribe, Publish, broadcastLocal, the two pumps, the
  deferred calls of the handler.
- Hard: five kinds of goroutine; the broadcast works on a copy of the client set
  after the lock is released; a slow client is unsubscribed by the forwarder
  while its own handler may do the same; subscriptions are closed and remade.
- Correct when: there is a subscription exactly while there are clients, a
  client's channel is closed once and only when it is removed, no event comes
  twice, those of one subscription come in order, slow peers delay nobody for ever,
  nothing is left behind.

### Presence
`presence/service.go`. State: connection counts in the memory of each backend
process, the set of online users in Redis, which all processes share.
Operations: Connect, Disconnect, and the query. Hard: a command fails after the
count has changed; a process dies and the set stays; a process takes a user out
of the set who has connections at another. Correct when: the set is the users
with a connection.

### Rate limiting
`ratelimit/limiter.go`, `middleware/rate_limit.go`. State: a Redis counter with a
time to live. Operation: Allow (INCR, EXPIRE on the first, TTL, decision). Hard:
three commands, overlapping requests, failures and expiry in between. Correct
when: a window admits at most the limit, and every window ends.

### Accounts
`services/user_service.go`, `repositories/user_repository.go`, `handlers/auth.go`.
State: the table `users` with its two unique indexes. Operations: Register, Login.
Hard: nobody looks before the INSERT, so two registrations meet in the indexes,
where the second waits for the first to commit or roll back; texts come in several
spellings; answers get lost. Correct when: an address and a name have one
account, who was told "created" can log in, and who was told "taken" was told so
because of an account that exists.

### Migration runner
`migrations/runner.go`, `cmd/migrate`. State: `schema_migrations` and the schema.
Operation: Run, one transaction per file. Hard: no lock keeps two runners apart;
a runner may die anywhere, also between a COMMIT and its answer, and images have
different directories. Correct when: the changes of a file are made once and
exactly when its name is recorded, in order, and a runner that reports success has
applied its directory.

### Browser
`frontend/src/App.tsx`, `api.ts`.
- Message pane: the selected conversation, its messages, hasOlderMessages. Hard:
  awaited answers meet a state that has moved on (another conversation
  selected, events already applied). Correct when: the pane shows the messages of
  the selected conversation, each once, and all that are stored.
- Session: token (also in localStorage, which the tabs share), user, the list of
  conversations and the requests that set them. Hard: an answer comes after the
  session it was asked in, or in the next one; effects ignore such answers, click
  handlers do not. Correct when: the tab shows the user of its token and that
  user's conversations, and leaves its opening screen.
- Sockets: one WebSocket per listed conversation, kept in a map by an effect. Hard:
  the close event of a socket comes later than the call that closed it, and removes
  the map entry of its conversation whatever socket that is by then. Correct when:
  the open sockets are those of the listed conversations.
- Also unread badges, participants, typing and presence displays, forms.

### The rest
Tokens (`auth/token.go`, `middleware/auth.go`): signed, eight hours, no state.
Server start, routing, configuration, connection pools; response models;
markup and styles: wiring and copying.

## 2. Modules

| module | models | state | actions |
|---|---|---|---|
| `ConversationService` | the management functions, one step per SQL statement | `type`, `name`, `role` (database), `req` (requests under way) | `Receive`, one action per function, `Fail` |
| `ConversationSerial` | how `ConversationService`, one request at a time, is read as `RoomRoles` | the refinement mapping | |
| `RoomRoles` | what the README promises about rooms: who may do what, each operation atomic | `acting`, `status`, `owner`, `admins`, `members` | `Ask`, `Refuse`, `Grant` with one disjunct per operation |
| `Messages` | messages and read marks of one conversation, and the time that orders it in the list | `now`, `message`, `updatedAt`, `lastRead`, `req`, `told` | `Receive`, `Create`, `Update`, `Delete`, `MarkRead`, `Rename`, `Fail`, `Leave`, `Join` |
| `MessagePane` | the message pane of one browser | `log`, `rows`, `chan` (server), `selected`, `pane`, `hasOlder`, `loading`, requests `first`, `older`, `sent` | one per request, answer, failure, event and selection; `CreateSelected` |
| `Hub` | hub, forwarders, pumps and handlers of one conversation | `registered`, `sub`, `open`, `chan`, `fwd`, `buffer`, `closed`, `handler`, `writer`, `conn` | one per critical section, send, receive or deferred call |
| `Presence` | the counts of several processes and the Redis set they share | `counts`, `online`, `conn` | `Connect`, `Disconnect`, `Crash` |
| `RateLimit` | the limiter for one key | `counter`, `expires`, `stage`, `count` | `Incr`, `Expire`, `TTL`, `Decide`, `Fail`, `KeyExpires` |
| `Accounts` | overlapping registrations, and login | `users`, `input`, `at`, `said` | `Register`, `EnterName`, `EnterEmail`, `Commit`, `Fail` |
| `Migrations` | overlapping runners of several images | `table`, `recorded`, `changed`, `at`, `dir`, `todo` | `Ensure`, `IsApplied`, `Exec`, `Insert`, `Commit`, `Stop`, `Restart` |
| `Session` | the session of a tab | `token`, `stored`, `user`, `isBootstrapping`, `search`, `conversations`, requests `me`, `lists`, `creates`, `leaves` | one per sign-in, answer, failure, click, sign-out, other tab and reload |
| `Sockets` | the sockets of a tab, composed with `Session` | those of `Session`, `socket`, `mapped` | every step of `Session`, with the effect where the list, token or user changes; `Refreshed`, `SocketCloses`, `Reloaded` |
| `*Proofs` | theorems about the module named; `BrowserProofs`: about `Session`, `Sockets` and `MessagePane` | | |
| `MC*` | constants and symmetry | | |

How code becomes actions:

- **A statement is a step.** A request is a record in `req` with the `stage` it has
  reached; what it carries from one statement to the next (`actorRole`, the time
  `at`, the row it saw) is a field, as it is a local variable in the code. A
  refused check ends the request. `Fail` ends it at any statement and undoes an
  open transaction, as the deferred `tx.Rollback` does.
- **Transactions and locks.** RepoDemote and RepoPromote are the two UPDATEs of a
  transfer: the first is not visible to others, the row is `Locked` and writers
  of it wait. RepoDeleteConversation is one DELETE and yet several steps: it takes
  the row of the conversation (`Deleting`), then with ON DELETE CASCADE the
  participants' rows in some order (`Cascade`), waits at one that a transfer has
  demoted and keeps those it has (`held`); it becomes visible as a whole. Two
  transfers in opposite directions wait for each other's rows, and so may a transfer
  and a deletion: the transfer for its target's row, which the cascade has, the
  deletion for the owner's, which the transfer has. Such a ring (`InRing`), of
  two or more, is a deadlock, and PostgreSQL aborts one of them: its request
  ends by `Fail`. A message being inserted is "open" until its commit, and its
  time is the time of its BEGIN.
- **A critical section is a step.** The hub's mutex makes Subscribe, Unsubscribe and
  the snapshot of broadcastLocal atomic; each send after it is a step of its own.
  Presence holds its mutex across the Redis command, so Connect and Disconnect
  are one step with two or three outcomes.
- **An answer has two steps in the browser**: the server gives it and the browser
  shows it. Only the first page's request is void once the selection changes
  (the effect's `isCurrent`, as for `me` and the list in `Session`); older pages and
  sent messages are not guarded, and `older.stale` and `strayed` follow what that does.
- **Creating a conversation selects it.** When that is another conversation,
  handleCreateConversation does to the pane what selectConversation does (`Select`).
  When createDirect answers with the one that is selected, the pane is emptied and
  the effect, whose dependencies have not changed, asks for nothing
  (`CreateSelected`); `dropped` keeps what the pane may miss from then on.
- **An INSERT has a step per unique index**, as PostgreSQL has: it is refused by an
  entry that is committed and waits for one that is not. In `Migrations` a CREATE
  TABLE or a row of `schema_migrations` waits and fails in the same way.
- **Modules are composed** where one reacts to the other: `Sockets` extends `Session`
  and joins its `Effect` to every step that changes what the effect depends on,
  in the step itself, for React runs it before the next event. `RoomRoles` is
  joined to `ConversationService` by the refinement mapping in `ConversationSerial`.
- **Data** are model values: names, contents, users. Validation of input alone
  (UUIDs, lengths, trimming) is a condition on the requests considered: one that
  fails it changes nothing.

Auxiliary variables record history that a property needs and no action reads in
its guard, except where a bound says so: `raced`, `covered`, `straddled`, `outrun`,
`crossed`, `strayed`, `excused`, `dropped`, `faulted`, `eclipsed`,
`window`, `admitted`, `orphaned`, `lost`, `leftover`, `log` (Hub).
`crashed` in Hub is not one: it is the end of the process.

## 3. Runs

| run | instance | shows |
|---|---|---|
| ConversationsConcurrent | 3 users, one conversation from before migration 002 and one new, 2 requests at once, all operations but renaming and removing | `RacedOrOneOwner`, `LegacyDirectStaysAlone`, `WaitsEnd`, `OwnerlessForGood`, `DirectMembershipFixed` |
| RoomsSerial | 3 users, 2 ids, one request at a time, all operations | refinement of `RoomRoles` (`RoomsKeepTheirPromise`), `OneDirectPerPair` |
| OwnerLeaves | 2 users, 1 room, 2 requests | **violated**: an owner's row is deleted by LeaveRoom |
| MessagesConcurrent | 2 users, one writing and renaming, one reading, leaving and joining; 2 ids, 2 contents, 2 requests | `LastEventIsTrue`, `UnreadExact`, `ListedByNewest` |
| PaneShows | 2 conversations, 3 messages, pages of 1 | `NothingTwice`, `PaneOfSelected`, `PaneIsTrue`, `MissingIsOlder` |
| HubClients | 2 clients, buffer of 1, 2 events, 2 subscriptions, fairness | `SubscribedIffClients`, `ClosedIffRemoved`, `OnceAndInOrder`, `ForwarderMovesOn`, `ForwarderEnds`, `TornDown` |
| HubPanic | 2 clients, buffer of 1 | **violated**: send on a closed channel |
| PresenceFaulty | 2 processes, 2 users, 4 connections, failures and restarts | `OnlineIffConnected`, `CountsOffByOneAtMost`, `OfflineOnlyIfMiscounted` |
| RateLimitWindows | limit 2, 3 requests at once, failures, fairness | `AtMostLimitPerWindow`, `LastsOnlyIfOrphaned`, `WindowEnds` |
| AccountsOverlap | 3 clients, one name and one address in two spellings each, another address, 2 passwords | `OneAccountEach`, `CreatedCanLogIn`, `RefusedIsTaken` |
| MigrationsOverlap | 3 runners, 3 images with different directories of 3 files, one of them repeatable; failures, deaths and restarts, fairness | `ChangedOnceIffRecorded`, `InOrder`, `DoneIsComplete`, `OneSucceeds`, `RunnersEnd` |
| SocketsInSession | 2 users, a conversation of one of them, 1 click under way, 2 sockets per conversation, fairness | `UserIsTokens`, `ShowsOwn`, `MappedIsOwn`, `StrayOnlyIfOrphaned`, `SilentOnlyIfLost`, `BootEnds` |

No run checks a type invariant: theorems prove them all (section 5).

Why the bounds are enough. Two requests at once are the smallest number that
race, and every race found needs just two; three users are needed for an owner, the
one handed to, and the one removed or the one who removes. A legacy direct
conversation beside a new id shows what room operations do to the one and a
pair's second CreateDirect to the other. Two requests can deadlock only in a pair;
a ring of three transfers takes three users and three requests, and `WaitsEnd` was
checked on that instance too, in one room and with six of the operations (4,855,406
states up to symmetry); for any number it is mostly proved (section 5). With removals
ConversationsConcurrent holds as well (3,823,422 states) but takes long: a removal overlaps as a
leave does, whose last statement it shares, and the theorems have both. A buffer of one
and two events make a client slow; two subscriptions, one closed and not yet drained
beside its successor, are what OnceAndInOrder is about.
Three messages and pages of one give a first page, an older one and one in between
that can be skipped; the second conversation is empty because what goes
wrong is a message of the first appearing in it. Two times (`MaxTime`) tell an
older message, rename or mark from a newer and from an equal one; every message says
one thing when it is created and the other once it is changed (`Carries`). In
MessagePane the user creates the selected conversation again at most once between two
changes of the selection, and before anything else has gone amiss, so that what is
missed then has this one cause. Two processes are enough for one
to take out a user who is connected at the other. Three registrations: one that holds an address, one that waits for it, one
that waits for the other's name. Three runners with a directory that lacks the third
file, one that lacks the second, and the repository's. In the browser one other user
is enough for an answer to belong to somebody else; two sockets of one conversation
are one that is closing and its successor. Every bound is a
constant or is named at the guard it sits in: `ConvIDs`, `MsgIDs`, `MaxTime`,
`Movers`, `Ops`, `Carries`, `MaxEvents`, `MaxSubs`, `MaxMessages`, `MaxCount`, `Conns`,
`MaxClicks`, `K`, one older request and
one lost event and one CreateSelected in MessagePane. Symmetry is used only in runs without liveness
properties; the action properties OwnerlessForGood and DirectMembershipFixed quantify
over all users and ids and so are symmetric themselves.
ConversationsConcurrent permutes users and requests, not ids: one of them is legacy.

Deadlock is checked except in the two Hub runs: there every connection may be
over and every event published, and then nothing is left to do.

Properties with an exception name it and the exception is what the code leaves
open, not what made the check pass:

- `RacedOrOneOwner` excepts rooms handed over while another request had read the
  old roles; that the exception happens is OwnerLeaves.
- `LastEventIsTrue` excepts messages written while an event about an earlier write
  was still to come, and events lost.
- `UnreadExact` excepts messages in the course of being written when a mark was
  taken, and a mark and a message of the same microsecond. Such a message may carry
  a time before the mark and never be counted, although nobody has seen it.
- `ListedByNewest` excepts a message whose commit overtook an older transaction's,
  another message's or a rename's: that one's write sets `updated_at` back.
- `WaitsEnd` admits deadlocks, which the database ends, but only known ones: in a
  room that was handed over while a transfer rested on the old roles (`raced`), or of
  one transfer and one deletion that wait for each other (`RingIsKnown`).
- `PaneIsTrue` excepts messages whose event crossed an answer on its way (the first
  page overwrites what an event appended in between; a page, or the answer to
  one's own message, brings back what an event removed), lost events, and
  messages of one microsecond (the next page is strictly older); and panes that an
  answer asked for in another selection reached, or one's own message after newer ones.
  What there was when a shown conversation was created again (`dropped`) may be
  missing, but nothing that is gone is shown for it.
- `MissingIsOlder` excepts the same messages and panes, and allows an empty pane with messages
  missing only if a newer one was deleted (`NewerDeleted`): loadOlderMessages takes its
  cursor from the oldest message shown, and there is none.
- `OfflineOnlyIfMiscounted` and `OnlineIffConnected`: a count left by a failed SADD is
  one too high, the next connection sends no SADD, and its user is shown offline while
  connected; so is a user (`eclipsed`) whose last connection at one process ends while
  he has others elsewhere.
- `ShowsOwn` excepts (`leftover`) a list left standing when `me` fails, and a
  conversation created in an earlier session, until the next answer with a list.
- `StrayOnlyIfOrphaned` and `SilentOnlyIfLost` except what a late or an unasked-for
  close event does to the map, until the effect runs again.
- `OneSucceeds` excepts runs in which a statement failed by itself or a process died.
- `OneDirectPerPair` is a property of requests served in turn: two overlapping
  CreateDirect of a pair can both find nothing. `LegacyDirectStaysAlone` is what
  holds with overlap.

## 4. Fairness

- Hub (`FairSpec`): goroutines are scheduled (weak fairness of `Forward` and
  `Handle`). Of a WritePump only its end is assumed, when its channel is closed or
  its connection is broken: writes have a deadline (`writeTimeout`). No peer is
  assumed to read, speak or leave, so ForwarderMovesOn holds against peers that
  never read.
- RateLimit: requests go on and Redis expires keys that have a time to live. Nothing
  makes a new request come.
- Migrations: strong fairness of `Run(r)`. A statement that waits for another
  transaction stands in PostgreSQL's lock queue and is not overtaken for ever by
  runners that are started again and again.
- Sockets: the request the first effect makes is answered or fails
  (`SocketsFairSpec`); fetch ends. Nobody is assumed to sign in, out or to reload.
- ConversationService has no fairness: `WaitsEnd` says with ENABLED, in every
  state, that a request on a conversation can go on or waits for a row, and that
  who waits does so, directly or through others, for a transfer or a deletion
  that can go on or for a ring of them, of which the database aborts one.

## 5. Proofs

All by `tlapm` (SMT, Zenon, LS4), for every value of the constants under the named
assumptions of the modules.

- `ConversationServiceProofs`
  - `TypeCorrect` (TypeOK), `OneOwnerUnlessRaced` (RacedOrOneOwner),
    `OneOwnerSerially` (OneOwner with one worker), `OneOwnerWithoutTransfers` (OneOwner
    with any number of workers, if nobody transfers), from `Invariance`, and
    `DirectsKeepTheirParticipants` (DirectMembershipFixed).
  - RacedOrOneOwner is not inductive: nothing in it says that a request past its
    checks is harmless to the owner there is. `IInv` adds `Established` (what a
    request's earlier checks found and nothing can take back: the conversation
    existed and is a room or deleted; who hands over does so to somebody else; who
    leaves removes himself) and `OwnerSecure` (an unraced room has one owner `o`, no
    write under way is aimed at `o`, and whoever is past the first check of a
    transfer is `o`, with the demotion done once it promotes). `Init => IInv` is
    InitInv; the step has one lemma per operation. The critical one is RepoPromote:
    where the new owner would be in another request's way, `raced` is set.
  - With one worker no request can be Stale, and without transfers nothing is ever
    handed over: either way `raced` stays empty, and RacedOrOneOwner is OneOwner.
  - `OwnerlessStaysOwnerless` (OwnerlessForGood): `Effects` sorts the steps by what they
    write, and `OwnersComeFrom` finds that the only one that makes somebody owner of a
    room that is there is the promotion of a transfer.
  - `EveryWaitEnds` (WaitsEnd of whoever waits: WaitersAreServed): if
    everybody who is waited for waited himself, then among the sets in which each waits for
    one of the set there would be a minimal one, the number of requests being finite, and in
    it each is also waited for: a ring (`RingAmong`). `DeadlocksAreKnown` (WaitsEnd of the
    rings: RingsAreKnown) rests on `RowsHeld`: a row is held by one transaction and
    a conversation by one deletion; a transfer holds its actor's row and nothing else, a
    deletion what its cascade has passed. In an unraced room all transfers are its only
    owner's (`OwnerSecure`) and take his row first, so that one of them at most holds
    anything, and nobody waits for a transfer but at that row. A ring has therefore
    one transfer and one deletion in it, and each waits for the other.
  - `LegacyDirectsStayAlone` (LegacyDirectStaysAlone) and `OneDirectSerially`
    (OneDirectPerPair with one worker). That a pair's conversation is its only one is not
    inductive, for a CreateDirect past its query may be about to insert: `Alone`
    adds that none of those in that state is for the pair, `Pairs` that each is for two
    users. With overlap only a conversation that was there before them is alone; with
    one worker every new one is, since nobody else is in between.
  - `ServiceImplementsRoomRoles` (RoomsKeepTheirPromise with one worker). The write of a
    request is the operation of RoomRoles if what its reads found still holds then:
    `StillSo` says so for each stage (the room is there, the actor and the target have
    the roles they were checked for, the local `actorRole` is the actor's role), and
    with `OneOwner` it gives the operation's guard. `StepKeeps` goes through the
    functions: reads are stutters, refusals and failures are Refuse, and `AddKeeps`,
    `UpdateKeeps`, `RemoveKeeps`, `LeaveKeeps`, `TransferKeeps`, `DeleteKeeps`, `FoundKeeps`
    map each write to its operation.
- `HubProofs`: `SubscriptionsFollowClients` and `RemovedClientsAreClosed` from one
  invariant of the state the hub's mutex protects. It adds that a registered client
  has subscribed (its handler is not "absent"), without which a closed client could
  come back.
  `DeliveredOnceInOrder` (OnceAndInOrder) follows an event from the channel of a
  subscription through the hand of its forwarder to the logs. `DeliveryInv` says
  that it is owned by one subscription on this whole way (`OneOwner`), which keeps the
  forwarder of a closed subscription apart from its successor's, and that on it
  events go up (`Upwards`): what is in the channel is newer than what is in the hand, and
  both are newer than what came through before; a client still to be offered the event
  in the hand has not got it. `TypeCorrect` adds that no buffer is fuller than the
  channel takes.
- `MessagesProofs`: `TypeCorrect`, `EventsTellTheTruth` (LastEventIsTrue),
  `MarksAreExact` (UnreadExact), `ListIsByNewest` (ListedByNewest), from one `Inv`. The
  three speak of the database as it is; the invariant adds what requests under way
  will still write. Of a stored message that overtook nobody it says that every message
  being inserted and every rename that has begun has a time as late, so that the writes
  to come do not set `updated_at` behind it. `Marks`: a mark parts older from newer messages already when its
  transaction starts, before it is written. `Heard`: about a message at most one
  event is under way, and it says what is stored.
- `PresenceProofs`: `TypeCorrect`, `CountsStayClose` (CountsOffByOneAtMost),
  `OfflineHasCause` (OfflineOnlyIfMiscounted), `OnlineIsConnected`
  (OnlineIffConnected), for any number of processes. The invariant is their
  conjunction and `Exact`: as long as nothing has failed no count is off.
- `RateLimitProofs`: `CountersDoNotOutliveTheirWindow` (LastsOnlyIfOrphaned);
  `WindowsAdmitTheLimit` (AtMostLimitPerWindow) and `TypeCorrect` from `WInv`: what a
  window has admitted and the requests it will still admit (`Admitting`, a finite set)
  are together at most the counter, and at most the limit. `admitted <= Limit` alone
  says nothing about requests that have their number and not their answer.
- `AccountsProofs`: `TypeCorrect`, `AccountsAreApart` (OneAccountEach),
  `CreatedIsUsable` (CreatedCanLogIn), `RefusalsAreTrue` (RefusedIsTaken). The
  invariant says what an INSERT has secured: past the first index its name, past the
  second its address, against accounts and other INSERTs alike; and that an
  answer, once given, stays true.
- `MigrationsProofs`: `FilesChangeOnce` (ChangedOnceIffRecorded), `FilesInOrder`
  (InOrder), `SuccessIsComplete` (DoneIsComplete). `IInv` adds that what a loop has
  behind it is recorded (`Walked`) and that a row about to be committed is neither
  there nor in another's transaction (`Fresh`). `OneRunnerSucceeds` (OneSucceeds) rests on
  `OneGoesOn`: until a fault there is always a runner that has succeeded or that
  nobody can make fail, for a runner is `Doomed` only by what another one holds, and
  whoever commits first goes on.
- `BrowserProofs`, session and sockets: `SocketsWellFormed` (SocketsOK), `TokenAndUserAgree` (UserIsTokens),
  `ListIsOfItsUser` (ShowsOwn), `MapIsOfTheUser` (MappedIsOwn),
  `StraysWereOrphaned`, `SilenceIsLoss`. `SInv` concerns the session alone: answers
  that count were asked with the token the tab holds (`AskedNow`), which is why a late
  one cannot bring an earlier user back. The sockets' part follows the effect.
- `BrowserProofs`, message pane: `PaneWellFormed` (PaneOK), `PaneShowsNothingTwice`
  (NothingTwice), `StraysCameLate` (PaneOfSelected), `PaneShowsWhatIsStored` (PaneIsTrue),
  `PaneMissesOnlyOlder` (MissingIsOlder), for any page size and any number of conversations and messages. PaneIsTrue speaks of
  the moment when nothing is under way; `PaneInv` says what holds before.
  - `Due(c)`: the stored messages of c whose creation has been heard, but for those
    dropped. `Told(m)`: m is stored,
    or the event of its deletion is still to come. Whatever is shown, or in an answer on
    its way, has been Told, so a quiet pane shows nothing that is gone.
  - `DownToOldest`: from its oldest message on a pane, or a first page, has whatever is
    due. An older page (`OlderPage`) passes over nothing that is older than its cursor, and
    a pane with such a request out (`Welcome`) has what is not, so that together
    they are again DownToOldest; and a page that is not full is the last.
  - `Server`: events are in order. A message whose creation is heard now has all later
    ones behind it in the channel, so they are not due yet and leave no gap.
  - `TakingKeeps` is about an event that is heard or lost: it makes at most its own
    message due, or no longer Told, unless that message is `excused`. `Steady` is what
    all other steps have in common (`Lasting` what CreateSelected has too, which makes
    less due and empties the pane: `CreateSelectedStep`), and what such a step leaves of a page, an
    answer and the pane is proved once for all of them.
  - `Emptied`: if a shown pane is empty and a message is due, a newer one of the
    conversation has been deleted. A first page is empty only if nothing is due; later it is an
    event of deletion that takes the last message out, and that message was newer
    than what was missing, for the pane was DownToOldest.
  - `WithoutKeeps` (what a filter keeps, proved by counting indices) and `PagesAre` (a page
    that is not full has every row) are the lemmas about arrays.

Only model-checked: liveness (out of this prover's reach under fairness) and the part of
WaitsEnd about who does not wait, that he can go on (ENABLED); what it says of who
waits is proved.

## 6. What was found

1. **An owner can leave** (run OwnerLeaves, `conversation_service.go:308`): LeaveRoom
   checks the role and deletes the row in a later statement; a transfer to the leaver
   in between leaves a room without an owner, for good (OwnerlessForGood).
   README.md:330 says owners must transfer before leaving.
2. **A send on a closed channel** (run HubPanic, `hub.go:89`): broadcastLocal sends to
   a snapshot after releasing its lock; Unsubscribe closes `client.send` in between;
   the panic is in a goroutine nobody recovers and ends the process.

Also seen, without a run of their own:
- A rate limit without end: INCR succeeds, EXPIRE fails, and the counter stays
  (`limiter.go:35`; README.md:292 says per minute). `LastsOnlyIfOrphaned` says it is
  the only way, `WindowEnds` that every other window ends.
- A user name that is taken is answered "email already registered"
  (`user_service.go:78`, `handlers/auth.go:78`): `RefusedIsTaken` can only speak of
  either.
- A close event that comes late removes its successor from the map
  (`App.tsx:820`): the next effect opens a second socket beside it, events count
  twice and signing out leaves the first one open. `StrayOnlyIfOrphaned` delimits it.
- When `me` fails the list stays (`App.tsx:242`), and a conversation created in an
  earlier session enters the next user's list (`App.tsx:1238`): `leftover`.
- A migration runner that finds no `schema_migrations` while another creates it fails
  (`runner.go:53`), as does one that meets another in a file that is not repeatable;
  it has to be started again. One of them succeeds (`OneSucceeds`).
- A process takes a user out of the online set who is connected at another
  (`presence/service.go:44`): `eclipsed`.
- Admins may rename rooms (`conversation_service.go:366`, README.md:327 reserves it for
  owners); a failed SADD leaves its count behind (`presence/service.go:30`); a page of
  older messages or a sent message reaches the pane of another conversation
  (`App.tsx:1177`, `1297`); an older page that was asked for before the user turned
  away and back can even appear before the first page and send the next request
  past messages in between; a first page overwrites events heard while it was on
  its way (`App.tsx:330`).
- Two ways to an empty pane that asks for nothing more: all messages of the first page
  are deleted (`App.tsx:1155`); or createDirect answers with the conversation that is
  selected already, which empties the pane and leaves the effect's dependencies as
  they are (`App.tsx:353`, `1244-1249`). `MissingIsOlder` says of everything else
  that a pane misses that it is older and can be asked for, unless an event was lost
  or met an answer, or an answer came to another selection.
- The owner's transfer of a room and his own deletion of it can deadlock
  (`conversation_repository.go:125-133`, `355`): the cascade has the target's row and
  waits for the owner's, the transfer has the owner's and waits for the target's.
  PostgreSQL aborts one of them, which is answered with a 500.
- `updated_at` can go back, by a message (`message_repository.go:48`) or by a rename
  (`conversation_repository.go:137-139`) that began before a message and commits after
  it: the conversation drops in the list below its newest message.

## 7. Not modelled

- Several Hub processes: each has its own subscription, and Redis carries events to all
  of them alike (`PublishElsewhere` in Hub is a message from another).
- Deletion of a conversation under `Messages` and `MessagePane`; in `Messages` the role
  of who renames, which `ConversationService` has: any participant may there; in the pane
  the moments in which no conversation is selected (log-out, `App.tsx:897-912`; deleting
  or leaving the selected room, `1531-1536`, `1753-1758`) and the list's choice of the
  first one then (`279`); what the page shows in place of an array that is not of the
  selected conversation or not loaded (`messagesConversationID`, `2149-2154`); edits, the
  user's own deletions and what a socket misses while it is replaced; unread badges,
  typing and participants in the browser.
- The order of overlapping commits in `MessagePane`: a message and its event are one
  step there, in order of time; `Messages` has the overlaps.
- The content of the migration files: they can be repeated or not. What 002 leaves
  behind is the initial state `Legacy` of ConversationService.
- The expiry of tokens, apart from that a request may fail; passwords, apart from
  that they are compared; searches and other queries that only read; server
  start, pools, response models, forms, scrolling and styles (reasons in
  `PROJECT.json`).

## 8. Plan

Done: `ConversationService` and `RoomRoles`; `Hub`; `Presence` with several processes;
`RateLimit`; `Messages`; `MessagePane`; `Migrations`; `Accounts`; `Session` and
`Sockets`; proofs for all of them, the refinement of `RoomRoles` among
them. Left, most important first:

1. `MessagePane` with edits, own deletions, unread badges and reconnection, and what
   its theorems become then.
2. Composition of `Messages` and `Hub`: what the database has committed is what a
   connected client's log says, up to losses.
