# A verification of quackchat

quackchat is a chat and calls client: a Qt user interface (`backend/*.cpp`, `qml/`)
over *tacky*, a library that owns the XMPP accounts, the message store and the media.
UI and tacky talk in frames: `notify` (nothing comes back), `request` (one reply, or one
error, by token) and events that tacky emits. On a desktop tacky runs in the process of
the UI; on Android it runs in a service (`android/…`) and the UI process, which the
system may kill at any time, attaches to it over a socket.

Nearly everything that is hard here has one shape. The UI keeps a *copy* of what tacky
knows. It is moved at once by the user, later by replies to what was asked, and later
still by events, which may be older than what the user has done since; it is mended by
asking again when a link comes back. The modules here model those copies, the road the
frames travel, and as much of tacky as the code relies on.

Source paths below are relative to the repository.

## 1. The system

### Parts, their state and how they interact

| Part | State it keeps | Operations | Hard behaviour | What makes it correct |
|---|---|---|---|---|
| Chat window (`ChatModel`) | rows by timestamp, `m_atTail`, `m_catchupBusy`, `m_tailTs`, `m_inflight`, `m_pending`, `m_failed`, the error shown | opening page, page older / newer, jump, scroll to bottom, culls by the view, send, retry; results, errors, `New`, `Confirmed`, `Edited`, `Tail`, catchup and state events, reattach | replies in any order on a window that has moved; a catchup under live rows; a lost link | no run of messages is skipped inside the window, nothing live is lost at the tail, no direction stays out for good, a failure is shown while it is one |
| Service link (`TackyBackend`, `SocketTransport`, `FrameRouter`, `TokenMap`) | tokens and callers; the client, readers, queue; token table | connect, request, accept, read, route, answer, write, close | four threads of the service, a UI killed and restarted counting from 1, a full queue, displaced readers | every call is answered once, by its own answer, or failed |
| Voice calls (`CallsModel`) | a row per session, `m_seq`, lists out, dismissed | start, accept behind a prompt, reject, hang up, dismiss; eight events, list on connect | a list against events and hangups since; either process dying | rows are tacky's sessions once all is quiet and never move back |
| Group calls (`GroupCall`, `GroupCallsModel`) | phase, call's room, leaving, the rows of the others, preview, join token, `get` token | join, start, answer an invite, leave, dismiss, prompts; states, failures, `get` | states older than the user's leave; a prompt open while frames wait; reattach | the window shows the call we are in; out of it the camera is off |
| Storage gate (`StorageController`, `StorageGate.qml`) | status, `m_gateArmed`, status and action tokens | unlock, encrypt, decrypt, request and cancel a migration; events, answers | status answers overtaken by actions; processes that start apart | nothing is asked of a store that is not open; no migration under live accounts |
| App controller | focus reported, preferences sent | apply preferences, report focus after settling | must be told again whenever tacky starts | an open tacky knows the preferences and the focus |
| Chat session (`ChatSession`) | holds, stored view, draft, edit stash, reply, queue of files | open, close, flush, edit, reply, mention, attach, send | reattach between scroll, answer and flush; lost `close`; one field for a draft and a correction | the later view wins, no words are lost, a chat nobody holds is closed |
| Search (`SearchModel`) | chat, query, hits, cursor, token | search, more, clear, retry; page and support answers | a cancelled search still answers; the next goes out under the same tag | what is shown answers one question |
| Padlock and devices (`OmemoChat`, `OmemoDevicesModel`) | the switch and what is known of it; rows of devices and trust | switch, read, prepare; trust, blind trust | a switch moved at once against reads, answers and events | what is shown is how the next message goes out |
| Accounts (`AccountsModel`) | rows, enabled, state, two list tokens | list, add, enable, disable, remove; events | lists crossing events, either way round | rows are tacky's accounts once quiet |
| Chat list, author names, rooms (`ChatListModel`, `AuthorNames`, `MucRoomModel`) | cached lists, their order | read, events, moves, filter, page shown or not | an answer crossing events; a rebuild in place; another chat or room meanwhile | rows are tacky's once quiet, in their order, and of this chat |
| Account settings (`AccountSettings`) | the form as read, the save's stages, tokens | save in steps, switches, avatar, password | a step refused or lost, another save or session between two steps | what it calls saved is |
| Registration (`RegistrationController`, its sheet) | state, form, picture, what was typed | start, retry, submit, cancel; form, media, verdicts | a retry reuses the token | the account added is the one made, and the sheet never hangs |
| Alerts (`NotificationController`, `FdoNotifier`) | popup per key, ids, alerts held back | show, replace, retract; the daemon's answers and closes | an id that comes after the alert was replaced or read | a chat has one popup, if it has something to say |
| Calls on a phone (`CallRegistry`, `CallRinger`, `CallNotifications`, the service) | registries, rings and their timers, notifications, foreground type | events, answer, decline, silence, time out, look up | everything posted to one thread, some of it twice | the phone rings for the calls that come in, for as long as they do |
| Files of messages (`ChatModel`'s transfers) | downloads by source, uploads by timestamp, taps that wait | fetch, load, open / save / reveal, cancel, uncache, retry; updates, answers, `Confirmed` | a key that moves; word under way of a file just deleted | what a row shows of its file is so once quiet, and no tap waits for ever |
| Avatars (`AvatarController`, `AvatarImageProvider`, `Avatar.qml`) | hashes, marks, fetches that wait | mark, fetch, refresh; updates, data, the link | two threads and a link that goes between them | each load finishes once, and what is on screen is the picture there is |
| Framing (`SocketTransport`, `Lenpipe`) | bytes kept, length read, state of the socket, retry timer | start, stop, connect, chunks, frames | a handler that stops the transport; an end in the middle of a frame | frames come whole, in order, and from this connection |
| Preferences (`AppSettings`, `AudioDevices`, `EmojiModel`) | a copy of every key, gains and what to unmute to, the emoji used last | write, mute, use, refresh; answers, `Changed` | writes under reads that are out; a list written back whole | controls show what is in force, the log goes by it |
| Room finder (`MucRoomsModel`, `JoinRoomSheet`) | rooms a service lists, loading, failure, default nick | open, discover, another account, type a nick | answers given up; a nick that comes late | rooms and nick are those asked for |
| Pictures, views | caches and layout | – | – | – |

Calls and shared state: views call models; models call `TackyBackend`; `BackendBinding`
gives each model the *connected edge* (the link is up, ask again); `TackyBackend` fails
every request out when the link goes and drops notifies while it is down. In the service
the accept thread, one reader per connection, one writer and tacky's thread share
`client`, the token table and a bounded queue.

`PROJECT.json` lists every part with its files (`components`) and every hazard with its
line and the properties that watch it (`hazards`).

### What is modelled

| Module | Lines of code it stands for | Status |
|---|---|---|
| `ChatWindow` | `ChatModel.cpp`, `ChatModel.h` | all of the window; not reactions, retractions, receipts, read markers |
| `ChatWindowProofs`, `ChatWindowExtentProofs` | theorems about `ChatWindow` | – |
| `ServiceLink` | `FrameRouter.java`, `TokenMap.java`, `SocketTransport.cpp`, `TackyBackend.cpp` | all threads; whole frames, well formed |
| `Framing` | `SocketTransport.cpp`, `Lenpipe.java` | complete |
| `Attachments` | the transfers of `ChatModel.cpp` | complete; sizes and thumbnails are data |
| `Avatars` | `AvatarController.cpp`, `AvatarImageProvider.cpp`, the source of `Avatar.qml` | not decoding, nor the encoder |
| `Requests` | the promise of `TackyBackend::request` | abstract specification |
| `CallsModel`, `MCCalls` | `CallsModel.cpp`, `MediaPermissions.h`, the pull of `AccountsModel` | the states of calls; not media |
| `GroupCall` | `GroupCall.cpp`, `GroupCallsModel.cpp` | one chat's call; not media, nor sending invites |
| `ServiceLinkProofs`, `CallsModelProofs`, `StorageProofs`, `GroupCallProofs` | theorems about the modules they are named for | – |
| `ChatsProofs` | theorems about `MCChats`, that is `ChatSession`, `OmemoChat`, `SearchModel`, `RoomFinder`, `Composer` | – |
| `Queues` | – | facts about FIFO queues that the proofs cite |
| `MCLiveCalls` | – | `GroupCall` and `CallsModel`, each by itself, with fairness |
| `Storage` | `StorageController.cpp`, the part of `AppController.cpp` that hangs on it | complete |
| `Wire` | `TackyBackend.cpp` as one model sees it | what the modules below stand on |
| `ChatSession`, `Composer` | `ChatSession.cpp` | complete |
| `SearchModel` | `SearchModel.cpp` | complete |
| `OmemoChat`, `OmemoDevices` | `OmemoChat.cpp`, `OmemoDevicesModel.cpp` | complete |
| `ChatListModel` | `ChatListModel.cpp` | rows and order; what is only sent is left out |
| `AuthorNames` | `AuthorNames.cpp` | complete |
| `AccountsModel` | `AccountsModel.cpp` | complete |
| `MucRoom` | `MucRoomModel.cpp` | people, joined, filter, rebuild; not subject or administration |
| `AccountSettings` | `AccountSettings.cpp` | one switch for all; not the decoding of pictures |
| `Preferences` | `AppSettings.cpp`, `AudioDevices.cpp`, `use` of `EmojiModel.cpp`, the log's part of `AppController.cpp` | one key of each kind; not the lists of devices |
| `RoomFinder` | `MucRoomsModel.cpp`, `JoinRoomSheet.qml` | complete |
| `Registration` | `RegistrationController.cpp`, `RegisterAccountSheet.qml` | complete |
| `DesktopAlerts` | `FdoNotifier.cpp`, the events of `NotificationController.cpp` | not what a click opens, nor pictures |
| `PhoneCalls` | `CallRegistry`, `GroupCallRegistry`, `CallRinger`, `CallNotifications`, the calls of `QuackBackendService` | not screens, audio routes, message notifications |
| `MCChats`, `MCLists`, `MCPages`, `MCRoom` | – | the modules above, for TLC |

## 2. The plan

1. **`ChatWindow`** – the core of a chat client, and the part with the most orders of
   arrival. *Done; every invariant proved: type, `OneRequest`, `QuietFailure`, `RealRows`,
   `NothingStuck`, `FailureIsTold`, `GapsHaveACause`, `SettledTail`.*
2. **`ServiceLink`** implementing **`Requests`** – what every other part stands on – and the
   bytes under it, **`Framing`**. *Done; `LinkTrue`, `ReplacementStays` and the refinement of
   `Requests` proved.*
3. **`CallsModel`**, **`GroupCall`**, **`Storage`** – copies with user actions of their own,
   against tacky's sessions. *Done; `RowsTrue` and `ForwardOnly` of `CallsModel`, `OutIsQuiet`
   of `GroupCall` and the three invariants of `Storage` proved.*
4. **`Wire`**, and on it what is kept beside a chat's messages: **`ChatSession`**,
   **`Composer`**, **`OmemoChat`**, **`SearchModel`**. *Done; every
   property of theirs but liveness proved: `OpenTold`, `ViewKept`, `PadlockTrue`, `OneQuestion`,
   `DraftComesBack`.*
5. The copies that are read whole and patched: **`ChatListModel`**, **`AuthorNames`**,
   **`OmemoDevices`**, **`MucRoom`**, **`AccountsModel`**. *Done.*
6. The pages that write: **`AccountSettings`**, **`Registration`**, **`Preferences`**; the
   search for rooms, **`RoomFinder`**. *Done; `RoomFinder`'s part of `OneQuestion` proved.*
7. Beside tacky's frames: **`DesktopAlerts`**, **`PhoneCalls`**; what messages and faces fetch:
   **`Attachments`**, **`Avatars`**. *Done.*
8. Left: `EmbeddedTransport`'s queue across a stop and a start; receipts and read markers of
   the window; `ChatPage.qml`'s own state (what it pages, culls and follows);
   `CallScreens` and the activities.
9. Proofs still worth having: the rows of `ChatListModel` and `AccountsModel` once all is
   quiet, along the lines of `CallsModelProofs`; `SettingsTrue`, along those of `ChatsProofs`.

Every module is written to be proved about: constants with a named assumption where it
needs one, one action per operation, invariants as conjunctions, no `RECURSIVE`. Small
modules that share nothing but the link are run together, each in its own `part` of an MC
module, so that one run asks one question of every member of a family.

## 3. Modules and code

### ChatWindow

`w` is the `ChatModel` object; the operators of the first section are its member
functions, from the state before to the state after. `Use(v)` is a call into it by a view;
`Deliver` handles the head of `wire` to its end, trailing reconciles and reissued requests
included. A row is its timestamp, which is unique in a chat and is its key in the code.
`Become` sends what a handler has asked for; with the link down, `sendArray` queues an
error per request, which is what it does. `FailAll` is `TackyBackend` losing the link:
every request out is errored, in the order of a hash, while the error handler may ask
again.

The store and the archive are external: what `message history` answers in each direction
(`Pages`) is taken from what the code passes and how it reads the answer. `streamUp`,
`bracket` and `missed` are the account's stream, the catchup after it and what the server
has that no catchup has stored. `Answer` may fetch from the archive and then stores.

| Code | Here |
|---|---|
| `issueHistory`, `clearFailure`, `cancelDir` | `IssueHistory`, `ClearFailure`, `Cancel` |
| `loadInitial`, `loadOlder`, `loadNewer`, `retry`, `goTo`, `resetToBottom` | the operators of those names and `PageOlder` … `ToBottom` |
| `cullOld`, `cullNew` | `DropOld`, `DropNew`: the view drops rows from an end, never all |
| `handleResult`, `handleError`, `handleEvent`, `reconcileCatchup` | the same |
| `reload` on the connected edge | `LinkUp` |

`cause` is history. It names the five ways in which the code lets an unfetched run into the
window (`Blame`, and section 6), so that `GapsHaveACause` can say there is no other. It is
cleared where the window is emptied or replaced.

### ServiceLink and Requests

A connection is its generation (`Conn.gen`). `uiOpen` and `srvOpen` are the two ends of a
socket; `down` holds at most `SockBuf` frames, so the writer blocks behind a UI that does
not read. The actions follow the threads: the accept loop in two steps (`AcceptClose`,
`AcceptSet`) because the client is closed before the newcomer is set; a reader in two
(`ReaderTake` tests that it is current, `ReaderSend` registers and forwards), the writer in
two (`WriterTake` picks a connection, `WriterWrite` or `WriterFail` uses it). `closeClient`
is one step, as is a reader's compare-and-set with the `forget` that follows: between their
statements nothing else reads what they change but tacky's reply to a call that is being
forgotten, which is dropped either way.

`Requests` is what a caller of `request()` is promised. `ServiceLink` implements it under
`open <- the tokens of this process still in m_inflight or waiting to be failed`; the
property `AnsweredOnce` is that refinement. A frame carries, as history, the call it
belongs to, which no code looks at.

### Framing

One socket, as bytes. `toUi` and `toService` are what it holds; `onReadyRead` takes any
number of bytes of what has come, and `NextFrame` is one turn of its `forever` loop, so that
a handler of `received` (`loop = "handling"`) may `stop`, `start` or `send` before the loop
goes on. `read` is `Lenpipe.read` on one more byte. Digits are 0 and 1, and a payload may be
made of digits and newlines: a reader that is out of step finds lengths in it. `emitted`,
`put`, `took` and `gave` are the frames of this connection at its four ends. `ServiceLink` has
frames whole.

### CallsModel

`calls` is `m_calls`; `listing` maps an account to the `m_seq` that was current when its
list went out (`m_listTokens`). `handleEvent`, `applySnapshot` (`ApplyRows`, then `Gone` and
`EndAll`), `setState`, `insertCall` and `refreshFor` are the code's. The prompt of
`MediaPermissions` is open between `accept` and `Granted` / `Denied`, with frames arriving
meanwhile. tacky's sessions (`session`) go through the states its snapshots name.
`MCCalls` has two of our accounts calling each other (`BothEnds`), `MCLiveCalls` one account
with a call in and a leg of a group call.

### GroupCall

One chat's call. `legs` stands for the rows of the others: none, up, or over. What
`beginJoin` wants waits for the prompt in `prompt`; with `Asks = FALSE` (a desktop) nothing
else happens before it is answered. `getting` is `GroupCallsModel`'s token of the newest
`get`, which only an answer with no newer `get` behind it matches. tacky holds one call at
a time here, in `mine`; others may hold one in the chat's own room (`busy`). A `start`
makes a room for the call; a `join` is for one that is there.

### Storage

`status`, `armed`, `asking` and `busy` are `StorageController`; `setStatus` has the whole
effect of a new status, `AppController`'s answer to it included. tacky serves only `storage`
until `open`. `Launch` starts both processes; `UiDies` and `TackyDies` one of them. What is
asked for is on the disk (`encrypted`, `pending`).

### Wire

One component of a UI and its share of `TackyBackend`: `send`, `notify`, the frame that
arrives, a link that drops (`Lost`: every token that was out fails, what was under way is
gone) and comes back (`Comes`: the connected edge). A token is not a number here: a frame
is `live` while the caller still holds the token it is on, and a handler that overwrites or
clears its token makes the older frames stale, which is all the code can tell. A request
made while the link is down is queued as its own error, as `sendArray` does.

### What is kept beside a chat's messages

- `ChatSession`: `holds` and `sendOpen`; `view`, `keys`, `dirty`, `viewLoaded` are the client
  data, with the stored row of tacky in `row`. `Create` and `Destroy` are the constructor
  and the destructor with its flush. `Composer` has the draft, the edit's stash and the rest
  of what is only in the UI, so it has no wire.
- `OmemoChat`: `known`, `enabled`, `offered`, `prepared`; tacky's switch is `on`, and whether a
  room is fit to be encrypted `fit`.
- `RoomFinder`: the sheet and its model; `listed` is the question whose rooms are shown, and a
  nick is known by the account whose it is. Nothing is asked again on the connected edge.
- `SearchModel`: pages of hits, each with the question it answers; `cursor` is the page
  behind. tacky answers a search that was cancelled unless the cancel reached it first.

### Lists read whole and patched by events

- `ChatListModel`: `items` are the rows; `applyItem` is a move as `beginMoveRows` counts it.
- `AuthorNames`, `OmemoDevices`, `AccountsModel`: the maps of those classes, each with the
  reads of its own and the events that cross them.
- `MucRoom`: `rebuilt` is the in-place rebuild as a fold of the code's walk (`Walk`), and
  `matches` what it should end at.

### Pictures and files

- `Avatars`: `hash` and `marked` are the controller's; `image` is each `Image` on screen with
  the response that loads for it. A response is `queued` until the controller's thread gets
  to it (`posted`), `out` until it is answered. A binding is read again whenever `rev` moves.
- `Attachments`: `xfer` and `upload` are the two tables of the window, `key` the timestamp its
  own message has in it. Others' messages quote one file (`theirs`), our own has one that is
  being sent. `forgotten`, `crossed` and `followed` are history: what was deleted, what was
  deleted while word of it was under way, and whether an upload was ever heard of.

### Pages that write

- `AccountSettings`: `waits` has the writes whose tokens are set. A save goes `set`, `setNick`,
  then `setRoute`, each of the last two sent by the answer to the one before it.
- `Registration`: `state` and the sheet's row; `session` is tacky's sign-up under the one
  token. `added` is what the sheet adds to the accounts, `made` what servers have.
- `Preferences`: one key, of one of four kinds, which is all that tells keys apart: a setting
  (an empty answer is a key never written), a choice (empty is a value), a gain (empty is
  silence, `unmuted` where it goes back to) and the list of recent emoji. `log` is what tacky's
  log goes by. `missed`, `hasty`, `level` and `had` are history.

### Alerts and calls on a phone

- `DesktopAlerts`: an entry per key with the id the daemon gave it, the alert that is to
  replace it, and whether it was withdrawn meanwhile; `toDaemon` and `toApp` are the bus.
- `PhoneCalls`: `main` is the main thread's queue. tacky's thread only parses and posts;
  registries, notifications, ringer and the foreground type all change on the main thread,
  some of them in a second task.

## 4. The runs

All bounds are constants named in the module that uses them. Checking for deadlock is off
everywhere, for one reason: the budgets below let the system really come to a stop. That a
stopped system is not *waiting* for something is stated instead (`NothingStuck`, the
liveness properties, and all that is said of a quiet wire).

| Run | Shows |
|---|---|
| `window` | every feature of the window at once, any two spontaneous steps crossing each other and the opening load in every order |
| `window_jump_crossing` | *violated* `SettledWhole`: a page asked for after a jump lands on the jump's window |
| `link` | two UI processes over three connections, in every interleaving of the service's threads: each call answered once, nothing of a finished connection left in the table, a displaced reader leaves its replacement alone |
| `link_live` | with a queue that does not fill up, every call is answered or failed |
| `voice` | two accounts, one calling the other: rows never ahead of a call nor going back, and tacky's sessions once quiet, through a drop or a death and a lost server |
| `live_calls` | a group call: two joins behind prompts with a leave between, or a link and an account that come and go around a join: the window shows the call we are in, what was left stays left, a join settles. Voice calls: a leg of a group call has no row, the trust shown is the trust there is, the end of a call is shown in the end |
| `storage` | three relaunches with migrations asked for, cancelled, refused: the gate stands where the store is not open, nothing else is asked before, the buttons come back |
| `chats` | a chat counts as shown while a page shows it, its feed comes back where it was left, the padlock tells what tacky does, a search shows one question, a list of rooms one service, a draft survives corrections |
| `lists` | with nothing under way chats, names, accounts, devices and people are tacky's, in their order; faces and files are what tacky has of them, and each load ends once; a desktop has one popup per chat; a phone rings for the calls that come in; byte by byte, frames are whole and in order at both ends |
| `room_switch` | *violated* `OfThisRoom`: a late answer for the old room fills the new one's list |
| `pages` | what is called saved or made is, the sheet shows the form it was sent, neither page waits for ever; preferences show what is in force, an unmute goes back to where it was |
| `settings_overlap` | *violated* `SavedIsSaved`: Enter in a field saves again under a save, and calls it saved at once |

### Bounds, and why they are enough

*window*: four timestamps, two stored at first, pages of one, two spontaneous steps. Every
feature is switched on, so every pair of features crosses, each with the opening page, the
pull and all answers in any order. Four timestamps leave a run of two to be skipped inside
a window; pages of one make every page a short one for a run of two. `Unsynced` is empty:
a window opened while a catchup is already running is a divergence of its own (section 6).
Steps of tacky that answer something, messages from others and a stream or link that comes
back are not spent from the budget.

*link*: three connections are an attached one, its replacement and one after that; two
lives make tokens repeat; two requests of each and one of the service's own make a queue of
two fill up, and a socket buffer of one makes the writer block. *link_live* has a queue of
five, which is all there is to put in it: the router drops what does not fit, and says so.
The bytes (in *lists*) have payloads of one and two bytes, whose lengths have one digit and two, three
frames over two connections: two of one connection run into each other, or one that is cut
off is followed by a whole one.

*voice*: one drop or death and one lost server, two frames under way each way. One loss is
enough for anything a reattach mends, since the rows start from arbitrary leftovers after
it. *live_calls*: two joins are what it takes for an answer of the first to meet the second;
others in the room on a link that holds, nobody else on one that does not (section 6).
*storage*: three relaunches are request, migrate, and a request back; the losses are one of
each kind.

*chats*, *lists*, *pages*: the link drops once and starts up or down; `Depth` is how many
frames may be under way each way before the user or tacky says something new, two or three
where a read, its answer and an event have to pass one another and one where there is no
more to cross (an answer and what it makes the code ask come on top). Two values, rooms,
senders or servers tell an old one from a new one; three chats make a move go over another,
three people with two in the room make the rebuild insert, move and remove; four alerts and
ids are a popup replaced, withdrawn, raised again and dismissed; two calls and two posted
events are a call beside another, and a call over before it is shown; two faces and two
responses are a load given up under another; two messages quote one file, and one tap waits.

### Fairness

Only what the code's scheduling gives: event loops and threads run (`WF` on each handler
and on each thread of the service), tacky answers what it has, the UI attaches again
(`SocketTransport` retries on a timer), accounts reconnect, prompts are answered. The
writer is only weakly fair: it may be blocked for good by a UI that does not read, and
what unblocks it is that UI's own fair loop or death. Nothing spontaneous (a user, a
drop, a death, a message) is fair.

## 5. What is proved

Every theorem is for all values of the constants that satisfy the assumption of its module:
any page size, history, features and budget of the window; any number of connections, UI
processes, requests and any length of the service's queue; any bounds on launches, losses
and deaths; any rooms, scenes and depth of the wire; any calls of any accounts, legs and keys;
any views, queries, pages of results, services and words. The assumptions say no more than that
sizes are natural numbers (those of a page or a queue positive), sets are of the right
things, and what stands for nothing is not one of what it stands beside. A run has TLC evaluate each of them.

| Theorem | States |
|---|---|
| `ChatWindowProofs!TypeCorrect` | `Spec => []TypeOK` |
| `RequestsConsistent` | `Spec => []OneRequest`: the in-flight set and the pending table agree, one request per direction, no token shared |
| `FailuresQuiet` | `Spec => []QuietFailure`: no direction is both out and reported failed |
| `RowsAreReal` | `Spec => []RealRows`: a row is a message there is, or one whose `<Confirmed>` is on the wire |
| `NothingStaysStuck` | `Spec => []NothingStuck`: no direction is out with nothing under way to free it |
| `FailureStaysTold` | `Spec => []FailureIsTold`: a failure shown is of a failed direction, and a chat with messages is blank only with one shown |
| `ChatWindowExtentProofs!GapsExplained` | `Spec => []GapsHaveACause`: what the window skips will be brought by a forward page now out, or follows one of five named events |
| `TailSettles` | `Spec => []SettledTail`: once all is handled, a window that claims the tail, with none of those events against it, ends at the newest message |
| `ServiceLinkProofs!LinkStaysTrue` | `Spec => []LinkTrue`: types, and nothing owed to a connection that is over |
| `ReplacementIsSafe` | `Spec => ReplacementStays`: what is displaced never takes its replacement's place |
| `CallsAnsweredOnce` | `Spec => AnsweredOnce`: `ServiceLink` implements `Requests`, initial states and every step |
| `StorageProofs!StatusStaysTrue` | `Spec => []StatusTrue`: what is asked is counted, and with nothing under way the status is tacky's |
| `GateStaysTrue` | `Spec => []GateIsTrue`: with nothing under way, what is ready is open while no tacky has died alone, and what is open is ready while no UI has either (`GateIsOpen`); no module is asked before it is installed while no tacky has died alone (`NothingRefused`); no migration runs beside installed modules while neither has (`MigratesBeforeBoot`). What one process does without the other is section 6's |
| `OpenStaysTold` | `Spec => []OpenIsTold`: an open tacky in sight has the preferences and the focus |
| `CallsModelProofs!SafeAlways`, `InvAlways` | `Spec => []Safe`, `Spec => []Inv`: the inductive invariant, in its two stages |
| `RowsMoveForward` | `Spec => ForwardOnly`: no row goes back, and none that was dismissed comes back while the link holds |
| `RowsStayTrue` | `Spec => []RowsTrue`: once nothing is under way the rows are tacky's calls; none is called over that is not |
| `GroupCallProofs!OutStaysQuiet` | `Spec => []OutIsQuiet`: out of a call the camera's preview is off and no one's row is live; the room, the token of a join and a prompt may remain |
| `CallTyped` | `Spec => [](TypeOK /\ WireOK)`: the window's fields, and every frame under way either way |
| `ChatsProofs!OpenStaysTrue` | `Spec => []OpenTold`: once all is handled tacky counts a chat as shown if a page shows it, and not otherwise unless its `close` was lost with the link (`unclosed`) |
| `ViewStaysKept` | `Spec => []ViewKept`: the view scrolled to is the one kept, here and in the store, and what is stored with it stays, save where it was written before the stored one was read (`rash`) or lost with the link (`unsaved`) |
| `PadlockStaysTrue` | `Spec => []PadlockTrue`: with nothing under way the padlock is what messages go out under |
| `OneQuestionStays` | `Spec => []OneQuestion`: what a search or a service has answered is of the question asked last |
| `DraftIsKept` | `Spec => DraftComesBack`: an edit that ends gives back the draft it interrupted |

### The window

`Inv == TypeOK /\ OneRequest /\ QuietFailure` is carried as one. The types make the counter
a number and the frames on the wire pages of timestamps. A request gets the counter's
number, which is new only because every pending token is below it (the last part of
`OneRequest`); a settled token frees one direction, and leaves the in-flight set equal to
the pending directions, only because no two requests share a token or a direction; and the
direction an error books as failed is the one it has just freed.

The argument follows the code. For a window `v`, `Good(v)` says of it what the invariant
says of `w`; the first lemmas show that each member function is *sound*: from a good window
it makes a good one whose token counter has not gone down. Soundness composes
(`SoundChain`), so a handler that calls three functions (`Retry`, or a jump that cancels,
asks and refills) is sound because they are. Then there
is one lemma per group of actions (user, delivery, link, backend) and the theorem by PTL.

What the window owes its user is not inductive by itself, since the window alone does not
say what will still arrive. `FeedInv` says that of the wire: a request is with the backend
or its reply is on the wire (`Replied`), and a token is never used twice (`TokensOK`), so
that `NothingStuck` follows when both are empty; a row, *and every row a frame under way
would show*, is a message there is or has its `<Confirmed>` behind it (`RowsVouched`); an
empty window is being filled, has failed to be, or stands in a chat with nothing to show,
which a live message or the end of a catchup will tell it of (`BlankWaits`, with
`EmptyPages` and `CatchupsEnd` for the frames that could leave it blank). On a lost link
only the errors of our own requests are under way (`LinkOK`).

The member functions are shown once more to be *calm* (they add no row and only pending
requests with new tokens) or *fair* (an empty window they leave is as it was or being filled), and the frames
of a backend step to *deliver* (`Delivers`): a request is let go with its reply, a message
moves with its `<Confirmed>`, a catchup closes with its end. `DeliversFeed` then takes any such
step, and `BackendDelivers` shows that all the backend's steps are such.

`ErrorOfAFailure` is as strong as it can be: that the message is of the page which failed is
not so (section 6), which the proof was where it came out.

What lies *between* rows, and beyond them, takes a third invariant, `ExtentInv`, each part of
it for a window with no `cause` against it. `Whole` is `GapsHaveACause` as a step keeps it: a
gap is ahead of the cursor of a forward page that is out. `Held` has that cursor within the
window, and the older page's on a row. `Edge` says of a window that claims the tail that it
ends at the newest message, or that a forward page is out, or that a frame under way or a
catchup will tell it. All this is kept only because of what the wire holds, which is `Frames`:
a page that answers a request skips nothing from that request's cursor on (`PageFits`); a live
row has its tail behind it (`Paired`) and is newer than all that was shown before it (`Rises`);
and a message that was the newest as a frame went out is, up to the next push of the tail,
next to any live row and beyond any page (`Reaches`).

The steps fall in three. The backend's grow the store and the wire together (`Tells`,
`Makes`); `ReachesGrows` and `FramesGrow` keep the frames already there true of the store that
has grown, and `ServedReaches` makes what a page served now has to be. The user's and the
link's only ask and drop (`Asks`, `CullEffect`, `FailAllAsked`). For each kind of frame there
is a lemma on how it lands (`OpeningLands`, `OlderLands`, `NewerLands`, `JumpLands`, `NewLands`,
`TailLands`, …), which uses that the step is blameless: `Blamed(…) = {}` is what excludes the
cases of section 6. `GapsHaveACause` is then read off `Whole`, and `SettledTail` off `Edge`
with nothing on the wire.

This proof changed the model. Some definitions under `Blame` were too narrow, and
`GapsHaveACause` was false with more messages or faults than TLC had been given: each step the
proof could not take was a way for the code to leave a gap, which section 6 lists.

### The link

`LinkTrue` and the refinement share one invariant, `Inv == TypeOK /\ NothingOwedToTheGone /\
Threads /\ Labels /\ Books /\ Calls`. `Threads` says where each connection is between the accept
loop, its reader and its end, `Labels` that whatever belongs to a connection is marked as its
own all the way (so that a token of an earlier UI process, whose tokens also start at 1, is
never taken for one of this), `Books` keeps the UI's tokens, and `Calls` says of a call of the
connected UI that it is in one place at most: the socket, the token table, the queue, the
writer's hand or the socket back; and that wherever it is, it is waited for. A step that would
answer twice would find it at two of them. `CallsAnsweredOnce` maps the initial states, and
then each action to the `Requests` step it is (`Ask`, an answer read, a failure) or to a stutter.

### The storage gate

`Inv` has the types and the count of requests (`Typed`, `Counted`); that the UI is to hear of
whatever moved tacky's status (`Fresh`: it asks, is about to, or the last answer under way is
the right one); that one action is out, and the buttons know (`OneAction`); what the disk, the
process and the gate have to do with each other while tacky has not died under a UI
(`TackyLives`), with no UI dead either (`Pended`), and in sight (`TellsAll`). These last three
carry the exemptions of `Together`, `spent.tacky = 0` and `spent.drop = 0`, which section 6
gives the reasons for. `NothingRefused` and the first half of
`GateIsOpen` (what is ready is open) are stated, and proved, for a UI that dies as well: only a
tacky that dies under a living UI is asked too early, or let through before it is open.

### Voice calls

The invariant speaks of one call `c` at a time, but for the types and that a list under way is
waited for (`Awaited`); `Core(c)` is proved first, and by itself.

- `Sessions(c)`: a row, a hangup or a dismissal is of a call tacky has had, and a row shown as
  over is of one that is over or was hung up.
- `Words(c)`: the first word said of a call (`CallIncoming`, `CallOutgoing`) is under way before
  any other, and while there is no row; and whatever would put up the row of a call that is over
  has that call's last word behind it.
- `Spared(c)`: the list that will count, the last on its way with none asked for behind it, does
  not leave out a row older than its request unless that call is over. This is why
  `applySnapshot` may end such a row, and what makes `Core` inductive.
- `Torn(c)`, `Hidden(c)`: as long as the link holds, a hangup is on its way to tacky until the
  call is over; and a call dismissed here is either still in `m_dismissed`, or no list names it and
  any list asked for is behind the hangup.

`RowsMoveForward` needs no more: an event and a list both compare before they write, and
`Words` and `Hidden` rule out the two ways back. `RowsStayTrue` adds `Bright(c)`, on what will
still be shown. All of it is excused while the account is going to be asked for its calls again
(`WillAsk`: the link is down, the account is not connected, or its pull or edge is under way), or,
for what a list brings, while one is on its way to tacky (`Fetching`).

- `Shown(c)`, `Progressed(c)`: a call in flight has a row, or its first word or the list that
  counts is on its way; and so for being alerted and active.
- `Passing(c)`: a row whose call is over has its last word on its way, or a list that counts, is
  no younger than the row, and does not name it.
- `Trusted(c)`: the last verdict on its way is true; without one, the row's is.

Each step is one of few kinds: a frame is sent (`BrightSent`, for the events of a deed of tacky's
and for edges), taken without being a list that counts (`BrightTaken`), the list is asked for,
made or handled (`BrightAsked`, `BrightTold`, `BrightListed`), the rows move by themselves
(`BrightStay`), or everything will be asked again (`Asking`, after a drop, a death, a
reattach). With the wires empty and every account connected no excuse is left, and `RowsFollow`
reads `RowsTrue` off the invariant.

### Group calls

`OutIsQuiet` is not inductive by itself: a state frame that named something else than a room
or a stage, or an answer whose token were above those given out, could put the window into a
call half way. `Inv == CallOK /\ AskOK /\ TackyOK /\ WireOK` adds that every frame under way is
one that is sent (`UiFrames`, `Sent`), that there is one prompt at most and its join is still
to be counted, and that tacky is out of a call exactly when it names none.

### Beside a chat's messages

`ChatsProofs` is about the specification the run `chats` checks. `PartsInv` gives the part that
is run the invariant of its own module, and the modules share their first section, on `Wire`:
what `send`, `Lost`, `Comes` and `Says` do to the queues, and that a token let go of changes
nothing else of its frame (`StaleIs`). No property here is inductive, as each speaks of a quiet
wire or of answers, and says nothing of what is still under way. What has to be added:

- *Session.* What tacky *will* count once it has read its queue is what the page shows
  (`OpenAhead`: an `open` or `close` that no longer holds has its opposite behind it), and what
  it will have stored is the view (`ViewAhead`). A read that is waited for has no write behind
  it, and its answer none under way (`LoadsLast`, `LoadsTrue`): this is what `setView`'s dirty
  flag and the flush of the destructor keep, and why a late answer does not undo a scroll. All
  of it carries the exemptions `unsaved`, `unclosed` and `rash` of section 6.
- *Search.* One page at most is waited for, and it is of the chat and words now asked, and is
  the first or the next behind those shown (`Timely`). A page of an older question is not waited
  for, which is all that keeps `applyResult` from showing it.
- *Rooms.* The same for `discover` (`Current`); and a question is out, answered or failed, never
  two of these (`OneStanding`), or an answer could end the wait for another.
- *Padlock.* Each frame the padlock follows says what is so, *or* one that will put it right is
  behind it (`Right`), as `Enabled` and `RoomStatus` overtake the answer of a read that is out. A
  padlock that is wrong has such a frame on the wire, or a click tacky has yet to see, or its
  refusal, which makes it ask again (`OmemoSettles`).
- *Composer.* `DraftComesBack` is an action property and follows from `Kept`: the words being
  written are in the field, or, while a message is corrected there, in the stash. It needs the
  stash to be filled once only, however often one correction is left for another.

The proof assumes `ChatsAssumption` and `ComposerAssumption`. One definition was put differently
for its sake: `Requested`, the requests among a handler's frames, is given by their places and
not by `SelectSeq`, whose recursion the provers cannot unfold.

### What stays with TLC

- Liveness and all that needs fairness (`EveryRequestSettles`, `BusyEnds`, `JoinSettles`,
  `EndsAreShown`, `ViewComes`, …): the prover has no rule for `ENABLED`.
- `CallTrue` and `LeftStaysLeft` of the group call: they hold for the scenes of `live_calls`
  and not for all (section 6), so that there is no theorem for every value of `Scenes`.
- The modules that `lists` and `pages` instantiate: each is small and checked whole. Most are within
  the prover's reach along the lines above and not yet done; those that filter a list
  (`ChatListModel`, `MucRoom`, the emoji of `Preferences`) would first need `SelectSeq` put
  otherwise, as what it returns takes an induction.

## 6. Findings

Three runs show the code doing other than it says.

- `window_jump_crossing` (`backend/ChatModel.cpp:1142`): paging is not held back by a jump
  that is out. The page is answered after the jump's slice has replaced the window, and its
  rows go into a window they do not adjoin; what lies between is never fetched.
- `room_switch` (`backend/MucRoomModel.cpp:134`): another room is put on the page while the
  people of the first are on their way. The subject and joined tokens are overwritten, that
  of the people is not until the page is active, so the answer fills the new room's list.
- `settings_overlap` (`backend/AccountSettings.cpp:69`): `save` does not look whether a save is
  under way, nor does a field's Enter. A second save that takes a new route back says "Saved"
  at once, while the first save's route is on its way, and then lands.

Others were met on the way. They have no run of their own: each is an exemption that a
property names, or a bound that keeps the case out.

- *Window.* A catchup page that stops short of the tail strands a run
  (`ChatModel.cpp:1134`), so does a confirmed row that moves past rows not fetched (1212),
  so does an opening page that lands apart from live rows. A window built while a catchup
  is running does not know it is (398): live rows go in past what is not synced. These are
  the members of `cause`, along with what the proof of `GapsExplained` found of the same kinds:
  a forward page is lost after a live row went in beyond it (725); a cull of the newest rows
  takes the row an older page was asked from (682); a window that attaches during a catchup
  takes a live row over stored messages it does not show (815); a confirmation is of a row that
  a window at the tail does not hold, and is not shown at all (1197). An own send made without a stream moves the pushed tail, and so
  hides from `reconcileCatchup` what a catchup brought before it (1093).
- *Load error.* When an older and a newer page have both failed and the view then drops its
  oldest rows, the older page's failure is forgiven and its message stays, of a page that is
  neither out nor failed (`ChatModel.cpp:494`), against "Why the last page failed"
  (`ChatModel.h:35`): `ErrorOfAFailure` therefore speaks of any direction.
- *Link.* A reply that does not fit the queue is dropped and its token forgotten, as "the
  models re-sync on the next connected edge, so dropping is safe" (`FrameRouter.java:202`);
  nothing brings that edge, and the caller waits for as long as the link holds. Hence the larger
  `Cap` of `link_live`. A writer takes the client, and writes later: displaced in between, it
  fails, and `closeClient()` closes whoever is attached by then (230), against "the newcomer
  wins" (261). `ReplacementStays` exempts that step; the UI it drops attaches again, and its
  calls settle (`EveryRequestSettles`).
- *Calls.* A hangup that goes with the link is not sent again (`CallsModel.cpp:478`; `torn`
  is exempt from `MirrorsTacky`); an accept that is lost stays "connecting" (457); a row
  moved to active by a list has no start time (378).
- *Group calls.* A leave that goes with the link (`GroupCall.cpp:292`) leaves tacky in the
  call; `ShowsOurCall` exempts it (`leaving`). An old state is told by its room (350): a call left
  while `start` is on its way has none yet, so the state tacky sent before it heard of the leave
  puts us back in, against "must not put us back in" (`GroupCall.h:186`). Where the call is in
  another room, the leave, which names the chat's (229), does not end it; and as `m_leaving`
  stays, what tacky says next of it is taken for old, so that a call that goes live is shown as
  joining. `blind` exempts all this in `ShowsOurCall`, `LeftStaysLeft` and `JoinSettles`. The
  token of a join outlives a leave (411): the refusal of a call left before any state of it had
  come ends the next join, if that is still at its permission prompt (`blind`). After a reattach, an `idle` that
  others cause keeps a call of ours on show that is over (333), hence nobody else is about in
  the scene whose link drops. A `get` answered without the call ends a join that is being asked for
  (`GroupCallsModel.cpp:151`). With three joins, the late `ended` of the first call ends
  the phase of the second, and a denied prompt of the third leaves tacky in a call shown as
  ended, hence two joins at most.
- *Storage.* `m_gateArmed` is per UI process, while on Android tacky outlives it: a new UI puts
  up the gate, with its *Encrypt* button, over live accounts (`StorageController.cpp:29`), which
  the comment above (21) means to rule out. A tacky that starts again under a living UI finds
  the gate disarmed (145): `ready` is true over a store that is locked or about to be migrated.
  One that starts again with the status it had is told neither preferences nor focus, which hang
  on a change of status (`AppController.cpp:52`), against "Re-sent on every connect"
  (`AppController.h:171`). `Together`, `spent.tacky = 0` and `spent.drop = 0` leave this out.
- *Chat session.* A `close` made while detached, or lost with the link, is not said again; only
  `open` is, and the chat goes on counting as shown (`ChatSession.cpp:133`; `unclosed`). A view
  flushed before the stored one was read, or after the read was refused, replaces the whole of
  what is stored, other clients' keys included (110), against "so keys we don't own survive a
  write" (`ChatSession.h:152`), and is itself replaced on screen when the read answers (`rash`);
  a flush made while detached is lost, its dirty flag cleared (`unsaved`).
- *People of a room.* A read that is refused is not asked again until a later event or a link
  that comes back makes it (`MucRoomModel.cpp:147`; `unread`).
- *Padlock.* An `Enabled` event drops the read that is out, and with it what the read would have
  told of the room. *Group `get`.* An answer still queued when the link came back is taken for
  the new one's.
- *Accounts.* The error of an account that has since been disabled stays in its row.
- *Account settings.* A password is called saved when it has only been sent: nothing answers
  `set`. A read that is out puts the old password back in the form.
- *Preferences.* The recent emoji are written back whole from the copy here: one used before
  the list is read (or after the read is refused), or under an older answer or event that has
  put the copy back, drops what was stored since (`EmojiModel.cpp:363`; `hasty`), against "the
  emoji picker's memory ... what was sent from it" (`AppSettings.h:59`). A key that was never
  written and whose first write goes with the link shows that write until the process ends, as
  the empty answer leaves it alone (`AppSettings.cpp:190`; `missed`). A mute before the first read is answered,
  under a second read, is undone to unity (`AudioDevices.cpp:108`).
- *Room finder.* A nick once known is put in the sheet when it is opened again, and a newer one
  that comes then is not: the field is no longer empty (`JoinRoomSheet.qml:61`). The account
  behind an open sheet may change: the nick typed in for it then stays (`openedFor`).
- *Registration.* A late failure after *Refresh form* frees the sheet under the new attempt
  (`late`), after which the account added may not be the one made; a success that comes after
  the cancel is an account nobody added.
- *Avatars.* A picture whose load failed, with the link or refused by tacky, stays initials
  until its hash changes or its row comes anew: the binding is read again on the connected edge,
  but its URL is the same (`Avatar.qml:62`; `excused`).
- *Files.* A file deleted while word of its transfer is under way is shown as there again, "a
  thumbnail for a file that is gone" (`ChatModel.cpp:1057`; `crossed`). A confirmation
  that finds no row here leaves the transfer under the old key (1208; `followed`). After a reattach an upload of which
  nothing has been heard since is cancelled by its source, as if it were a download (1049).
- *Phone.* An invite answered in another window or on another device rings on to its 45 s.

## 7. What is abstracted, and what is not modelled

- Text, formatting, media and devices: no state of the modelled parts depends on them. Trust
  in a call's key is kept, as a flag.
- tacky is external. Each module has what the code relies on, from how it is called and from
  the repository's tests: `status` answers after a method see its effect, `encrypt` and
  `decrypt` only act on a pending migration, `start` makes a room, frames of a direction
  keep their order.
- Frames are whole but in `Framing`, where they are bytes; their JSON is always well formed.
- What is only sent, with nothing here that waits on it or shows it but through the events
  and lists that are modelled: pinning and muting chats, room administration, invites,
  log export.
- The parts listed as `not_modelled` in `PROJECT.json`, each with its reason: pure formatting
  (markup, emoji, XML, pictures), platform calls without state, layout, packaging, the frames
  of a video, and the thread hop of `EmbeddedTransport`.
- History variables only record; no action's guard reads them. They are marked as such where
  they are declared.
- Dialogs of the platform (permissions) may be answered at any time, or never unless fairness
  says so.

## 8. Running

```
tlc -config window.cfg ChatWindow.tla          # and so on, as PROJECT.json pairs them
tlapm ChatWindowProofs.tla                     # and the other modules named ...Proofs, and Queues
```

The longest runs (`lists`, `live_calls`, `voice`, `window`) take about two minutes with two workers.
Operators whose comment starts with *Mutant* or *As a bug would have it* are not used by
any specification: each is the plausible bug that one property is there to catch, paired
with it in `PROJECT.json` (`mutants`).
