# Formal model of OpenClaw Mobile

OpenClaw Mobile is a set of clients for one Gateway: an Android app (Kotlin), an
iOS app (Swift), and a C++ core shared by a desktop window (FLTK) and a command
line. Each opens a WebSocket to the Gateway, answers its challenge with a signed
device identity, and then sends requests (`chat.send`, `chat.abort`,
`chat.history`) and receives their replies and a stream of events, most of them
numbered.

This directory holds TLA+ modules of all four programs, TLC runs on small
instances, and proofs, checked by TLAPS, of what matters most for every instance.

    tlc -workers 2 -config MCAndroidClient.cfg MCAndroidClient
    tlapm AndroidProofs.tla

## Inventory

| Part | State | Operations | Talks to |
|---|---|---|---|
| Android `GatewayClient.kt` | socket, connect id, `lastSeq`, `closing`, `connected`, `activeRunId`, pending requests, delayed callbacks | `connect`, `close`, `selectSession`, `sendChat`, `pauseOrStop`, socket callbacks, `scheduleReconnect` | OkHttp's reader thread, the main looper, the activity's listener |
| Android `MainActivity.kt` | transcript, session, status, Pause/Send buttons, attachments | clicks, `handleGateway`, `onCreate`, `onDestroy` | the client's methods and public fields, the cache |
| Android `TranscriptCache.kt` | one file per Gateway and session | save, load | the activity |
| Android `DeviceIdentityStore.kt` | key, token, role, scopes in preferences | `identity`, `saveToken`, `clearToken` | the client |
| iOS `GatewayClient.swift` | the same and the transcript, streaming bubble, receive loop, reconnect task | as on Android, on the main actor with `await` | `URLSessionWebSocketTask`, SwiftUI, the cache |
| iOS `AppModel.swift`, views | draft, attachments, settings | send, retry, reconnect | the client |
| iOS caches and identity | files, Keychain | save, load | the client |
| Core `gateway_client.cpp`, `recovery.cpp` | stream, `ready`, `needsRecovery`, sequence tracker | `connect`, `close`, `call`, `hydrate`, `pump`, `reconnect` | a blocking socket, the device store |
| Core `device_identity.cpp` | identity and token files, which every program of the user shares | load or create the identity; load, store, clear the token | `connect()`, command line |
| Core `gateway_protocol.cpp` | none | build requests, parse frames, by searching texts | core client |
| Desktop `gui/main.cpp` | command queue, pending status, label, worker's client | clicks, `awake_cb`, `shutdown`, `worker_loop` | two threads under two mutexes, the core client |
| Command line `cli/main.cpp` | none beyond the core client and its place in the loop | one call, or a shell: pause, send, pump, recover | the core client |
| Gateway and network | external | requests, events, restarts, close frames | all of the above |

In the modules of the clients, texts appear as frame types and outcomes; how the
C++ core writes and reads them is the subject of modules of their own.

What is hard in this code:

- **Interleavings.** On Android a reader thread writes the fields that the main
  thread reads and posts callbacks that `close()` may just have removed. On iOS
  everything is on one actor, but a loop or a task that has been cancelled still
  wakes up once. On the desktop two threads share a queue and a label.
- **Lost, repeated and renumbered events.** Each client finds gaps by comparing
  numbers; a Gateway that restarts begins at 1 again.
- **State read in one context and used in another.** A history reply does not
  say on screen which session it is of; a queued command names a Gateway that is
  no longer the one connected; buttons are recomputed on some notices only.
- **Files shared without a lock.** Any program may be killed between truncating
  a file and writing it, or may remove the file another has open.
- **JSON without a parser.** A member is where its name first stands in quotes,
  and two files have an escaper and a reader each, which differ.
- **Liveness.** A broken link must be dialled again through several hand-overs;
  a window that closes must end its worker; a shell must come back to its prompt.
  The core's reads have no time-out, and its `close()` reads as well.

The properties that make each part correct are listed with the modules below;
`PROJECT.json` lists every hazard at its line with the properties that watch it.

## Modules

| Module | Models |
|---|---|
| `Gateway` | the far end as the clients use it: sockets with a queue each way, challenge, hello, pairing, history, runs, events with and without a number; sockets that break or are half closed; restarts. External |
| `LinkLifecycle` | abstract promise of a mobile client's link: one socket at a time, replaced only after a wait, none after stop |
| `AndroidClient` | `GatewayClient.kt`: reader thread, main thread, timers |
| `AndroidApp` | `MainActivity.kt` and the cache, composed with `AndroidClient`: every click and notice is one action together with the client operation it calls |
| `IosClient` | `GatewayClient.swift` with its transcript and cache: receive loops, reconnect task, user calls |
| `CoreClient` | `gateway_client.cpp` and the `SequenceTracker`: the steps of a blocking call between two reads |
| `Desktop` | `gui/main.cpp`, composed with `CoreClient`: FLTK thread, worker, queue, label, shutdown |
| `Shell` | the loop of `cli/main.cpp` and `reconnect()`, composed with `CoreClient` |
| `IdentityOnce` | abstract promise of the device store: an identity is made once and is then for good |
| `DeviceStore` | the two files of `device_identity.cpp`, and what `connect()` and the command line do with them, by several programs at once |
| `JsonText` | JSON as the Gateway writes and reads it. External |
| `CoreText` | the text functions of `gateway_protocol.cpp` and `device_identity.cpp`, as operators |
| `TextFlow` | requests, frames, challenges and tokens on their way through these functions |
| `MC*` | what TLC needs to instantiate them |
| `*Proofs` | theorems and their proofs: `AndroidProofs` of `AndroidClient` and `AndroidApp`, `TextProofs` of `JsonText`, `CoreText` and `TextFlow`, `GatewayProofs` what the clients' proofs share, the others of the module they are named after |

### How actions correspond to code

*Android.* One callback is one action, because OkHttp calls the listener from
one reader at a time and the main looper runs one message at a time. Two
callbacks are cut in two. `scheduleReconnect`: the reader tests `closing`
(`ScheduleReconnect`) and later calls `postDelayed` (`PostReconnect`), and
`close()` may come between. `connect()`: `newWebSocket()` makes the socket
`latest` (`Connect`), whose callbacks may run on the reader thread before the
main thread assigns it to `ws` (`AssignSocket`); until then the main thread does
nothing else (`MainIsFree`), and what the reader sends goes to the socket
before. `posted` is the queue of `runOnUiThread`, `timers` counts delayed
callbacks. A delayed callback runs when `posted` is empty, as it was posted
after the notices of the link that was lost and is due later. The reader and
`runOnUiThread` keep their order. Fields are not volatile in the source; the
model gives every write at once and in order.

*Activity.* `AndroidApp` joins each client step with what `handleGateway` does
about its notice, in the action that takes the notice from the queue. A
transcript is reduced to the set of sessions its bubbles come from: that is all
the properties ask of it. The activity starts with a session the intent names, any
of `IntentSessions`; the client is not told and starts with `MainSession`.

*iOS.* The code between two suspension points is one action. `loop[w]` says where
the receive loop of a socket stands, `retries` counts reconnect tasks asleep,
`firing` is the one past `Task.isCancelled` that still waits for the main actor.
A cancelled loop wakes with the frame it had received or with an error.

*Core and desktop.* A blocking call is the interval in which `call` is not
`"none"`; each frame it reads is an action, so that the FLTK thread, the Gateway
and the network move in between. `Desktop` says which call the worker makes
when. `close()` on a stream that is up is such a wait too: `HangUp` sends the
close frame, `sock` is then `"closing"` until the Gateway closes in its turn
(`FarEndCloses`) or the link breaks, and what follows needs `StreamIsDown`. Each
place that calls `close()` says so: `HangsUp` where the program itself or the
`close()` at the head of `connect()` does, `ConnectGivesUp` where a `connect()`
that fails does. `connect()` of the window is two actions because it sets the
status under one mutex and enqueues under another. `pump()` looks at its
deadline between two reads only, so a read that has begun (`call = "event"`,
`PumpWaits`) ends with a frame or with the link, as in the code.

*Shell.* `at` is the place in the program, `purpose` says whether a connection is
being made to open the shell, before a message or to recover, `attempts` counts
those of `reconnect()`. The calls are the steps of `CoreClient`; an exception that
nothing catches leads to `leaving`.

*Device store.* Opening a file for writing truncates it (`OpenIdentity`,
`OpenToken`) and closing it writes the text, which fits its buffer, or fails
unnoticed (`WriteIdentity`, `WriteToken`). In between a reader finds nothing, which
is read as no file. `ClearToken` removes the name: a program that has the file
open writes to a file nobody will read (`unlinked`). `Stop` is a kill, an
exception or an ordinary end, at any step.

*Texts.* A text is a sequence of symbols: punctuation, a character some escape
treats in its own way, or a whole word that no other symbols spell. What the code
does character by character (escape, find a name, match brackets) is done symbol
by symbol. A loop over a text is a recursive function from the positions to the
state of the loop there (`Loop`), so that proofs can speak of every position.

### Abstractions

- `hydrate()`'s requests (subscribe, subscribe, history) are one `history`
  request everywhere. The window in which the first has been answered and the
  last has not is inside the round trip.
- Texts, attachments, names, ids and timestamps are left out; a run, session,
  socket or bubble is a model value. A delay has no length; a time-out that the
  code has is a step that may come at any time.
- An event without a number is taken by every client as it comes. Only its kind and
  run matter; that one is lost leaves no trace, so that `missed` does not count it.
  Only a numbered event is sent twice: a client has nothing to know the repetition
  of another by.
- A kill of a mobile app in the middle of a callback is not a step: every change is
  then either made or not. Between callbacks a kill changes no file.
- The desktop's session field is never empty and its Gateway field always parses.
- JSON texts have no white space between symbols, and a `\u` escape is one symbol.
- Identities are opaque values; a signature is taken to be right.
- The bits of `pending` that match replies to requests are the order of the
  replies: the Gateway answers in order.
- Variables named as history (`missed`, `ended`, `skipped`) are written by
  actions and read by properties only. `missed` are the numbers of events lost
  on the way and not made good by a later history reply, `refused` those for whose
  reload the Gateway has answered an error since; `skipped` those a core
  call threw away; `ended` the runs whose end the client has been told.

## Properties and runs

| Run | Instance | What it asks |
|---|---|---|
| `android_client` | 2 sockets, 1 session, 1 run, events to 3 | `OneLink`, `ConnectedMeansAuthenticated`, `GapHasReload`, `SeqOfThisConnection`, `NoGhostRun`, `FailureIsRetried`, and that the client implements `LinkLifecycle` (`ImplementsLink`) |
| `android_app` | 2 sockets, 2 sessions, either of them the intent's, 2 notices, events without numbers | `CacheIsTranscript`, `PauseIsNotStale`, `SendOnlyOnLiveLink` |
| `ios` | 2 sockets, 1 session, 2 bubbles, events to 3 | `NeverStranded`, `GapHasReload`, `NoGhostRun`, `TranscriptOnDisk`, `LossIsRetried` |
| `desktop` | 2 sockets, 2 Gateways, 1 command queued, events without numbers | `SentToChosenGateway`, `ShutdownEnds` |
| `shell` | 3 sockets, 2 attempts, 2 frames in flight, events to 3 | `ReadyMeansHello`, `LossIsFlagged`, `PromptIsCurrent`, `SendsAreHeard`, `ShellNeverHangs` |
| `device_store` | 2 programs, 2 Gateways, 3 keys | `PresentedIsStored`, `StoredTokenIsOurs`, and that the store implements `IdentityOnce` (`IdentityIsForGood`) |
| `text` | strings of up to 2 of 18 symbols | `RequestArrives`, `FrameIsRead`, `SecretsSurvive` |

Each but `text` also checks the type invariant of its module, which is not empty:
it fails if a timer count goes below zero, a second reconnect task is asleep, a
call is in progress without a socket, `send_chat()` is called unconnected, or a
connect request would carry no token.

Five more runs show where the program departs from what its README says. TLC finds
a behaviour of each:

| Run | Behaviour |
|---|---|
| `android_isolation` | switch sessions while a history reply is on its way: the old session's messages are shown, and saved, as the new one's |
| `ios_reconnect` | `connect()` cancels the old loop, whose error schedules a reconnect that tears down the new socket, and so on |
| `ios_spinner` | Pause forgets the streaming bubble before ending it: it spins until a reload replaces it |
| `desktop_status` | `pump()` swallows its exceptions: the label says *Connected* after the link is lost |
| `device_token` | the one token file does not say whose token it holds: another Gateway is sent it in place of the bootstrap token |

Observed while modelling, without a run of their own:

- After a sequence gap the Android header stays at *reconnecting* although the
  reload has been answered; and a run started elsewhere streams on screen with
  *Send* shown until the next notice that recomputes the buttons.
- A challenge that the Android reader handles before `ws` is assigned is answered on
  the socket before, and lost: the new link waits for a Gateway that waits for it.
- A gap asks for the history once. When the Gateway answers with an error, nothing
  asks again: `GapHasReload` says "until the Gateway sends it or refuses it".
- Launched by an intent that names a session, the Android client starts with *main*
  all the same: main's messages are shown, and saved, as the other session's, with
  nothing switched. `android_isolation` launches on main, so that what it shows is
  the late reply; with `IntentSessions = {other}` its property fails this way.
- A Gateway that keeps the connection up and says nothing leaves the worker of the
  desktop in a read, or in the wait of `close()`, and the closing window frozen on
  `join()`, although src/README.md:90 promises background I/O. `connect()` waits so too
  before it dials again.
- After a switch of sessions Pause sends the run of the session before with the key
  of the new one.
- The desktop program never asks `recovery_needed()`: the flag is right and
  nothing acts on it. The shell does.
- A message is sent on a connection that broke a moment ago and the exception of
  `send_chat()` ends the shell.
- A frame whose payload has a member `seq` and comes before the frame's own is
  read with the payload's number; a refusal whose payload says `"ok":true` is
  read as a success. `FrameIsRead` names the orders that are read right.
- Carriage returns, tabs and control characters do not come through the token
  file; quotes, backslashes and brackets do not come through a scope.
  `SecretsSurvive` exempts them (`Plain`, `Bare`).
- A token that is the word `scopes`, or ends in a quote and that word, is where
  the scopes are looked for, in the hello and in the token file: the search goes on
  to the next bracket, which one in the role would be. `SecretsSurvive` exempts
  tokens with that word. The word for the next member does no harm (`role` at the
  end of a token, `ts` at the end of a nonce, `scopes` at the end of a role): the
  search then goes on to the colon of that member.
- A string of a reply's error that is the word `PAIRING_REQUIRED` is enough for the
  refusal to be taken for one that asks for pairing: `FrameIsRead` says so.

### Bounds, and why they are enough

- `Socket` has one value per dial, so two are a connection and the reconnect that
  replaces it. The iOS loop of the first may wake up at any time after the second
  is dialled. The shell has three: the first, one whose reload fails, one that
  replaces it.
- `MaxSeq = 3` is the least number at which a gap can be told from an order of
  arrival: see 1, lose 2, see 3. `android_app` and `desktop` have `MaxSeq = 0`:
  all events are without a number, and there may be any number of them. In
  `android_app` a gap is then not among what the buttons follow; the theorems
  about them cover it.
- `MaxInbox`, `MaxOutbox`, `MaxPosted`, `MaxCommands = 1` bound what is in
  flight at the moment the *other* side adds to it; replies and notices that a
  handler adds itself are never held back, so that `posted` and `outbox` exceed
  the bound when a handler posts twice. The shell's inbox has two, so that an
  event may stand between a request and its reply; `android_app` lets two
  notices wait, so that a stale one may stand before the one that corrects it.
- `MaxAttempts = 2` for the eight of `reconnect()`: one that is retried, one that
  is the last.
- `Run` has one run, which may be started by this client or be active before it
  connects; two sessions are enough to take one for the other; two bubbles for a
  stream and the next one.
- Two programs start together on the device store, with a key each and one more
  for what is made after a kill. Programs, Gateways and keys are interchangeable
  and declared symmetric there.
- Strings of two symbols hold every pair an escape or a bracket could go wrong
  on: a backslash before a quote, before itself, before a letter that has a
  meaning after one, at the end; an opening and a closing bracket; the name of
  a member that is searched for, after a quote or alone. The theorems below hold for strings of any length.

The system may stop (no socket left to dial, user idle, window closed), so runs
do not check deadlock. That something must still happen is said by the liveness
properties.

### Fairness

Weak fairness is asked only of what a platform scheduler runs whatever the user,
the Gateway and the network do: on Android reader callbacks, delayed callbacks,
the looper and the end of a `connect()` that has begun; on iOS loops and tasks that can run; on the desktop the two
threads, once a click or a shutdown has begun; in the shell the program. The
deadline of `pump()` is strongly fair (`PumpEnds`): it is looked at between two
reads, again and again, and time passes. Nothing is asked of the Gateway, the
network or the user.
`FailureIsRetried` and `LossIsRetried` exempt a client that is closed and one
that has used up the sockets of the instance. `FailureIsRetried` speaks of a
socket that broke: one the Gateway alone has closed may never be noticed by the
Android client, which does not override `onClosing`; whether OkHttp reports such
a close is left open in the model. `ShutdownEnds` and `ShellNeverHangs`
exempt a Gateway that is silent for ever on a connection that is up
(`FarEndIsSilent`), in a read or in the wait of a `close()`: `connect()`, `call()`
and `pump()` declare time-outs that a read does not use, and `close()` has none.
What they say is that nothing else keeps the program: no command in the queue, no
stream of events, no attempt to reconnect. The weak fairness of the
worker and of the shell makes neither wait end: the step after a read needs a frame
or a link that is lost, the step after a `close()` needs `StreamIsDown`.

## Proofs

All theorems hold for any sockets, sessions, runs, bubbles and Gateways and any
bounds, those of texts for any symbols and strings of any length, from the
assumptions named in the modules (distinct null values, bounds that are positive
or, of event numbers, commands and texts, natural). Each is `Spec => []P` by an inductive invariant, with a lemma
for each group of actions and each part they disturb.

`GatewayProofs` holds what the clients' proofs have in common, stated of one socket
`w` so that each client says for itself which socket it means: what adding to a queue
and taking from it preserve (`Has`, `Once`, `Quieter`); that the Gateway and the
network move on one socket and keep it to one handshake (`Handshake`), to numbers
that were used (`NumbersUsed`), to an order of what is told of a run (`Telling`) and
to an account of what was lost (`Counted`, `MadeGood`); and that a client which
reads one frame keeps each of them (`ReadHandshake`, `ReadNumbers`, `ReadRuns`,
`ReadCounts`). A client's own proof shows that its handlers are such reads.

| Theorem | Invariant and argument |
|---|---|
| `TypeCorrect`, `AppTypeCorrect`, `IosTypeCorrect`, `DesktopTypeCorrect`, `ShellTypeCorrect`, `StoreTypeCorrect` | types of all fields, queues, files and the far end. On iOS "at most one task asleep" needs that `scheduleReconnect` replaces the task. On the desktop "no call without a socket" needs that the worker starts a call only when ready, hence `ReadyMeansHello`. In the shell "ready when sending" needs to know at which places a client is ready |
| `OneLinkAlways`, `CloseIsFinalAlways` | at most one live socket, and a live one or exactly one reconnect on its way while not closed; inductive together with the types, because a callback is only posted by the reader of a socket that has failed, and there is no other |
| `ImplementsLinkAlways` | strengthened by `OneHandshake`: of challenge, connect request and reply a socket has one at a time on its way, none before it opens and none once the client is connected. So a client is connected once per socket and leaves that state only by a loss, a refusal being out of the question; everything else is a stutter of `LinkLifecycle` |
| `SeqOfThisConnectionAlways` | strengthened by `Numbers`: what the socket in use carries, what it may carry again and what the client saw of it are numbers its Gateway has used; a socket not yet open carries nothing, and a Gateway that restarts breaks the socket |
| `NoGhostRunAlways` (Android) | strengthened by `RunsEnd`: nothing of a run comes before the hello (`Greeted`); behind the end of a run only a numbered event from before it is sent again (`Ordered`); and what names a run whose end was told is an event the reader drops as old (`NoneRevived`); no event without a number is among those, as none of them is sent again |
| `GapHasReloadAlways` (Android) | strengthened by `Counts`: nothing that was lost is on its way or the last seen, so that a number one above the last seen shows no new loss, and any other asks for the history at once; an error puts what was lost by then among the `refused`. `Unassigned`: while `ws` is not the socket dialled last, the client is not connected |
| `HandoverAlways` | on iOS: only the current socket is alive; one that was replaced leaves a frame at most, and never do two of them carry what only a device that asked is sent; once the current socket asks, nothing is left of the others and `connectId` is its own. Inductive with the types: a loop reads the current socket only when the others are empty, and the answer to a challenge is such a read |
| `NoGhostRunAlways` (iOS) | `RunsEnd` in two parts: the current socket tells of runs as on Android (`Telling`), a replaced one has left a frame that is harmless (`Leaves`). A leftover frame that says something of a run is alone with its kind, by `Handover`, and is read while the current socket tells of nothing |
| `GapHasReloadAlways` (iOS) | `Counts` as on Android, and `LastSeen`: a hello left over can show "connected" before the Gateway has let the current socket in, but no event has been seen since then, so that none shows a loss. `Handover` gives that a connected client that is not closed has a socket |
| `PauseIsNotStaleAlways` | with `RunsNamed`: deltas name a run, so that one that puts Pause up also sets `activeRunId`; a send reply that names none sets it to none, and its own notice takes Pause down |
| `SendOnlyOnLiveLinkAlways` | strengthened by `LinkShown`: a link that is down is shown to be, or a notice of its loss waits with no "connected" behind it |
| `ConnectedAlways`, `ReadyMeansHelloAlways`, `ShellReadyMeansHello` | strengthened by `HelloIsEarned`: every hello in flight is on a socket the Gateway accepted. Without it nothing says what the frame that sets the flag means |
| `JoinIsAnsweredAlways` | with `StopIsAsked`: Stop is queued after `closing_` is set and nothing is queued after Stop, so that the worker takes it or is at its end before (`AtEnd`: past the loop, closing its client or gone) |
| `SentToChosenGatewayAlways` | strengthened by `BusyOnCommand`: a request waits for its answer only while the worker processes a command, and its client is then of that command's Gateway; what else it waits in is a `close()`, of a client it is about to leave |
| `CacheMirrorsTranscript`, `TranscriptOnDiskAlways` | inductive with the types: every action that changes the transcript or the session also saves or loads, for every session an intent may name |
| `NeverStrandedAlways` | inductive with the types, over loops, tasks and the one task past its check |
| `AppImplementsClient`, `AppKeepsClientGuarantees` | every step of the activity is a step of the client or a stutter, so what is proved of the client alone holds in the app |
| `SendsAreHeardAlways` | strengthened by `Heard`: a place past a reload on a ready connection has the session subscribed, for a hello resets the subscriptions and only a reload follows it |
| `LossIsFlaggedAlways` | strengthened by `LossInv`: the numbers seen, queued on the connection in use, lost and skipped are apart and none is above the Gateway's, but for the first event, which may come twice, and for events without a number; and the flag is set once something lost is below the last one seen |
| `PromptIsCurrentAlways` | from `LossIsFlagged` and `Recovered`: the shell comes to its prompt with the flag clear or the client not ready |
| `IdentityIsForGoodAlways` | a step of the store is a step of `IdentityOnce` or a stutter: an identity on disk is truncated only by a program that found none before, and such a program is a maker, so that nothing was settled |
| `PresentedIsStoredAlways`, `StoredTokenIsOursAlways` | while no two programs made an identity at once, a program past its lookup holds the key on disk and a token is issued to that |

The theorems of texts rest on one another:

| Theorem | Invariant and argument |
|---|---|
| `EscapeIsRead` | an escaped string is one symbol or a backslash and one symbol for each symbol of the string (`Codes`); a reader of codes gives each its meaning back (`Undone`), for the tables of both files |
| `MembersAreRead` | where brackets and quotes stand balanced around a value, a scan is after it where it was before, and is deeper or quoted in between (`Calm`, `Quiet`). So an object's scan is at its outer level at the names of its own members and nowhere else (`Laid`, `StartsAre`) |
| `RequestArrivesAlways` | inductive with `Carried`: the text on its way to the Gateway is one that reads as what was asked (`Told`), by the two theorems above for each of the three requests |
| `FrameIsReadAlways` | inductive with `FrameCarried`: what the client will hear of the text is what was written. A search finds a name at the first place where it stands in quotes; a member before it does not have it (`Free`), has nothing of the kind in its value (`Clear`), or is the one meant (`Finds`, `Search2` to `Search4`). The string right before a member may end in its name (`Ending`, `Beside`): nothing but quotes and a comma lies between that end and the member. The value found is cut where its brackets or quotes end |
| `SecretsSurviveAlways` | inductive with `SecretsCarried`: hello and token file give the same token, role and scopes, and the answer to the challenge the same nonce and time; the same lemmas of searching, of which a token's, a role's or a nonce's end needs `Beside`, with the escaper and reader of the other file (`HeardAgain`) and the cutting of a list of strings at its commas (`CutRuns`) |

What is said of every position of a text is proved without an induction rule: the
numbers have no infinite descent (`Least`, from the library's fact that `<` is well
founded on `Nat`), so that a set of positions that holds the first and with each the
next holds them all (`UpTo`). Loops are functions over positions, so that one
unfolding of such a function is all a step needs.

Every invariant that a passing run checks is a theorem, and so are the refinements of
`LinkLifecycle` and `IdentityOnce`. The proofs reach what the instances do not: it
takes three sockets for a hello to be left behind and read on the next connection,
and `GapHasReload` of iOS holds then for another reason than on Android; it takes a
token that ends in the name of a member further on for that member to be looked for
in the wrong place, which the proof of `SecretsSurvive` ran into and symbols added
to the instance then showed.

Only model-checked is liveness (`FailureIsRetried`, `LossIsRetried`, `ShutdownEnds`,
`ShellNeverHangs`), which is out of the prover's reach. The safety half of the first
three is proved (`OneLinkAlways`, `NeverStrandedAlways`, `JoinIsAnsweredAlways`: what
is waited for is on its way), and TLC adds that it comes.

## Not modelled

- The identity stores of Android and iOS: one preferences file, one Keychain, of
  one process each, written by single calls that the platform orders. `saveToken`
  of Android is three such calls in a row: a kill between them leaves a new token
  with the role and scopes of the one before.
- A power failure that tears a file: nothing in the C++ store syncs, so that what
  is on disk then is the file system's affair.
- Drafts, attachments and payload limits of both apps, search, layout; the cache
  of the session list; the desktop's transcript. They are widgets' texts and
  bytes with no second actor.
- `parse_gateway_url()`, key generation, signatures and Base64: pure functions of
  opaque data. `sessions.list`, `sessions.subscribe` and `health`, whose texts the
  programs put together from constants.
- The command line's other commands make the calls of a prefix of the shell and
  end; `clear_recovery_needed()` is called by nobody.
- Data races on fields that are not volatile, as to values torn or seen late.

## Plan

1. Done: all modules above with their runs and theorems.
2. Done: the shared lemmas about one socket, and with them `NoGhostRun` and
   `GapHasReload` of the iOS client; the texts for strings of any length. Next: the
   refinement of `LinkLifecycle` by the iOS client, if the code comes to satisfy
   `ReconnectsLostLinks`; the bound that `reconnect()` puts on the attempts of the
   shell.
3. If the code gains time-outs, of reads and of `close()` both, `ShutdownEnds` and
   `ShellNeverHangs` lose their exemption: that is the first thing to change here.
