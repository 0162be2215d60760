# TLA+ models of the Deskflow client for HarmonyOS

This directory holds specifications of the program under `src/`: an ArkTS
application whose C++ library speaks the Deskflow protocol to a server and
injects the mouse and the keyboard of that server into a HarmonyOS PC. TLC
checks the models on small instances; TLAPS proves their safety properties for
every value of their constants.

`PROJECT.json` lists the runs, the source lines each definition translates, one
mutant per checked property (a plausible bug of the code the property must
catch), the hazards of the code and the theorems.

## 1. The system

Paths below are relative to `src/entry/src/main/`.

| Component | State | Operations | Modelled by |
|---|---|---|---|
| **Client life cycle** `cpp/protocol/deskflow_client.cpp` (`start`, `stop`, `run`, `runOnce`, `handshake`), `socket_stream.cpp` (`connect`, `close`), `napi_init.cpp` (`ConnectDeskflow`, `DisconnectDeskflow`, `SetAutoReconnect`) | atomics `m_running`, `m_stopRequested`; plain `m_shouldReconnect`, `m_autoReconnect`, `m_handshakeDone`, `m_fd`, `m_buffer`; the process's descriptors; the last posted status | connect (stop, wait 1.5 s, start), disconnect, dial with a 5 s timeout, handshake, message loop, reconnect after 3 s, unwind | `DeskflowClient`, `ClientLifecycle` |
| **Input** `deskflow_client.cpp` (`handleMessage` from CINN to DKDL, `syncModifiers`, `injectMouse*`, `injectKeyEvent`) | `m_active`, `m_pointerX/Y`, `m_mouseButtonsDown`, `m_keyStates` | one handler per message; injection into the system | `InputSession` |
| **Clipboard** `deskflow_client.cpp` (`pushClipboard`, `handleMessage` for DCLP), `SocketStream::writeFrame` | `m_clipChunk`, `m_clipboardSync`, `m_handshakeDone`, the byte stream | push a text, assemble a text | `ClipboardWire` |
| **Tray** `ets/statusbar/StatusBarManager.ets` | `state`, `added`, `debounceTimer`, `updateChain`; what the status bar shows | `add`, `updateState`, `doUpdateState` | `Tray` |
| **Framing** `socket_stream.cpp` (`readFrame`, `readExact`, `pushToBuffer`, `close`), the parsing in `deskflow_client.cpp` | `m_buffer`, `m_bufferPos`, the bytes on the way | read a frame, parse a key and its arguments, answer | `FrameStream`, `MessageChannel` |
| **Message formats** `proto_util.cpp`, `protocol_types.h` | none | `writef`, `readf` | `ProtoUtil` |
| **NAPI bridge** `napi_init.cpp` | `g_statusTsfn`, `g_clipboardTsfn`, `g_tsfn` under a mutex; the client's two `std::function`s | register a callback, post to JS | `Bridge`; the calls in `DeskflowClient` |
| **Carrier ability** `ets/background/BackGroundAbility.ets` | the process, its event subscriptions | connect from a Want, publish statuses, stop on an event, push a text | `Carrier`, `ClipboardPage` |
| **Main page** `ets/pages/Index.ets` | `connState`, preferences, `clipboardSync`, `lastRemoteClipboard` | connect, disconnect, map statuses, bridge the clipboard | `Carrier`, `ClipboardPage` |
| Quick view, entry ability, backup ability | a key-value store | display, window handling | not modelled: no logic of their own |
| Tests, scripts, resources | | | not modelled: templates and assets |

How they interact. The page starts the carrier, a process of its own, through a
`Want`; they talk by common events (status, clipboard, stop, clipboard push).
The carrier's JS thread calls the NAPI functions; `ConnectDeskflow` spawns a
detached thread that runs `DeskflowClient::run()`, and that worker posts
statuses and clipboard texts back through thread-safe functions. Except for the
two atomics and the mutex around the thread-safe functions, nothing protects
what the JS thread and a worker share. The page also calls
`StatusBarManager.updateState`, whose work is spread over promises and a timer.

What makes it hard:

* *Two threads, one object, no lock.* `stop()` closes the stream of a worker that
  may be in `connect()`, in `recv()` or in its own `close()`; `start()` may
  come while an old worker unwinds.
* *State that outlives its connection.* `m_handshakeDone`, `m_buffer`,
  `m_clipChunk`, `m_mouseButtonsDown` and `m_keyStates` belong to the object, the
  protocol's state to a connection, and connections break anywhere.
* *An input system with its own rules.* Injection is authorised some time after it
  is asked for, and mouse events at coordinate 0 are refused.
* *Awaits.* The tray's state changes while icons are being loaded.
* *Two writers.* Frames are written in two calls by two threads.
* *A stream that is cut anywhere.* `recv()` returns any part of a message, and
  what a handler does not read is in front of the next frame.
* *Two processes and a system between them.* Events are lost when nobody is
  subscribed yet, a start is refused while the old process is still there, and
  an answer arrives after the question has changed.
* *A shared pasteboard.* The same notification announces what the user copied and
  what the page has just put there.

What makes each part correct: one owner of the client, no leaked or wrongly
closed socket, a fresh stream per connection, prompt and certain termination
after `stop()`, reconnection exactly when promised, and a report of every end
nobody asked for; no button or key that stays down and no event that is
refused; each message handled once, in order, with the values sent; texts
delivered whole or not at all, not echoed, and frames kept intact; values
posted to JS never doubled, and lost only where a callback is replaced; a page
and a tray that end up showing the state the connection is in, and no carrier
the user has turned away from.

## 2. The modules

### DeskflowClient, ClientLifecycle

Each thread has a program counter. A step is one access to shared state or one
blocking call: `SocketStream::close()` is four steps (`CloseTest`, `CloseFd`,
`CloseForget`, `CloseClear`), which the JS thread and a worker may interleave;
`connect()` keeps its descriptor private until `ConnectOk` assigns `m_fd`;
`start()` tests and sets its two flags one by one; `recv()` is a call and a
return, with whatever the other thread does in between. `m_buffer` is a plain
vector: when Js's `clear()` races with the worker's, `CloseClear` may lose
either.

The server is external: it sends a frame or ends the connection (`PeerStep`).
A message is one of eight kinds, by what it does to the connection
(`Messages`). `CloseWakesRecv` says whether `::close()` in one thread wakes a
`recv()` blocked in another; the safety theorems hold for both answers. Only the
client's own descriptors have numbers: what a second `::close()` would do to a
file the rest of the process has opened under that number is not modelled.
History variables record what a property needs to look back at: why a worker
ended (`why`), how many messages it handled after `stop()` (`late`), whether
this connection has seen its DSOP (`dsopSeen`).

`ClientLifecycle` is the abstract promise: off, on or stopping; a link that is
down, dialling or up; a run that has or has not been refused. `DeskflowClient`
implements it under the mapping at its end (`phaseOf`, `linkOf`, `refusedOf`).

### InputSession

All handlers run on the worker, so one message is one action, with everything
the handler calls. What is concurrent is the world around: the connection
breaks and comes back with the object's state unchanged (`Connect` resets
nothing), the authorisation arrives at any moment, the user goes on typing
while the pointer is elsewhere. The input system is external: `Inject` is
the result of a mouse event, `heldButtons` and `heldKeys` are what is really
down. History records which recorded buttons were pressed too early for the
authorisation (`unheard`), so that the device never saw them. Key ids are 16 bits on the wire and are sign extended to 32
(`FromWire`), so a keysym is a pair of halves. Scroll amounts are left out.

### ClipboardWire

The connection, the server's reader, the worker's frame in progress and the JS
thread's frames in progress. A frame is two `writeAll`s, head and body;
`reader` is what the server makes of them, and `"lost"` once it takes bytes
for what they are not. In the other direction the server sends texts as
Start, chunks and End; `m_clipChunk` survives a connection that breaks off.

### Tray

`add()` and `doUpdateState()` are each cut in two at their `await`; timers
and promise continuations are actions. The status bar is external and may
refuse any call. `remove()` has no caller and is left out.

### ProtoUtil, FrameStream, MessageChannel

`ProtoUtil` has the formats of `protocol_types.h` as sequences of conversions,
`writef` as an operator and the pieces `readf` is made of: bytes asked for,
limits, and the value stored, whose sign is that of the caller's variable.
Bytes are numbers; only the letters of a key are abstract.

`FrameStream` is the reader. A step is one `recv()`, which takes any part of
what has arrived, or the end of one `readExact` with what the code does up to
the next: `LengthRead`, `PayloadRead` (pushes the payload behind what is left in
`m_buffer`), `KeyRead`, `CountRead`, `ValueRead`, the last followed by
`Handle` when all arguments are there. Handlers are reduced to what they do to
the stream: their answer, the loop's CNOP, or leaving. The connection may break
between any two bytes, and `m_handshakeDone` stays. What messages do beyond that
is in `InputSession` and `ClipboardWire`.

`MessageChannel` is the promise: messages are handled in the order sent, each
once, and nothing of a broken connection reaches the next. `FrameStream`
implements it (`ImplementsChannel`). Because handled messages carry the values
read, the refinement also compares `readf` with `writef`.

### Bridge, MCBridge

One thread-safe function and its pointer. A post is two steps, the copy of the
pointer under the lock and the call after it; registration releases the old
function and makes a new one. The queues and their freeing are external: a
released function is emptied and then freed. A call of a freed function is
undefined behaviour that the code can reach (`MCBridgeFree.cfg`); here such a call
leaves its value where nobody looks, which is the mildest outcome. The three functions of
`napi_init.cpp` have the same code, so one module stands for each. `MCBridge`
numbers the values and records where each one went, those lost to a freed
function too (`misused`): `EachValueOnce` says how many they can be, one thread
with one value for each registration that released the function, and not that
there are none.

### Carrier

The page and the carrier's process with the system between them: starts through
one service, events through another, so that a STOP and the start after it may
overtake each other (`SlowStops`). `onCreate` and `wireEvents` are cut where
another thread can tell: the worker is started, the status callback is
registered, STOP is subscribed. The worker is `DeskflowClient`'s, reduced to its
statuses, which go by the words `mapStatus` looks for; its queue is `Bridge`'s
with one registration. History records what the user last asked for (`wanted`),
whether the page's state is the user's or the worker's (`byUser`), whether the
last status was dropped (`told`), and which STOPs a start has missed (`ahead`,
`deaf`).

### ClipboardPage

Pasteboard, page, carrier and server. Notifications of the pasteboard come late
and may stand for several changes; reading needs a permission unless a PasteButton
was pressed; the page's switch and the client's are separate. The transfer
itself, `ClipboardWire`'s, is one step.

### MC modules, proof modules

The `MC` modules add the symmetry sets and the values a cfg cannot write;
`Tray` and `ClipboardPage` need none. `MCInputDevices` lets the user choose mouse
or keyboard once, because only CINN and COUT touch both.
The proofs are in modules of their own: `DeskflowClientProofs`,
`InputSessionProofs`, `ClipboardWireProofs`, `TrayProofs`, `FrameStreamProofs`,
`BridgeProofs` (about `MCBridge`, whose record of the values the theorem needs),
`ClipboardPageProofs` and `CarrierProofs`.

## 3. The runs

`tlc -config <cfg> <module>` repeats each.

| Run | Question | Bounds | States |
|---|---|---|---|
| `client_safety` | Who owns the client, its descriptor and its buffer; what is reported; does it implement the life cycle? | 3 workers, 2 descriptors, symmetric | 239 448 |
| `client_liveness` | Does `stop()` end the worker; is a lost connection dialled again, until a session is up? | 1 worker, 1 descriptor | 11 704 |
| `client_silent` *(violation)* | `stop()` against a server that stays silent | 2 workers | |
| `input` | Buttons, motion and wheel, or keys and modifiers, over crossings, broken connections and late authorisation | 3 x 3 screen, buttons 1 to 4; letter, Return, left Shift, Super | 426 608 |
| `clipboard_texts` | Are texts delivered whole, is the first handshake left alone? | texts of 1 and 2 chunks and one too long, pushes of 1 or 2 chunks | 6 650 |
| `clipboard_frames` *(violation)* | Does every frame reach the server in one piece? | as above | |
| `tray` | Does the tray end up showing the state? | 2 queued updates | 7 866 |
| `frames` | Does the reader stay in step with the stream, and understand and answer it? | Hello and 2 messages of 7, 3 versions of server | 27 449 |
| `bridge` | Where do posted values go when a callback is registered again, and how many can be lost? | 2 threads, 2 values each, 2 registrations | 2 247 |
| `carrier` | What does the page end up showing; does an unwanted carrier go away? | 2 servers, one STOP and one start on their way, 2 statuses | 390 366 |
| `carrier_refused` *(violation)* | Does a connect take effect? | as above, STOP before start | |
| `clipboard_page` | Is nothing echoed, and does every copy get through? | 2 texts, 2 events each way | 186 264 |

`MCClientOverlap.cfg` repeats the first two properties of `client_liveness` with two
workers (134 856 states); `MCFramesTypes.cfg`, `MCBridgeTypes.cfg` and
`MCClipboardPageTypes.cfg` check the type invariants of those modules.

Why the bounds are enough. *Workers:* by `OneWorker`, which is proved, one owns
the client; another can be between `m_running = false` and its last status, and
a third lets a second start overlap both. *Descriptors:* two, so that a number
can be closed by one thread and handed out again while the other still holds
it. *Screen:* 3 x 3 has the refused edges, the far edges and an inside; motions
of -2 and +1 overshoot the near edge and reach the far one. *Buttons:* the three
with a name and one that scrolls. *Keys:* one of each way a
keysym is treated (letter of two cases, sign-extended editing key, modifier
with and without an alias). *Texts:* a chunk count of two is the least that can
break off in the middle. *Updates:* the chain runs one at a time and a third in
the queue repeats what the second does. *Messages:* the Hello and two more, so
that the second begins in the buffer the first has left; among the seven each
conversion, a negative number, a byte above 127, an empty string and a list;
connections follow each other without bound. *Bridge:* two threads and two
registrations are the least with a post between a copy and a call, and two values
each show an order; the run stops when all are posted, so deadlock is not
checked. *Carrier:* one STOP and one start on their way at a time, which already
overtake each other; the buttons may be pressed again and again. The switch is on
for one server and off for the other. *Pasteboard:* two texts, because the page
compares with one.

The bounds that guards contain: `MaxPending` (`Tray`), `MaxPush`
(`ClipboardWire`), `MaxSent` (`FrameStream`), `MaxFunctions` and `MaxPosts`
(`Bridge`), `MaxStops`, `MaxStarts` and `MaxPosted` (`Carrier`), `MaxInFlight`
(`ClipboardPage`).

### Fairness

* `Scheduled`: the JS thread and every worker go on. Every call but `recv()`
  returns: `connect()` polls with a 5 s timeout, the back-off sleeps 3 s in
  slices, a short frame is sent or fails.
* `TalkativeServer`: the server sends or hangs up. `recv()` has no timeout,
  so this is an assumption on the server; a Deskflow server sends CALV every three
  seconds (`docs/PROTOCOL.md:177`) and drops a client that does not complete the handshake. Without it
  (`SilentServerSpec`) `StopEndsWorker` fails: the run `client_silent`.
* `AcceptingServer`, a premise of `RedialSucceeds` only: what the server keeps
  having the chance to accept it accepts in the end.
* `Tray`'s `FairSpec`: promises settle and the debounce timer fires, which needs
  500 ms without a state change now and then.
* `FrameStream`'s `FairSpec`: the worker goes on, and `recv()` returns what has
  arrived. The server need not send, and the connection need not last.
* `MCBridge`'s `MCSpec`: a native thread that has copied the pointer makes its
  call. `QueuedArrives` has `JsLoops` as a premise: the JS loop gets to every
  queue. `PostReturns` has not, which is its point.
* `Carrier`'s and `ClipboardPage`'s `FairSpec`: the system delivers events and
  requests, JS threads handle them, a destroyed process ends. Neither the user nor
  the worker nor the server is fair.

### What the violations show

Each quotes its line in `PROJECT.json`, `findings`.

* `client_silent`: `connect()` assigns `m_fd` only at its end, so a `stop()`
  during the connect closes nothing; the worker then waits in `recv()` as long
  as the server says nothing, and the connect that called `stop()` gives up. In
  this instance `close()` does wake `recv()`, so only the missed descriptor is to
  blame: a further `stop()` finds it and ends the worker.
* `clipboard_frames`: a worker's reply can come between head and body of
  a clipboard frame.
* `carrier_refused`: STOP and start are sent together; a carrier that is still
  terminating makes the system refuse the start, and nobody asks again. The page
  stays at CONNECTING, where the connect button is disabled.

Further definitions state what the code or its documents say and the models
refute; the configurations are kept beside the listed runs for whoever changes
that code:

| Configuration | Property | What happens |
|---|---|---|
| `MCClientCnop.cfg` | `CnopOnlyAfterDsop` | after a reconnection CNOP is sent before the connection's DSOP (`deskflow_client.h:126`) |
| `MCClientParting.cfg` | `PartingStatusIsUnrequested` | a stopped worker posts "disconnected" over a new run's status, when the new `start()` clears `m_stopRequested` between its lines 406 and 407 |
| `MCInputStickyKey.cfg` | `NoKeyLeftBehind` | COUT releases buttons, not keys (`deskflow_client.cpp:569` says both) |
| `MCInputModifier.cfg` | `CinnSyncsModifiers` | `syncModifiers` looks Shift up as `0xEFE1`; DKDN stored it sign extended, as `0xFFFFEFE1` |
| `MCClipboardEarly.cfg` | `ClipboardOnlyInRuntime` | `m_handshakeDone` is never reset, so a push during a second handshake writes CCLP before HelloBack |
| `MCInputLetter.cfg` | `LettersAreReleased` | pressed as `a`, released as `A`: the key stays down |
| `MCInputWheel.cfg` | `WheelWorksAtEdges` | the wheel is injected at unclamped coordinates |
| `MCInputLateAuth.cfg` | `ButtonsAreTrueState` | a button pressed before the authorisation counts as down until it is released, and a MOVE may carry it instead of the one that is dragged; `HeldButtonsAreKnown` says that only these differ |
| `TrayAddRace.cfg` | `IconShowsFinalState` | a state change while `add()` loads icons leaves the old icon |
| `MCFramesOld.cfg` | `EverythingIsHandled` | a server of minor version 0 is greeted as such (`docs/PROTOCOL.md:93`), but its shorter DKDN is read with three numbers: the reader takes bytes of the next frame |
| `MCBridgeFree.cfg` | `NoCallAfterFree` | the call is made after the unlock, so the function may have been freed (`napi_init.cpp:299`) |
| `MCCarrierDisconnect.cfg` | `DisconnectTakesEffect` | a STOP that comes before the carrier has subscribed is lost, and the carrier stays |
| `MCCarrierGhost.cfg` | `NoGhostSession` | a status published before the carrier went down puts the page back to CONNECTED after a disconnect |
| `MCCarrierBackoff.cfg` | `ConnectedMeansSession` | "reconnecting in 3000ms" contains "reconnect" and is shown as connected (`Index.ets:88`) |
| `MCClipboardSameAgain.cfg` | `EveryCopyReachesServer` | a text equal to the last one from the server is never pushed, even if the server has another by now |
| `MCClipboardEcho.cfg` | `NeverEchoes` | when a later text could not be put into the pasteboard, the one there is taken for the user's |

## 4. What is proved

From the constants' assumptions only (the JS thread is no worker, `NoFd` is no
descriptor; a screen of at least 2 x 2, buttons 1 to 5, the listed keys; every
text has a chunk; a setting names a server; the bounds are positive numbers), for
any number of workers and descriptors, any screen, any texts, any number of
threads and registrations, any servers, and any number of STOPs, starts, statuses
and events on their way. The theorems about the byte stream have hypotheses
beside, `ServerSpeaks` and for the answers `ClientSpeaks`, which say what a server
and the client may send (below).

Each proof has the same shape: an inductive invariant `IndInv` of named parts, a
lemma per part with a step per action, `Inductive == Spec => []IndInv`, and the
properties as its consequences. TLC checked each strengthening on the run's
instance before it was proved.

**DeskflowClientProofs** proves the safety properties of `client_safety`. None is
inductive; `IndInv` adds to the types

* `Ownership`: a worker owns the client only while `m_running`, and the JS
  thread is past its test of `m_running` only while nobody owns it. This gives
  `OneWorker`.
* `StopHeld`: what the JS thread set in `m_stopRequested` it finds set until it
  clears it in `start()`.
* `StreamEmpty`: where `m_fd` is -1 and the buffer empty; in particular whenever
  nobody owns the client. This gives `FreshStream`.
* `Descriptors`: an open descriptor is `m_fd` or private to a `connect()`; a
  close in progress knows its own. This gives `StopClosesOwnConnection` and,
  with `StreamEmpty`, `NoSocketLeak`.
* `LateIsLast`, `RefusedLeaves`, `Reported`: a late message leads out of the
  loop, a refused worker is on its way out, and whoever ended the run has
  said so or is about to.

The last part of the module proves `Spec => ImplementsLifecycle`: with a single
owner, the mapped link and refusal are what that owner's program counter shows
(`OwnershipShows`), so each step maps to a step of `ClientLifecycle` or to a
stutter.

**InputSessionProofs** proves all seven properties of `input`. The invariant adds
that nothing is down before the authorisation (so that a button is down exactly
if it is recorded and not `unheard`), that the pointer is here only
while `m_active` and that no button is recorded while it is not
(`ButtonBook`), and it states the same about keys for every intermediate state
of a handler (`KeyBook(kb)`), because one message applies up to seven key events.
`OnlyAbandonedKeysStick` needs the other direction for the plain keys
(`PlainBook`): what is recorded is held by the user or was abandoned, and no
other key has a plain key's keysym or keycode (`CodeValues`, `SameFor`).

**ClipboardWireProofs** proves `TypeOK`, `OnlyWholeTextsDelivered`,
`WholeTextsArrive` (an action property) and `FirstHandshakeUndisturbed`.
`Assembled` says that during a transfer `m_clipChunk` holds exactly the chunks
that have come, whatever a broken connection had left in it; nothing is said
between transfers, and nothing needs to be, because Start clears the buffer.
`Undisturbed` says that before the first DSOP there is no push and the server's
reader is where the worker's frame is.

**TrayProofs** proves `TypeOK`, `MenuShowsFinalState` and
`UpdatedIconShowsFinalState`. What is shown is the state, or was refused, or
something is still to come (`WillUpdate`): the timer, a chained update, or the one
under way if the state has not changed since it began. The last is what makes
giving up safe: an update gives up only when the state has changed, and that has
set the timer.

**FrameStreamProofs** proves `TypeOK`, `InStep`, `Spec => ImplementsChannel` and
`AnswersUnderstood`: whatever a server sends and wherever `recv()` cuts it, each
message is handled once, in order and with the values sent, and the server reads
the answers as they were meant. The hypothesis `ServerSpeaks`, beside
the specification in `FrameStream`, is about the constants: a connection begins
with a Hello, every message has a key of the protocol but DINF, the arguments its
format asks for within the limits of `readf`, and a payload `readFrame` takes.
The code needs all of this; `MCFrameStream` has TLC evaluate it for the values
of `frames` (`TheoremsApply`), and `MCFramesOld.cfg` shows what happens
without it. Four-byte numbers end at 2^30, as in the model.

`FramingInv` says of each stage which bytes the reader has and which are to
come: at a length, `got` and the wire are the frames of the messages not yet
handled; at a payload, the rest of that payload and the frames behind it; while
a message is parsed, the wire is the frames behind it, `got` is its key, a length
or a value, and `m_buffer` holds exactly the bytes of the arguments still to be
read (`Suffix`). Two groups of lemmas carry it:

* `ConversionComesBack`: for each of the six conversions and every value it
  carries, `readf` asks for as many bytes as `writef` wrote and stores the value
  written, signs included (`NumberBigEndian1`, `NumberBigEndian4`, `StoredShort`,
  `StoredList`); `KeyComesBack` for keys.
* `SuffixStep`, `ComingParts`, `ComingAppend`: cutting and joining what
  `FlattenSeq` makes of a list of pieces. They need induction over sequences,
  which the library offers for operators only; `SequenceInduction` states it for
  sets of sequences, from the least length that would fail, and the recursion of
  `FlattenSeq` is unfolded the same way.

From the same invariant follows `MissingBytesCome`, the safety part of
`EverythingIsHandled`: while a message is unhandled, whatever `readExact` is short of
is on the wire.

`AnswersUnderstood` needs a second hypothesis, `ClientSpeaks`: the screen name is no
longer than `readf` takes, and the seven numbers of DINF fit two bytes. `Answered` is
the invariant: what is written on a connection are the payloads of the HelloBack for
its Hello and of DINF, CALV and CNOP messages, their keys in the order the handled
messages ask for (`HandleAnswers`, `KeysGrow`), with a CNOP from the first DSOP on.
`ArgumentsComeBack` turns payloads into what is read from them: the
server's reading, argument by argument, and `F`, the first n arguments and the rest
of the bytes, satisfy the same recursion, which has one solution (`ReadsAgree`).

**BridgeProofs** proves `TypeOK` and `EachValueOnce` for `MCSpec`. The types
say that functions are numbered as they are created, so that a new one is neither
released nor freed; `LossesAreOver` says that a thread which has lost a value to
a freed function no longer calls that function, which bounds the losses
(`LossesStep`). The rest is to show that a step moves one value from one place
to the next (`CallOnce`, ...) and every other value of a queue keeps a place.

**ClipboardPageProofs** proves `TypeOK` and the action property `NoEcho`. What is in
the pasteboard is the user's, or the text the page remembers, or the last remote
text was not put there (`RemoteIsRemembered`): this holds at every step, so
it does not matter when the notification comes.

**CarrierProofs** proves `TypeOK` and `PageShowsSession`. The last status with a
word `mapStatus` knows is in the carrier's queue, or, if none is there, among the
published ones, or, if none is there either, what the page shows, unless the user
pressed something (`WordArrives`); queues are first in, first out, so whatever
older carriers had published is ahead of it. It also proves `DeposedHasStop`, the
safety part of `DeposedCarrierEnds`: an unwanted carrier that has not missed its
STOP has one on its way, because the STOPs ahead of a start are never more than
those on their way, and fewer once something else is wanted (`StopsCome`).
Fairness of `StopDispatched` then ends it; that last step is TLC's.

**Model-checked only.**

* Liveness (`StopEndsWorker`, `LostIsRedialled`, `RedialSucceeds`, `TrayCatchesUp`,
  `EverythingIsHandled`, `PostReturns`, `QueuedArrives`, `DeposedCarrierEnds`,
  `SessionIsShown`, `CopyReachesServer`): TLAPS has no liveness under fairness and
  no `ENABLED`.

No module declares a recursive operator.

## 5. What is left out, and the plan

Order: what the other parts depend on came first (life cycle, input), then the
components with races of their own (tray, clipboard), then the byte stream, the
bridge and the two processes; then the proofs, in the same order. What remains:

* safety parts of the other liveness properties, as `DeposedHasStop` is one of
  `DeposedCarrierEnds` and `MissingBytesCome` one of `EverythingIsHandled`: for each, the invariant that says a helpful step is
  enabled as long as the goal has not been reached.

Not modelled, and why:

* The interceptors and the injection demo of `napi_init.cpp`: no ArkTS code calls
  them; they forward what the system reports and keep no state.
* The 1 MB stack buffer of `PushClipboard` and the sequence number of CINN: lengths and
  numbers that nothing else in the client compares. `m_lastClipboardText` is
  stored and never read.
* The growth of `m_buffer`: it is emptied by `close()` only; the models hold its
  unread part.
* Layout, labels, log texts, `savePrefs`, the inversion of the wheel and scroll
  amounts: no property depends on them.
* `DeskflowStatusStore`, quick view, window handling and backup ability: a stored
  value and callbacks of the framework.
