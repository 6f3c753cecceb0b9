# AisLive_pi: a TLA+ model of the plugin

AisLive_pi is an OpenCPN plugin that receives AIS sentences from a websocket
service and hands them to the chart plotter. This directory models it in two
halves, checks the models with TLC and proves their main safety properties with
TLAPS. The lower half is the class `AisStreamClient` and the part of the vendored
IXWebSocket library under it; the upper half is the plugin, its dialogs and its
settings, over the client's contract. `StreamReports` is that contract: the lower
half is proved to implement it, the upper half is built on it. Paths below are
relative to the repository; `IX/` stands for
`third-party/IXWebSocket/ixwebsocket/`.

## 1. Inventory

| Part | State | Operations | Talks to |
|---|---|---|---|
| `AisStreamClient` (`src/ais-stream`) | `m_streaming`, `m_socket` under `m_socketMutex`, `m_thread`, token mode; per session `reachedRunning`, `serverRejected`, `errorReported`; the backoff | `Start`, `Stop`, `Restart`, `IsStreaming`, token setters; `SupervisorFunc` and its message callback | called by the dialog on the GUI thread; runs one `ix::WebSocket` at a time on its supervisor thread; reports states and sentences by callback |
| Client connection (`IX/IXWebSocket*`, `IXSocket*`) | `_readyState`, `_requestInitCancellation`, `_socket` and its interrupt pipe, `_txbuf`, `_rxbuf`, the mutexes `_socketMutex`, `_txbufMutex` and `_setReadyStateMutex` | `run`: connect, poll, dispatch; `send`; `close` | the network; the message callback |
| Main dialog (`src/main-ui`) | search position and box, boat position, follow mode, list of followed vessels | position fixes, slider, check boxes, list edits, start/stop buttons, state label | the client; the plugin; the GUI event queue (`CallAfter`) |
| Plugin (`src/plugin`) | dialog, toolbar state, cursor and boat position, settings file | `Init`, `DeInit`, toolbar, context menu, `SetPositionFix`, preferences, save and load | OpenCPN; the dialog |
| Settings (`src/settings`) | global preferences | OK, Apply, Cancel | the plugin |
| Context menu, generated dialogs, distance helper | none | pure | - |

Two threads matter. The **GUI thread** starts, stops and restarts streaming;
`Stop()` clears `m_streaming`, closes the published socket under `m_socketMutex`
and joins. The **supervisor thread** loops: report Connecting, make a WebSocket,
publish it under the mutex (rechecking `m_streaming`), block in `run()`, take it
back, sleep, try again. The library's callbacks run inside `run()`, but for one: a
`close()` whose CLOSE frame cannot be sent may itself run the Close callback, on the
GUI thread. Reports reach the GUI as queued events.

Hard behaviours, all listed with their lines in PROJECT.json:

* `Stop()` against every point of a session: before the socket is published,
  during the handshake (whose first statement forgets earlier cancellations),
  in poll, in a callback that holds a lock, during tear-down;
* `close()` on one thread and `run()` on the other sharing an atomic state, a
  cancellation flag, a socket and an interrupt pipe without one lock over them;
* a connection lost half-way: in a frame, in the subscribe message, in the CLOSE
  frame, in a poll that fails;
* the order of reports: error messages, failed connects, closes that come twice,
  a close during `Stop()`, a report decided before `Stop()` and made after it;
* the pause between attempts after failures, good sessions and rejections;
* on the GUI side: queued events that outlive the stream they belong to, position
  fixes that override a choice, preferences applied and then cancelled, names
  with commas in the saved list.

What makes each part correct: the client never touches a destroyed socket, never
spawns over a joinable thread, ends on `Stop()`, retries otherwise, and reports
truthfully; the connection loses no wake-up and ends after `close()`, and where it
calls back on the other thread the handler is silent; the dialog keeps the stream's
parameters equal to what it shows; settings survive a round trip.

## 2. Modules

| Module | Content |
|---|---|
| `IXWebSocket` | one connection: `run()` on one thread, `close()` on another |
| `AisStreamClient` | both threads of the client, composed with `IXWebSocket` by EXTENDS: its run thread is the supervisor, its closing thread the GUI |
| `StreamReports` | the abstract contract of the state callback; `AisStreamClient` implements it (`Reporting!Spec`) |
| `AisMessages` | the subscribe message and what becomes of a message received, as operators |
| `Lists` | what a filtering loop keeps of a list, in its order |
| `Settings` | the global settings, what is saved and what is loaded again |
| `MainGui` | the main dialog, its stream (`Stream`, an instance of `StreamReports`) and the event queue; extends `Settings` and `AisMessages` |
| `Plugin` | `Init`, `DeInit`, toolbar, window, preferences, context menu, position fixes; composed with the dialog by EXTENDS |
| `MCIXWebSocket`, `MCAisStreamClient`, `MCPlugin` | values of the constants for TLC |
| `IXWebSocket_proofs`, `AisStreamClient_proofs` | theorems about the connection and about client and connection together |
| `StreamReports_proofs` | theorem: the client implements its contract |
| `Lists_proofs` | lemmas about lists: append, remove, replace, filter, join |
| `Plugin_proofs` | theorems about window, stream, toolbar, token, subscription and area |
| `Queue_proofs` | theorems about the queued events and the label; the plugin's types; the plugin keeps to `StreamReports` |
| `Vessels_proofs` | theorems about the followed vessels and about saving and loading |

### IXWebSocket

`runPc` is the run thread's place in `checkConnection`, `connectToUrl`,
`clientHandshake`, `poll`, `flushSendBuffer`, `dispatch`, `sendData`,
`setReadyState`, `close` and the callbacks; `closePc` the other thread's place in
`close()` and what it calls. `sendReturn` and `closeReturn` say where the run
thread's `sendData()` and `setReadyState(CLOSED)` return to. The remaining variables
are the members named beside them in the module. `socket` distinguishes no object, an
object without a descriptor and an open one.

A step is one access to a word both threads use. `_readyState` is tested and set by
separate steps, and a failed `sendOnSocket()` tests it in one step and
`setReadyState()` in another, as the code does at IXWebSocketTransport.cpp:1088 and
218. Merged are only a wake-up the run thread gives to itself with the access before
it, and the reads with which `poll()` picks its timeout. Three mutexes are held across
steps and are functions of the two places: `SocketMutexFree` (`connectToUrl()`),
`StateMutexFree` (`setReadyState()` around the Close callback), `TxbufMutexFree` (a
`sendOnSocket()` that has failed).

* *Connecting*: `RunBegins`, `ResetCancellation` (IXWebSocketHandshake.cpp:98),
  `HandshakeCancelled`, `HandshakeFails`, `HandshakeLastCheck`, `Redirected`,
  `HandshakeSucceeds`. DNS, TCP, TLS and HTTP are one stage that polls
  `isCancellationRequested()` any number of times; `HandshakeLastCheck` is the
  last time. TLS details, proxies and header syntax only decide whether the
  handshake fails, which may happen at any point.
* *Sending*: `SendDataTests`, `AppendsToSendBuffer`, `SendsOnSocket`,
  `SendFailedTests`, `RequestsFlush` on the run thread, for the Open handler's
  message, PONGs and CLOSE frames; `CloseSendDataTests` to `CloseRequestsFlush` are
  the same function on the other thread.
* *Polling*: `PollBegins` picks the timeout as `poll()` does; the wait ends by
  timeout, interrupt, data, loss or error. `flushSendBuffer()` goes round by
  `FlushGoesOn`, waits, and may read an interrupt that was meant for `poll()`, which
  is then lost (`FlushDropsInterrupt`). After `poll()` comes `ClosingDelayExceeded`
  or `PollReturns`. The 300 ms are abstracted: the delay may or may not be over at
  each turn.
* *Dispatching*: the buffer is a number of complete frames and a tail that is
  clean, part of a frame, or a frame `dispatch()` refuses without consuming it.
  Each frame may be a message, a PING (answered), a CLOSE or an unexpected one, for
  which `dispatch()` calls `close()` itself (`DispatchViolation`, `SelfClose...`).
  A PONG and a fragment change nothing modelled and are covered by
  `DispatchMessage` with a handler that does nothing.
* *Closing*: `CloseBegins` to `CloseWakesUpSend` on the other thread;
  `SwitchTests`, the Close callback and `StoresClosed` are `setReadyState(CLOSED)` on
  the run thread, `CloseSwitchTests`, `CloseCallbackReturns` and `CloseStoresClosed`
  on the other.
* *On its own* (`WsSpec`) the callbacks just return, the Open handler may send, and
  `close()` may be called at any time and again.

### AisStreamClient

`guiPc` is the GUI thread's place in `Stop()`/`Restart()`; `Start()` is one step,
since nobody else acts on what it touches. `supPc` is the supervisor's place outside
`run()`. `m_socketMutex` is a variable because both threads hold it across steps: the
GUI during `close()`, the Open handler during `send()`; from both the Close callback
may run. Testing `m_streaming` and reporting what the test decided are two steps,
between which `Stop()` may begin: `LoopTest` and `SessionBegins`
(ais_stream_client.cpp:259, 261), `OnCloseTests` and `OnCloseReports` (333, 335).
`OpenReleasesSocket` and `OpenReportsRunning` are the end of the Open handler.
`StopInCallback` is the Close handler on the GUI thread. `reported` is what
`SetState()` was last called with, an Error split by its reason. `closeCalled` is
history.

Destroying the WebSocket resets the connection's variables (`TearDown`); all other
steps on them are steps of `IXWebSocket` (lemma `ClientUsesConnection`).
`m_stateCallbackMutex` is not modelled: it is never held while another lock is
taken or a callback runs. `Tokens` are what `SetToken()` may be given. The texts
exchanged are in `AisMessages`.

Definitions marked "faulty" are not part of any next-state relation. They are
variants of the action after them that PROJECT.json uses to confirm that a
property can fail.

### StreamReports

Whether streaming is wanted, whether a supervisor is alive, whether a `Stop()` is in
progress and the last report; and `decided`: whether the supervisor had, when `Stop()`
began, decided to report a new session or a loss it has not reported yet. It says:
which report may follow which; once stopping, a new session or a loss is reported at
most once, only because it was decided before, and then as the very next report;
Stopped is each supervisor's last report; a supervisor starts only when none is alive;
messages arrive only after Running and before the next attempt (`MayDeliver`, which
the client's invariant `MessagesFollowRunning` establishes).

### AisMessages

`BuildSubscribeMessage` cuts the box down to what the token mode allows and adds
the followed vessels; `ProcessAisEvent` keeps the AIVDM strings of an event and ends
each with CR LF; `IsServerError` is the result of `HandleMessage()`. `Payload` has
the shapes these functions tell apart; JSON that is no object, or whose `type` is an
array or object, makes jsoncpp throw and is left out (see section 5). A position is a
latitude in twentieths of a degree, so that half a box and the follow threshold
are integers; a longitude is treated by this code like a latitude, but for the
factor cos(latitude), which is 1 near the equator.

### Lists

`ProcessAisEvent()` and `LoadSettings()` walk a list and skip what they do not want.
`Kept(s, K)` is what such a loop appends: the members of `s` at the places `K`, in
their order. It says the same as `SelectSeq`, but by the places and not by
recursion, so that theorems about its users can be proved.

### Settings

`settings` are the `g_` variables, `config` is OpenCPN's configuration. A name is the
sequence of its comma-separated parts, which makes `JoinedNames` a concatenation and
lets `LoadedSettings` cut the names as `wxStringTokenize` does. Invalid MMSI numbers
are dropped on loading, each with its name.

### MainGui

| State | Code |
|---|---|
| `wanted`, `stopping`, `alive`, `decided`, `report` | the client as `StreamReports` sees it; `wanted` is `IsStreaming()` |
| `client` | its `m_token` and `m_useToken`, and the subscribe message its supervisor holds |
| `queue` | events queued with `CallAfter()` |
| `gui` | the handler in which the GUI thread is blocked or has something left to do |
| `window`, `modal` | existence and visibility of the dialog; the modal dialog that is open |
| `dialog` | search position, boat, first-fix flag, follow mode, box size in use, slider and its range, rows of the list, the state the label shows |

A handler is one step up to the `Stop()` in which it may block. A handler that
changes the area, the size, the token or the list ends in `RestartAisStream`: while
a stream is wanted it begins a `Stop()` and sets `gui` to "restarting";
`StopReturned` and `RestartStarts` are the rest. While `gui` is not "idle" the GUI
thread handles nothing, but the supervisor goes on and queues. `StartClient` is
`AisStreamClient::Start()`, its refusal included. `TokenSet` is `SetToken()` and
`SetTokenEnabled()`, for tokens the locale can represent: another would come out of
`SetToken()`'s conversion to `std::string` empty. `ProcessEvent` handles the oldest
event: a state goes to the label, a sentence to OpenCPN.

The slider is moved in two ways, as its event table says: dragged and released
(`OnScrollThumbRelease_UpdateSearchBoxSize` applies the size), or with keys and
wheel, which only moves slider and label.

### Plugin

`toolbar` holds `isToolbarActive`, the highlight and the menu entry's visibility;
`m_boat` is the plugin's last fix. `ToolbarHides`, `OnClose` and `DeInit` decide the
highlight first, then the stream may be stopped (`StoppedOnLeaving` goes on after
it), then the menu entry goes. The button hides the window before the stream is
stopped, `OnGuiClosed` after it. `DestructorStops` and `DialogDeleted` are
`~DialogMainGui()`: stop, join, and the queued events die with their receiver. A
modal dialog runs an event loop of its own: fixes and queued events are handled
meanwhile, other widgets are not usable. `PluginInit` loads what `DeInit` or the
preferences' OK saved.

## 3. Runs

| Run | Checks | Result |
|---|---|---|
| `ixwebsocket` | `WsTypeOK`, `ClosingIsNoticed`, `CloseOfOpenEndsRun` | hold |
| `safety` | `TypeOK`, `SocketOutlivesClose`, `JoinedSocketIsClosed`, `GuiCallbackIsSilent`, `StreamingIffJoinable`, `MessagesFollowRunning`, `PauseShrinksOnlyAfterGoodSession`, `ReportsFollowContract` | hold |
| `liveness` | `StopReturnsUnlessMissed`, `SessionEndIsRetried`, `RestartEnds` | hold |
| `abnormal_close` | `AbnormalCloseEndsConnection` | violated |
| `stop_returns` | `StopReturns` | violated |
| `callback_thread` | `CallbacksOnRunThread` | violated |
| `running_is_connected` | `RunningIsConnected` | violated |
| `dialog` | `TypeOK`, `SubscriptionMatchesDialog`, `LabelTellsLastReport`, `FollowKeepsBoatInArea`, `OnBoatCentersOnBoat`, `StoppedStreamFallsSilent`, `RestartResumes` | hold |
| `window` | `StreamNeedsDialog`, `BoxWithinRange`, `SubscriptionMatchesDialog`, `TokenIsNeverMissing`, `ToolbarShowsStream`, `ClosingStopsStream` | hold |
| `vessels` | `RowsMatchVessels`, `SettingsSurviveReload` | hold |
| `manual_position` | `ManualPositionStays` | violated |
| `comma_names` | `SettingsSurviveReload` | violated |

All runs check for deadlock. The violated properties are what the repository's own
comments and manual say:

* **abnormal_close.** A connection lost with part of a frame in the buffer: the
  early return at IXWebSocketTransport.cpp:554 skips the code at 748. The state
  stays OPEN on a closed socket, `run()` spins, the loss is neither reported nor
  retried. `Stop()` still works.
* **stop_returns.** `Stop()` calls `close()` once. If `clientHandshake()` clears
  the flag afterwards, or has polled it for the last time before, the connection
  may open and live on; `Stop()` blocks the GUI thread in `join()` until the
  server ends the connection, if ever.
* **callback_thread.** Inside `Stop()`, `close()` cannot send its CLOSE frame.
  `sendOnSocket()` reads CLOSED (1088), as the run thread has just ended the
  connection; the run thread dispatches one more CLOSE frame and sets CLOSING (715);
  `setReadyState(CLOSED)`, which makes a test of its own (218), calls the client's
  handler on the GUI thread. The comment at ais_stream_client.cpp:263 says that only
  the supervisor touches the flags the handler uses. `GuiCallbackIsSilent` says why no
  harm comes of it: `m_streaming` is already false.
* **running_is_connected.** A failed subscribe ends the connection, the Close
  callback reports the loss, and then the Open handler reports Running.
* **manual_position.** The first fix moves the search area even when the user has
  chosen another one on the chart and follow mode is off (index.adoc:169).
* **comma_names.** Names are joined with commas and not escaped: a name that has
  one shifts every later name to another vessel (plugin.cpp:213, 270).

Other sentences of the manual (`manual/modules/ROOT/pages/index.adoc`) that the
code does not keep were met while modelling. The model does what the code does; no
run is spent on them:

* Line 153: the area recentres after "roughly one-third of the current search
  area's width". The threshold is 0.3 of *half* the side, 15 % of the width.
* Lines 168 and 171: with follow mode on the position follows the ship, and the
  slider begins at 1°. The slider's minimum is 0 (main_ui_derived.cpp:150), and at 0
  follow mode does nothing (185).
* Line 171: the slider "adjusts the monitored region". Moved with keys or the wheel
  it changes its label only (main_ui_derived.cpp:240); the size is applied with the
  next OK in the preferences, if at all.
* Line 237: clearing the token takes the slider back to 10°. It does with OK; after
  Apply and Cancel the slider stays at 20 (settings_ui_derived.cpp:54), and only the
  subscribe message of the next start is cut down.
* Line 168, "On boat": in a dialog that has seen no fix it centres on 0°, 0°, even if
  the plugin has received fixes before it created the dialog.

What the passing runs of the plugin show: a restart ordered by any handler leaves
the stream subscribed with what is shown then (`SubscriptionMatchesDialog`); state
events queued from two threads leave the last report on the label, and a stopped
stream's queue runs dry (`LabelTellsLastReport`, `StoppedStreamFallsSilent`);
sentences of an older subscription may still be pushed after a restart, but never
after the dialog is gone (`StreamNeedsDialog`); a slow drift recentres as a jump
does (`FollowKeepsBoatInArea`). `RestartResumes` starts where the old supervisor is
gone; that it goes is the client's part (`RestartEnds`). Two things the manual leads
one to expect are not claimed, since the code does not do them: a slider range that
agrees with the token after Apply and Cancel (`BoxWithinRange` compares with the range
in force), and a centre on the boat before the dialog has seen a fix
(`OnBoatCentersOnBoat` begins with the first one).

`StopReturnsUnlessMissed` is what remains of the promise: from every point of a
session `Stop()` returns, or `close()` missed (`CloseMissed`): `clientHandshake()` has
wiped its request - not the reset at IXWebSocketTransport.cpp:1191, which comes with a
closed socket and is harmless - or it came after the last check and before OPEN.
`RestartEnds` says the same of a `Restart()`, start included. `CloseOfOpenEndsRun` is
the library's share: a `close()` of an OPEN connection ends `run()` as long as its
cancellation request survives (if it is wiped, `flushSendBuffer()` may wait for a peer
that never reads).

**Bounds.** `MaxRedirections` 2 in place of 10: the handshake's first attempt and
one after it are all a later attempt can differ by, and the limit is reached.
`MaxFrames` 2: a frame that is first, one that is last, and a frame after a CLOSE.
Nothing else is bounded; sessions, calls of `Start()` and `Stop()` and network
events are unlimited. The backoff runs with the real 2 and 30 s, and in `liveness`
with 2 and 2 and no token to set: no liveness property depends on the pause's length,
and a refused `Start()` needs only token mode without a token.

The plugin's runs differ in the inputs they enumerate, each having those its
properties tell apart. `dialog`: fixes at 0, 2 and 3 twentieths of a degree with a
box of one degree (threshold 3: inside, beyond, and two steps that add up), and up
to two events queued before a handler runs or the supervisor reports, so that both
act with events pending; the sentences of one message, a report decided before
`Stop()` and the last report come on top. The preferences are not opened.
`window`: a box of 1, moved to 20, tokens blank and real; no messages.
`vessels`: a list of at most two, two valid numbers and one out of range, an empty
name and another (names with a comma are the run `comma_names`). Handlers use the
list by row and number only, so that two rows are enough for a wrong row, a
duplicate and a shift. `MaxQueue` also holds the GUI thread's next handler back: a
queue of that length is handled first.

**Fairness.** Weak fairness of the supervisor and of a `Stop()` in progress: both
are threads the operating system schedules; no step of theirs waits for anything
but a lock or a join, which are guards. The handshake always ends, as
`isCancellationRequested()` includes a 60 s timeout; sleeps end. Strong
fairness of `ClosingDelayExceeded`: `poll()` comes back to the test again and
again, and 300 ms pass. `Restart()` goes on to start. There is no fairness for users,
for the network (data, losses, poll errors, a peer that reads) or for a new
`Start()`. In `Plugin`: the GUI thread goes on in the handler it is in and empties
its queue (wx handles pending events); the destructor goes on. Users, OpenCPN, the
service and the supervisor owe nothing: that a supervisor ends is not assumed, as
`stop_returns` shows that it may not.

## 4. Proofs

Every theorem holds for all values of the constants that satisfy `IXAssumption`,
`BackoffAssumption` (positive limits, the initial backoff not above the maximum) and
`TokensAssumption` (the empty token is one that can be set).

`IXWebSocket_proofs`: `WsTypeOK` is inductive, and so is `CloseInv`, which has two
parts. `ClosingIsNoticed`: while the run thread waits without a timeout, only `close()`
can make the connection CLOSING, and its interrupt comes after that. And a state other
than CLOSED, like any place in `close()` past its tests of the state, implies that the
handshakes lie behind (`Started`): a `close()` during a handshake changes no state,
which the refinement below needs.

`AisStreamClient_proofs`: `IInv` is the conjunction of `TypeOK`, `CloseInv` and
`ClientInv`:

* `LockInv` - the GUI holds `m_socketMutex` exactly while it is in `close()`, and has
  then recorded that it called it; `m_socket` is set exactly while the supervisor is
  in `run()`.
* `ThreadInv` - `Stop()` keeps `m_streaming` false for as long as it lasts; in
  between, streaming and a joinable thread are the same; without a thread there is
  no supervisor; a socket published while `Stop()` joins has been closed.

Each is needed: `SocketOutlivesClose` follows from `LockInv`, whose last part needs
`ThreadInv` at `StartSpawns`; `GuiCallbackIsSilent` follows from both, as a thread in
`close()` is in `Stop()`; `JoinedSocketIsClosed` needs that no socket is
published after `m_streaming` is cleared. Steps of the connection are reused from the
first module by `ClientUsesConnection`: each step of the client is a step of
`WsNext`, leaves the connection alone, or is `TearDown`. The action property
`PauseShrinksOnlyAfterGoodSession` is proved from `IInv` and the order of the
tests in `SleepBegins`.

`Plugin_proofs`, for all positions, slider values, vessels, names, payloads and
tokens, and for every bound (`MainGuiAssumption`: positions are integers, slider
values at most 20, payloads are members of `Payload`, `MaxQueue` positive):
`PluginInv` is the conjunction of

* `WindowInv` - `gui` decides whether there is a dialog and whether its stream is
  wanted or being stopped; without a dialog nothing of the stream is left;
* `ToolbarInv` - in the middle of a handler the button already is what it will be;
* `TokenInv` - token and mode are consistent whenever `Start()` may be called;
* `FieldsInv` - the records keep their fields (needed to reason about EXCEPT);
* `SubscriptionMatchesDialog`.

The parts need each other. A restart ends with a start only because it is not
refused (`TokenInv`); a handler may replace dialog and client only because no stream
is wanted without a window (`WindowInv`); the highlight is right after
`RestartStarts` only because it was right when the stop began (`ToolbarInv`). The
lemmas `HandlerRestarts` and `HandlerKeepsSubscription` say once for all sixteen
handlers that they restart the stream or leave alone what it was subscribed with.
`AreaInv` (numbers, `BoxWithinRange`, and the dialog's boat is the plugin's once a fix
has reached it) carries the action properties about following: `FollowKeepsBoat`
holds for boxes of every size but 0, not only for the one checked.

`StreamReports_proofs` proves the refinement: every step of client and connection is
a step of `StreamReports` or a stutter. `decided` is mapped to "streaming is not
wanted, and the supervisor is between a test of `m_streaming` and the report it
decided about"; `StopBegins` and `RestartBegins` make it true or leave it false, and
the report that follows makes it false again. `IInv` says which locks and threads there
are, but not what was reported; `SessionInv` adds that, for each place of the
supervisor:

* from Connecting until the Open handler's report, Connecting is the last report
  and no error was reported; while the Open handler sends (`OpenSent`, with
  `SendPlaces` for where its `sendData()` can be), a failed send may have made it
  ConnectionLost;
* in the loop of `run()` (`InLoop`) the last report is Running, ConnectionLost or a
  rejection - or ConnectFailed, but then the state is CLOSED and no `close()` can
  change that (`ConnectFailedInv`), so that the loop's first test ends it and no
  callback runs;
* Connecting has been replaced by the time `run()` returns (`ConnectingInv`).

`ConnectFailedInv` is the part that took thought: without it a `close()` on the GUI
thread could set the state of a failed session to CLOSING, the session would go on to
`poll()`, and the Close callback could report a loss after ConnectFailed, which the
contract forbids. `MessagesFollowRunning`, on which the dialog's model relies, follows
from `InLoop`.

`Queue_proofs`: `LabelTellsLastReport` for queues of every length, filled by both
threads (a refused `Start()` would report TokenMissing on the GUI thread, which
`TokenInv` excludes). `EndsAs` says of a queue and a label what state they end with,
and there is a lemma for each of the three things that happen to a queue (a state is
appended, sentences are appended, the first event is handled). The invariant
`LabelInv` adds that there is no label to be right without a dialog. The type
invariant of `Plugin` needs `PluginInv`, the sizes (`SizesInv`: whatever was saved, in
use, on the slider or loaded lies in 0..20) and the control state (`ControlInv`).

`ClientUsedByContract` is the other half of the refinement: every step of the plugin
leaves the stream alone, is a step `StreamReports` allows, or puts a new client in
the place of one whose supervisor is gone. `ClientImplementsReports` holds for
whatever calls the GUI makes; `ClientUsedByContract` for whatever the contract lets a
client do. Together they are what the two halves have to do with each other, and why
they need not be composed. It is stated as a theorem only; no run repeats it.

`Vessels_proofs`: the widget and the two lists are changed by separate statements, by
row number (`RemoveAt`, `ReplaceAt`, `Append`), so the theorem `RowsMatch` needs that
the same row means the same vessel in all three. `VesselsInv` is stronger than
`RowsMatchVessels`: it speaks of the lists without a window too, of the list in the
configuration, and says that all numbers are valid and distinct. Without validity
a loaded list could be shorter than the one saved.

From `DeInit()` to the next `Init()` the configuration is what `SaveSettings()` makes
of the settings (`SavedInv`: the preferences' OK may have saved an older state
before). `VesselsSurvive` says that vessels, their order and all other settings
survive, whatever the names are. Names survive if none has a comma: the hypothesis
`CommaFree` of `SettingsSurvive` is about what the user types, nothing in the code
enforces it, and the run `comma_names` shows what happens otherwise. `NamesInv`
carries it through loading, which makes new names of the parts of old ones.

`Lists_proofs` has what these proofs cite. Theorems of the library that take an
operator cannot be instantiated here, so the one induction needed (an increasing
function from 1..n to 1..n is the identity, hence a filter that keeps everything
changes nothing, `KeptAll`) goes by the least counterexample, whose existence
(`LeastNumber`) is the well-foundedness of the numbers.

Only model-checked: the liveness properties `CloseOfOpenEndsRun`,
`StopReturnsUnlessMissed`, `SessionEndIsRetried`, `RestartEnds`,
`StoppedStreamFallsSilent` and `RestartResumes`, as fairness and ENABLED are outside
the prover's reach; and, of course, the violations. Every safety property of a passing
run is a theorem.

## 5. Not modelled, and the plan

Not modelled:

* TLS, DNS and TCP themselves, and IXWebSocket's servers, HTTP client and unused
  client features (background thread, automatic reconnection, client pings): the
  first are I/O, the rest is never called by the plugin. Read of a descriptor that
  the other thread has just closed is treated as a failed read or poll.
* Generated dialog code, build files, translations and manual: no state of their
  own. The event tables and ranges the generator wrote are inputs of `MainGui`.
* Layout, window size and position with the settings that restore them, icons,
  label formats: nothing else depends on them.
* Longitudes, poles and the date line, and the floating-point great-circle
  distance: the model measures along a meridian, where the threshold is exact.
* JSON on which jsoncpp throws (ais_stream_client.cpp:34, 154): the exception leaves the
  supervisor thread and ends the program. No property speaks of it.
* A crash of OpenCPN: settings are saved by OK and `DeInit()` only, and nothing is
  recovered.

The product of connection, client and dialog is beyond TLC, and the contract is all
that the dialog's code sees of the client; so the two halves meet at
`StreamReports` and are not composed further.

Next: what the violated runs leave standing, as properties and theorems. The first
fix is the only one that moves an area chosen on the chart while follow mode is off;
a false Running is always followed by the end of the session; a wiped cancellation
and a late one are the only ways for a closed connection to open.
