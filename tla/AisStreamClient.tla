-------------------------- MODULE AisStreamClient --------------------------
(***************************************************************************)
(* AisStreamClient: the GUI thread that calls Start(), Stop() and Restart() *)
(* and the supervisor thread that runs one ix::WebSocket after another,     *)
(* with the connection of module IXWebSocket between them.                  *)
(*                                                                         *)
(* The run thread of IXWebSocket is the supervisor, its closing thread the *)
(* GUI.  A step is the code between two accesses to what the threads share: *)
(* m_streaming, m_socketMutex with m_socket, the connection's own words, the *)
(* state callback - so a test of m_streaming and the SetState() it decides   *)
(* about are two steps.                                                     *)
(* SetState() is one step: m_stateCallbackMutex is never held across        *)
(* another lock and the installed callback only queues a GUI event.         *)
(*                                                                         *)
(* Abstracted: the subscribe message and the sentences (their text), the    *)
(* length of the backoff sleep (it may end at any time).                    *)
(***************************************************************************)
EXTENDS IXWebSocket

CONSTANTS InitialBackoffSeconds, \* kInitialBackoffSeconds (2)
          MaxBackoffSeconds,     \* kMaxBackoffSeconds (30)
          Tokens                 \* what SetToken() may be given, "" for none

ASSUME BackoffAssumption == /\ InitialBackoffSeconds \in Nat \ {0}
                            /\ MaxBackoffSeconds \in Nat
                            /\ InitialBackoffSeconds =< MaxBackoffSeconds

ASSUME TokensAssumption == "" \in Tokens

VARIABLES
  m_streaming,     \* streaming is wanted
  m_socketMutex,   \* its holder across steps, or "free"
  m_socket,        \* does m_socket point to the session's WebSocket?
  m_thread,        \* is m_thread joinable?
  m_useToken, m_token,
  guiPc,           \* where the GUI thread is
  restarting,      \* was Stop() called by Restart()?
  supPc,           \* where the supervisor thread is
  backoffSeconds,
  reachedRunning, serverRejected, errorReported,  \* the session's flags
  reported,        \* what SetState() was last called with
  closeCalled      \* history: has Stop() called close() on this WebSocket?

shared      == <<m_streaming, m_socketMutex, m_socket, m_thread>>
tokenVars   == <<m_useToken, m_token>>
gui         == <<guiPc, restarting>>
session     == <<reachedRunning, serverRejected, errorReported>>
supervisor  == <<supPc, backoffSeconds, session>>
clientVars  == <<shared, tokenVars, gui, supervisor, reported, closeCalled>>
vars        == <<wsVars, clientVars>>

(* State::Error is told apart by its detail. *)
Errors  == {"ConnectFailed", "ServerError", "ConnectionLost", "TokenMissing"}
Reports == {"Stopped", "Connecting", "Running"} \union Errors

Smaller(a, b) == IF a < b THEN a ELSE b

Init ==
  /\ WsInit
  /\ m_streaming = FALSE
  /\ m_socketMutex = "free"
  /\ m_socket = FALSE
  /\ m_thread = FALSE
  /\ m_useToken = FALSE /\ m_token = ""
  /\ guiPc = "idle" /\ restarting = FALSE
  /\ supPc = "none"
  /\ backoffSeconds = InitialBackoffSeconds
  /\ reachedRunning = FALSE /\ serverRejected = FALSE /\ errorReported = FALSE
  /\ reported = "none"
  /\ closeCalled = FALSE

-----------------------------------------------------------------------------
(***************************************************************************)
(* The GUI thread.                                                         *)
(***************************************************************************)
SetTokenEnabled ==
  /\ guiPc = "idle"
  /\ m_useToken' \in BOOLEAN
  /\ UNCHANGED <<wsVars, shared, m_token, gui, supervisor, reported, closeCalled>>

SetToken ==
  /\ guiPc = "idle"
  /\ m_token' \in Tokens
  /\ UNCHANGED <<wsVars, shared, m_useToken, gui, supervisor, reported, closeCalled>>

(* Start() while streaming returns at once; otherwise it refuses to connect *)
(* without the token it is told to use, or reaps a finished supervisor and  *)
(* spawns the next one.                                                     *)
StartRefusesLate ==      \* faulty: m_streaming is set before the token test
  /\ guiPc \in {"idle", "starting"}
  /\ ~m_streaming
  /\ m_useToken /\ m_token = ""
  /\ reported' = "TokenMissing"
  /\ m_streaming' = TRUE
  /\ guiPc' = "idle" /\ restarting' = FALSE
  /\ UNCHANGED <<wsVars, m_socketMutex, m_socket, m_thread, tokenVars, supervisor,
                 closeCalled>>

StartRefuses ==
  /\ guiPc \in {"idle", "starting"}
  /\ ~m_streaming
  /\ m_useToken /\ m_token = ""
  /\ reported' = "TokenMissing"
  /\ guiPc' = "idle" /\ restarting' = FALSE
  /\ UNCHANGED <<wsVars, shared, tokenVars, supervisor, closeCalled>>

StartSpawns ==
  /\ guiPc \in {"idle", "starting"}
  /\ ~m_streaming
  /\ ~(m_useToken /\ m_token = "")
  /\ m_thread => supPc = "exited"
  /\ m_streaming' = TRUE
  /\ m_thread' = TRUE
  /\ supPc' = "loopTest"
  /\ backoffSeconds' = InitialBackoffSeconds
  /\ guiPc' = "idle" /\ restarting' = FALSE
  /\ UNCHANGED <<wsVars, m_socketMutex, m_socket, tokenVars, session, reported,
                 closeCalled>>

(* Stop(), called at any time, by the destructor too. *)
StopBeginsLate ==        \* faulty: m_streaming is still set when close() is called
  /\ guiPc = "idle"
  /\ guiPc' = "stopping"
  /\ UNCHANGED <<wsVars, shared, tokenVars, restarting, supervisor, reported, closeCalled>>

StopBegins ==
  /\ guiPc = "idle"
  /\ m_streaming' = FALSE
  /\ guiPc' = "stopping"
  /\ UNCHANGED <<wsVars, m_socketMutex, m_socket, m_thread, tokenVars, restarting,
                 supervisor, reported, closeCalled>>

(* Restart() returns at once unless streaming; it is Stop(), then Start(). *)
RestartBegins ==
  /\ guiPc = "idle"
  /\ m_streaming
  /\ m_streaming' = FALSE
  /\ restarting' = TRUE
  /\ guiPc' = "stopping"
  /\ UNCHANGED <<wsVars, m_socketMutex, m_socket, m_thread, tokenVars, supervisor,
                 reported, closeCalled>>

StopFindsSocket ==
  /\ guiPc = "stopping"
  /\ m_socketMutex = "free"
  /\ m_socket
  /\ m_socketMutex' = "gui"
  /\ CloseBegins
  /\ closeCalled' = TRUE
  /\ guiPc' = "closing"
  /\ UNCHANGED <<m_streaming, m_socket, m_thread, tokenVars, restarting, supervisor,
                 reported>>

StopFindsNoSocket ==
  /\ guiPc = "stopping"
  /\ m_socketMutex = "free"
  /\ ~m_socket
  /\ guiPc' = "joining"
  /\ UNCHANGED <<wsVars, shared, tokenVars, restarting, supervisor, reported, closeCalled>>

StopCloses ==
  guiPc = "closing" /\ closePc # "callback" /\ CloseStep /\ UNCHANGED clientVars

(* close() may end up in the Close callback (IXWebSocket): the handler of   *)
(* OnCloseTests below, on this thread.                                      *)
StopInCallback ==
  /\ guiPc = "closing"
  /\ CloseCallbackReturns
  /\ reported' = IF m_streaming /\ ~errorReported THEN "ConnectionLost" ELSE reported
  /\ UNCHANGED <<shared, tokenVars, gui, supervisor, closeCalled>>

StopReleasesSocket ==
  /\ guiPc = "closing"
  /\ CloseReturned
  /\ m_socketMutex' = "free"
  /\ guiPc' = "joining"
  /\ UNCHANGED <<m_streaming, m_socket, m_thread, tokenVars, restarting, supervisor,
                 reported, closeCalled>>

StopJoinsForgetful ==    \* faulty: Restart() ends like Stop()
  /\ guiPc = "joining"
  /\ m_thread => supPc = "exited"
  /\ m_thread' = FALSE
  /\ supPc' = "none"
  /\ guiPc' = "idle"
  /\ UNCHANGED <<wsVars, m_streaming, m_socketMutex, m_socket, tokenVars, restarting,
                 backoffSeconds, session, reported, closeCalled>>

StopJoins ==
  /\ guiPc = "joining"
  /\ m_thread => supPc = "exited"
  /\ m_thread' = FALSE
  /\ supPc' = "none"
  /\ guiPc' = IF restarting THEN "starting" ELSE "idle"
  /\ UNCHANGED <<wsVars, m_streaming, m_socketMutex, m_socket, tokenVars, restarting,
                 backoffSeconds, session, reported, closeCalled>>

-----------------------------------------------------------------------------
(***************************************************************************)
(* The supervisor thread, outside run().                                   *)
(***************************************************************************)

(* The loop's head. *)
LoopTest ==
  /\ supPc = "loopTest"
  /\ m_streaming
  /\ supPc' = "connecting"
  /\ UNCHANGED <<wsVars, shared, tokenVars, gui, backoffSeconds, session, reported,
                 closeCalled>>

(* Report Connecting - even if Stop() was called since the test -, clear    *)
(* the session's flags, make a WebSocket (IXWebSocket's variables describe   *)
(* a fresh one).                                                            *)
SessionBegins ==
  /\ supPc = "connecting"
  /\ reported' = "Connecting"
  /\ reachedRunning' = FALSE /\ serverRejected' = FALSE /\ errorReported' = FALSE
  /\ supPc' = "publish"
  /\ UNCHANGED <<wsVars, shared, tokenVars, gui, backoffSeconds, closeCalled>>

(* Publishing under m_socketMutex, with the recheck of m_streaming that      *)
(* keeps the socket from appearing after Stop() has looked for one.         *)
MovesSocket ==
  /\ supPc = "publish"
  /\ m_socketMutex = "free"
  /\ m_socket' = TRUE
  /\ RunCalled
  /\ supPc' = "run"
  /\ UNCHANGED <<m_streaming, m_socketMutex, m_thread, tokenVars, gui, backoffSeconds,
                 session, reported, closeCalled>>

PublishSocket == m_streaming /\ MovesSocket

(* The ways out of the loop, all to SetState(Stopped) and the thread's end: *)
(* its head, the recheck under m_socketMutex, the test after run().         *)
SupervisorExits ==
  /\ \/ supPc \in {"loopTest", "ranOnce"}
     \/ supPc = "publish" /\ m_socketMutex = "free"
  /\ ~m_streaming
  /\ reported' = "Stopped"
  /\ supPc' = "exited"
  /\ UNCHANGED <<wsVars, shared, tokenVars, gui, backoffSeconds, session, closeCalled>>

(* run() has returned: take the socket back, under the lock, and destroy it. *)
DestroysSocket ==
  /\ supPc = "run"
  /\ runPc = "done"
  /\ m_socket' = FALSE
  /\ supPc' = "ranOnce"
  /\ closeCalled' = FALSE
  /\ readyState' = "CLOSED" /\ requestInitCancellation' = FALSE
  /\ socket' = "none" /\ interrupts' = {} /\ txbuf' = FALSE
  /\ rxFrames' = 0 /\ rxTail' = "clean"
  /\ pollResult' = "Succeeded" /\ handshakes' = 0
  /\ sendReturn' = "dispatch" /\ closeReturn' = "loop"
  /\ runPc' = "outside"
  /\ UNCHANGED <<closePc, m_streaming, m_socketMutex, m_thread, tokenVars, gui,
                 backoffSeconds, session, reported>>

TearDown == m_socketMutex = "free" /\ DestroysSocket

SleepBeginsHastily ==    \* faulty: the tests are in the other order
  /\ supPc = "ranOnce"
  /\ m_streaming
  /\ supPc' = "sleeping"
  /\ backoffSeconds' = IF reachedRunning THEN InitialBackoffSeconds
                       ELSE IF serverRejected THEN MaxBackoffSeconds
                       ELSE backoffSeconds
  /\ UNCHANGED <<wsVars, shared, tokenVars, gui, session, reported, closeCalled>>

SleepBegins ==
  /\ supPc = "ranOnce"
  /\ m_streaming
  /\ supPc' = "sleeping"
  /\ backoffSeconds' = IF serverRejected THEN MaxBackoffSeconds
                       ELSE IF reachedRunning THEN InitialBackoffSeconds
                       ELSE backoffSeconds
  /\ UNCHANGED <<wsVars, shared, tokenVars, gui, session, reported, closeCalled>>

(* SleepWhileStreaming() returns: the time is over, or streaming is not     *)
(* wanted any more.                                                         *)
SleepEndsUncapped ==     \* faulty: doubles without a limit
  /\ supPc = "sleeping"
  /\ supPc' = "loopTest"
  /\ backoffSeconds' = backoffSeconds * 2
  /\ UNCHANGED <<wsVars, shared, tokenVars, gui, session, reported, closeCalled>>

SleepEndsOnlyWhenStopped ==  \* faulty: sleeps on while streaming is wanted
  /\ supPc = "sleeping"
  /\ ~m_streaming
  /\ supPc' = "loopTest"
  /\ UNCHANGED <<wsVars, shared, tokenVars, gui, backoffSeconds, session, reported,
                 closeCalled>>

SleepEnds ==
  /\ supPc = "sleeping"
  /\ supPc' = "loopTest"
  /\ backoffSeconds' = Smaller(backoffSeconds * 2, MaxBackoffSeconds)
  /\ UNCHANGED <<wsVars, shared, tokenVars, gui, session, reported, closeCalled>>

-----------------------------------------------------------------------------
(***************************************************************************)
(* The message callback, on the supervisor thread inside run().            *)
(***************************************************************************)

(* Open: send the subscribe message under m_socketMutex (m_socket is set),  *)
(* and, once it is released, report Running whatever became of the message. *)
OpenLocksSocket ==
  /\ m_socketMutex = "free"
  /\ OpenSends
  /\ m_socketMutex' = "supervisor"
  /\ UNCHANGED <<m_streaming, m_socket, m_thread, tokenVars, gui, supervisor, reported,
                 closeCalled>>

OpenReleasesSocket ==
  /\ runPc = "sent"
  /\ m_socketMutex = "supervisor"
  /\ m_socketMutex' = "free"
  /\ UNCHANGED <<wsVars, m_streaming, m_socket, m_thread, tokenVars, gui, supervisor,
                 reported, closeCalled>>

OpenReportsIfWanted ==   \* faulty: a stream that is being stopped reports nothing
  /\ runPc = "sent"
  /\ m_socketMutex # "supervisor"
  /\ OpenReturns
  /\ reachedRunning' = TRUE
  /\ reported' = IF m_streaming THEN "Running" ELSE reported
  /\ UNCHANGED <<shared, tokenVars, gui, supPc, backoffSeconds, serverRejected,
                 errorReported, closeCalled>>

OpenReportsRunning ==
  /\ runPc = "sent"
  /\ m_socketMutex # "supervisor"
  /\ OpenReturns
  /\ reachedRunning' = TRUE
  /\ reported' = "Running"
  /\ UNCHANGED <<shared, tokenVars, gui, supPc, backoffSeconds, serverRejected,
                 errorReported, closeCalled>>

(* A type:"error" message; any other is parsed and its sentences handed on. *)
OnServerError ==
  /\ MessageReturns
  /\ reported' = "ServerError"
  /\ serverRejected' = TRUE /\ errorReported' = TRUE
  /\ UNCHANGED <<shared, tokenVars, gui, supPc, backoffSeconds, reachedRunning, closeCalled>>

OnAisMessage == MessageReturns /\ UNCHANGED clientVars

OnError ==
  /\ ErrorReturns
  /\ errorReported' = TRUE
  /\ reported' = "ConnectFailed"
  /\ UNCHANGED <<shared, tokenVars, gui, supPc, backoffSeconds, reachedRunning,
                 serverRejected, closeCalled>>

(* Close: the test, and the report it decides about - which comes even if   *)
(* Stop() is called in between.                                             *)
OnCloseOverwrites ==     \* faulty: forgets that the session has reported why
  /\ runPc = "Close"
  /\ IF m_streaming THEN CloseTests ELSE CloseHandled
  /\ UNCHANGED clientVars

OnCloseTests ==
  /\ runPc = "Close"
  /\ IF m_streaming /\ ~errorReported THEN CloseTests ELSE CloseHandled
  /\ UNCHANGED clientVars

OnCloseReports ==
  /\ runPc = "lost"
  /\ CloseHandled
  /\ reported' = "ConnectionLost"
  /\ UNCHANGED <<shared, tokenVars, gui, supervisor, closeCalled>>

-----------------------------------------------------------------------------
Caller == SetTokenEnabled \/ SetToken \/ StopBegins \/ RestartBegins

StartStep == StartRefuses \/ StartSpawns

StopStep == \/ StopFindsSocket \/ StopFindsNoSocket \/ StopCloses \/ StopInCallback
            \/ StopReleasesSocket \/ StopJoins

MessageCallback == \/ OpenLocksSocket \/ OpenReleasesSocket \/ OpenReportsRunning
                   \/ OnServerError \/ OnAisMessage \/ OnError
                   \/ OnCloseTests \/ OnCloseReports

InRun == InternalStep /\ UNCHANGED clientVars

Network == NetworkStep /\ UNCHANGED clientVars

SupervisorStep == \/ LoopTest \/ SessionBegins \/ PublishSocket \/ SupervisorExits \/ TearDown
                  \/ SleepBegins \/ SleepEnds \/ MessageCallback \/ InRun

Next == Caller \/ StartStep \/ StopStep \/ SupervisorStep \/ Network

(* Both threads run, sleeps and the 300 ms closing delay end, and a         *)
(* Restart() that has stopped goes on to start.  Users and networks owe     *)
(* nothing.                                                                 *)
Fairness ==
  /\ WF_vars(SupervisorStep)
  /\ SF_vars(ClosingDelayExceeded /\ UNCHANGED clientVars)
  /\ WF_vars(StopStep)
  /\ WF_vars(guiPc = "starting" /\ StartStep)

Spec == Init /\ [][Next]_vars /\ Fairness

GuiTypeOK ==
  /\ m_streaming \in BOOLEAN
  /\ m_thread \in BOOLEAN
  /\ m_useToken \in BOOLEAN
  /\ m_token \in Tokens
  /\ guiPc \in {"idle", "starting", "stopping", "closing", "joining"}
  /\ restarting \in BOOLEAN
  /\ closeCalled \in BOOLEAN

SupervisorTypeOK ==
  /\ m_socketMutex \in {"free", "gui", "supervisor"}
  /\ m_socket \in BOOLEAN
  /\ supPc \in {"none", "loopTest", "connecting", "publish", "run", "ranOnce", "sleeping",
                "exited"}
  /\ backoffSeconds \in InitialBackoffSeconds..MaxBackoffSeconds
  /\ reachedRunning \in BOOLEAN
  /\ serverRejected \in BOOLEAN
  /\ errorReported \in BOOLEAN
  /\ reported \in Reports \union {"none"}

TypeOK == WsTypeOK /\ GuiTypeOK /\ SupervisorTypeOK

-----------------------------------------------------------------------------
(* m_socketMutex keeps the WebSocket alive under Stop(): while the GUI      *)
(* thread is inside close(), the object it uses is the one of the running   *)
(* session, still owned by m_socket.  The supervisor destroys it unlocked,  *)
(* right after moving it out of m_socket (TearDown).                        *)
SocketOutlivesClose ==
  closePc # "outside" => m_socket /\ supPc = "run" /\ m_socketMutex = "gui"

(* "the socket can never appear after Stop() has already looked for one to  *)
(* close": once Stop() waits for the supervisor, a published WebSocket is   *)
(* one it has called close() on (PublishSocket, StopFindsNoSocket).         *)
JoinedSocketIsClosed == guiPc = "joining" /\ m_socket => closeCalled

(* When the Close callback runs on the GUI thread (a thread its author did  *)
(* not expect it on), it neither reports "connection lost" nor reads the     *)
(* supervisor's unlocked flags: Stop() has cleared m_streaming before it     *)
(* called close(), and nobody has set it since (Stop(), the Close handler).  *)
GuiCallbackIsSilent == closePc = "callback" => ~m_streaming

(* Between two calls of the GUI, "streaming" and "there is a supervisor to  *)
(* join" are the same thing: StopAisStream() may return early when          *)
(* IsStreaming() is false, and Start() never spawns over a joinable thread  *)
(* or waits for an old one.                                                 *)
StreamingIffJoinable == guiPc = "idle" => (m_streaming <=> m_thread)

(* The pause between two sessions of one supervisor only ever shrinks after *)
(* a session that reached Running and was not rejected: a rejection, which  *)
(* also comes after Running, never brings the next attempt nearer           *)
(* (SleepBegins, SleepEnds).                                                *)
PauseShrinksOnlyAfterGoodSession ==
  [][backoffSeconds' < backoffSeconds
       => supPc = "none" \/ (reachedRunning /\ ~serverRejected)]_vars

(* The client shows its user nothing but what StreamReports allows. *)
Reporting == INSTANCE StreamReports
               WITH wanted   <- m_streaming,
                    stopping <- guiPc \in {"stopping", "closing", "joining"},
                    alive    <- supPc \notin {"none", "exited"},
                    decided  <- ~m_streaming /\ (supPc = "connecting" \/ runPc = "lost"),
                    report   <- reported

ReportsFollowContract == Reporting!Spec

(* Messages are handed on only within a session that was reported Running,  *)
(* not after its failure was followed by another attempt, nor before the    *)
(* Open handler's report (HandleMessage() under the message callback): the  *)
(* contract under which the dialog's queue of events is modelled.           *)
MessagesFollowRunning == runPc = "Message" => Reporting!MayDeliver

-----------------------------------------------------------------------------
StopPending == guiPc \in {"stopping", "closing", "joining"}

(* The connection has outlived close(): its cancellation request was wiped  *)
(* by clientHandshake() (not by closeSocketAndSwitchToClosedState(), which   *)
(* has closed the socket), or came when the handshake had already passed its *)
(* last check and was not yet OPEN.                                         *)
CloseMissed ==
  /\ closeCalled
  /\ \/ ~requestInitCancellation /\ (runPc \in Connecting \/ socket = "open")
     \/ readyState = "OPEN" /\ closePc \notin {"readState", "readClosed", "setClosing"}

(* Every Stop() returns - it finds the supervisor asleep, connecting, in    *)
(* poll(), in a callback, tearing down - unless close() missed (Stop(),     *)
(* close(), poll(), SleepWhileStreaming()).                                 *)
StopReturnsUnlessMissed == StopPending ~> ~StopPending \/ CloseMissed

(* A Restart() ends with the stream wanted again, or refused for its token - *)
(* it never leaves it stopped -, unless its close() missed (Restart()).      *)
RestartEnds ==
  restarting ~> m_streaming \/ reported = "TokenMissing" \/ CloseMissed

(* A session that ends while streaming is wanted is followed by another     *)
(* attempt: the supervisor, not the library, owns reconnection.             *)
SessionEndIsRetried ==
  supPc = "run" /\ runPc = "done" /\ m_streaming
    ~> reported = "Connecting" \/ ~m_streaming

(* "Stops streaming and blocks until the supervisor thread has exited."     *)
StopReturns == StopPending ~> ~StopPending

(* "Connected and subscribed": when Running is reported on a stream that is *)
(* wanted, the connection that was to carry the subscribe message is OPEN.  *)
RunningIsConnected ==
  [][reported # "Running" /\ reported' = "Running" /\ m_streaming
       => readyState = "OPEN"]_vars
=============================================================================
