------------------------ MODULE StreamReports_proofs ------------------------
(***************************************************************************)
(* AisStreamClient implements StreamReports, for every backoff limit,       *)
(* number of redirections and of frames.  SessionInv is what the refinement *)
(* needs beyond IInv: at every program point of the supervisor's session,   *)
(* what has been reported so far.                                           *)
(***************************************************************************)
EXTENDS AisStreamClient_proofs

(* From run()'s start to the Open handler's send(): no callback but this    *)
(* one or Error has been called.                                            *)
BeforeOpen == {"checkConnection", "Error", "Open", "send"} \union Connecting

(* The Open handler's send() is being tried, or has been; Running is not    *)
(* reported yet.                                                            *)
OpenSent == runPc = "sent" \/ sendReturn = "sent"

(* run()'s loop, with what is called from it. *)
InLoop == /\ runPc \notin BeforeOpen \union {"outside", "done", "sent"}
          /\ sendReturn # "sent"

(* That send() is in sendData(), or in the setReadyState(CLOSED) called     *)
(* there when it fails.                                                     *)
SendPlaces ==
  sendReturn = "sent" =>
    /\ runPc \in Sending \union Switching
    /\ runPc \in Switching \union {"sendFailed"} => closeReturn = "requestFlush"

(* A session that has failed to connect finds its state CLOSED at the loop's *)
(* first test, which close() cannot change any more.                        *)
ConnectFailedInv ==
  runPc = "Error" \/ (runPc = "loop" /\ reported = "ConnectFailed")
    => readyState = "CLOSED" /\ closePc # "setClosing"

(* Connecting is always replaced by the time run() returns. *)
ConnectingInv ==
  reported = "Connecting" => supPc \in {"publish", "run"} /\ runPc # "done"

SessionInv ==
  /\ supPc # "run" => runPc = "outside"
  /\ supPc = "publish" \/ runPc \in BeforeOpen
       => reported = "Connecting" /\ ~errorReported
  /\ OpenSent => reported \in {"Connecting", "ConnectionLost"} /\ ~errorReported
  /\ InLoop => \/ reported \in {"Running", "ConnectionLost"}
               \/ reported = "ServerError" /\ errorReported
               \/ reported = "ConnectFailed" /\ errorReported /\ runPc = "loop"
  /\ runPc = "lost" => ~errorReported
  /\ SendPlaces
  /\ ConnectFailedInv
  /\ ConnectingInv

(* A step of the connection alone keeps SessionInv: its handshakes, ...     *)
LEMMA ConnectStepSession ==
  ASSUME WsTypeOK, CloseInv, SessionInv, ConnectStep, UNCHANGED clientVars
  PROVE  SessionInv'
<1> USE DEF WsTypeOK, SessionInv, ConnectFailedInv, ConnectingInv, SendPlaces,
        BeforeOpen, OpenSent, InLoop, Connecting, Waiting, Sending, Switching,
        SendReturns, CloseReturns, flags, wire, returns, locals,
        supervisor, session, clientVars, RunGoes, CloseInv, Started
<1>1.  CASE RunBegins               BY <1>1 DEF RunBegins
<1>2.  CASE CreateSocketFails       BY <1>2 DEF CreateSocketFails
<1>3.  CASE ResetCancellation       BY <1>3 DEF ResetCancellation
<1>4.  CASE HandshakeCancelled      BY <1>4 DEF HandshakeCancelled
<1>5.  CASE HandshakeFails          BY <1>5 DEF HandshakeFails
<1>6.  CASE HandshakeLastCheck      BY <1>6 DEF HandshakeLastCheck
<1>7.  CASE Redirected              BY <1>7 DEF Redirected, FollowsRedirection
<1>8.  CASE HandshakeSucceeds       BY <1>8 DEF HandshakeSucceeds
<1> QED BY <1>1, <1>2, <1>3, <1>4, <1>5, <1>6, <1>7, <1>8
        DEF ConnectStep

(* ... the Open handler's send() and the other frames, ...                  *)
LEMMA SendStepSession ==
  ASSUME WsTypeOK, SessionInv, SendStep, UNCHANGED clientVars
  PROVE  SessionInv'
<1> USE DEF WsTypeOK, SessionInv, ConnectFailedInv, ConnectingInv, SendPlaces,
        BeforeOpen, OpenSent, InLoop, Connecting, Waiting, Sending, Switching,
        SendReturns, CloseReturns, flags, wire, returns, locals,
        supervisor, session, clientVars, RunGoes
<1>1.  CASE SendText                BY <1>1 DEF SendText
<1>2.  CASE SendNotConnected        BY <1>2 DEF SendNotConnected
<1>3.  CASE SendDataTests           BY <1>3 DEF SendDataTests, SendDataReturns
<1>4.  CASE AppendsToSendBuffer     BY <1>4 DEF AppendsToSendBuffer
<1>5.  CASE SendsOnSocket
  BY <1>5 DEF SendsOnSocket, AllSent, RestKept, SendFails
<1>6.  CASE SendFailedTests         BY <1>6 DEF SendFailedTests, SwitchReturns
<1>7.  CASE RequestsFlush           BY <1>7 DEF RequestsFlush, SendDataReturns
<1> QED BY <1>1, <1>2, <1>3, <1>4, <1>5, <1>6, <1>7
        DEF SendStep

(* ... the end of a connection, ...                                         *)
LEMMA SwitchStepSession ==
  ASSUME WsTypeOK, SessionInv, SwitchStep, UNCHANGED clientVars
  PROVE  SessionInv'
<1> USE DEF WsTypeOK, SessionInv, ConnectFailedInv, ConnectingInv, SendPlaces,
        BeforeOpen, OpenSent, InLoop, Connecting, Waiting, Sending, Switching,
        SendReturns, CloseReturns, flags, wire, returns, locals,
        supervisor, session, clientVars, RunGoes
<1>1.  CASE SwitchTests             BY <1>1 DEF SwitchTests, SwitchReturns
<1>2.  CASE StoresClosed            BY <1>2 DEF StoresClosed, SwitchReturns
<1>3.  CASE ClearsCancellation      BY <1>3 DEF ClearsCancellation
<1> QED BY <1>1, <1>2, <1>3
        DEF SwitchStep

(* ... the poll loop, which reports nothing itself and never starts over, ... *)
LEMMA PollStepSession ==
  ASSUME WsTypeOK, SessionInv, PollStep, UNCHANGED clientVars
  PROVE  SessionInv'
<1> USE DEF WsTypeOK, SessionInv, ConnectFailedInv, ConnectingInv, SendPlaces,
        BeforeOpen, OpenSent, InLoop, Connecting, Waiting, Sending, Switching,
        SendReturns, CloseReturns, flags, wire, returns, locals,
        supervisor, session, clientVars, RunGoes
<1>1.  CASE RunReturns              BY <1>1 DEF RunReturns
<1>2.  CASE PollBegins              BY <1>2 DEF PollBegins
<1>3.  CASE PollTimesOut            BY <1>3 DEF PollTimesOut
<1>4.  CASE PollInterrupted         BY <1>4 DEF PollInterrupted
<1>5.  CASE FlushEnds               BY <1>5 DEF FlushEnds
<1>6.  CASE FlushGoesOn             BY <1>6 DEF FlushGoesOn
<1>7.  CASE FlushDropsInterrupt     BY <1>7 DEF FlushDropsInterrupt
<1>8.  CASE FlushTimesOut           BY <1>8 DEF FlushTimesOut
<1>9.  CASE FlushFindsNoFd
  BY <1>9 DEF FlushFindsNoFd, FlushErrs, SwitchesToClosed
<1>10. CASE FlushWrites
  BY <1>10 DEF FlushWrites, AllSent, RestKept, SendFails
<1>11. CASE CannotFlush             BY <1>11 DEF CannotFlush
<1>12. CASE PollReturns             BY <1>12 DEF PollReturns
<1>13. CASE ClosingDelayExceeded    BY <1>13 DEF ClosingDelayExceeded, SwitchesToClosed
<1> QED BY <1>1, <1>2, <1>3, <1>4, <1>5, <1>6, <1>7, <1>8, <1>9, <1>10, <1>11, <1>12,
           <1>13
        DEF PollStep

(* ... the frames received, and ...                                         *)
LEMMA DispatchStepSession ==
  ASSUME WsTypeOK, SessionInv, DispatchStep, UNCHANGED clientVars
  PROVE  SessionInv'
<1> USE DEF WsTypeOK, SessionInv, ConnectFailedInv, ConnectingInv, SendPlaces,
        BeforeOpen, OpenSent, InLoop, Connecting, Waiting, Sending, Switching,
        SendReturns, CloseReturns, flags, wire, returns, locals,
        supervisor, session, clientVars, RunGoes
<1>1.  CASE DispatchMessage         BY <1>1 DEF DispatchMessage
<1>2.  CASE DispatchPing            BY <1>2 DEF DispatchPing
<1>3.  CASE DispatchClose           BY <1>3 DEF DispatchClose
<1>4.  CASE DispatchCloseAnswer     BY <1>4 DEF DispatchCloseAnswer, SwitchesToClosed
<1>5.  CASE DispatchOtherClose      BY <1>5 DEF DispatchOtherClose
<1>6.  CASE SetsClosing             BY <1>6 DEF SetsClosing
<1>7.  CASE CloseFrameSent          BY <1>7 DEF CloseFrameSent, SwitchesToClosed
<1>8.  CASE DispatchViolation       BY <1>8 DEF DispatchViolation
<1>9.  CASE SelfCloseTests          BY <1>9 DEF SelfCloseTests
<1>10. CASE SelfCloseInterrupts     BY <1>10 DEF SelfCloseInterrupts
<1>11. CASE SelfCloseSent           BY <1>11 DEF SelfCloseSent
<1>12. CASE SelfCloseReturns        BY <1>12 DEF SelfCloseReturns
<1>13. CASE DispatchPartialFrame    BY <1>13 DEF DispatchPartialFrame
<1>14. CASE DispatchEnds            BY <1>14 DEF DispatchEnds
<1>15. CASE DispatchAbnormalClose   BY <1>15 DEF DispatchAbnormalClose, SwitchesToClosed
<1>16. CASE AbnormalCloseOfOpen     BY <1>16 DEF AbnormalCloseOfOpen, SwitchesToClosed
<1>17. CASE AbnormalCloseOfClosed   BY <1>17 DEF AbnormalCloseOfClosed
<1> QED BY <1>1, <1>2, <1>3, <1>4, <1>5, <1>6, <1>7, <1>8, <1>9, <1>10, <1>11, <1>12,
           <1>13, <1>14, <1>15, <1>16, <1>17
        DEF DispatchStep

(* ... what the network does.                                               *)
LEMMA NetworkStepSession ==
  ASSUME WsTypeOK, SessionInv, NetworkStep, UNCHANGED clientVars
  PROVE  SessionInv'
<1> USE DEF WsTypeOK, SessionInv, ConnectFailedInv, ConnectingInv, SendPlaces,
        BeforeOpen, OpenSent, InLoop, Connecting, Waiting, Sending, Switching,
        SendReturns, CloseReturns, flags, wire, returns, locals,
        supervisor, session, clientVars, RunGoes
<1>1.  CASE PollReceives            BY <1>1 DEF PollReceives
<1>2.  CASE PollLosesConnection     BY <1>2 DEF PollLosesConnection
<1>3.  CASE PollFails               BY <1>3 DEF PollFails
<1>4.  CASE FlushReady              BY <1>4 DEF FlushReady
<1>5.  CASE FlushErrs               BY <1>5 DEF FlushErrs, SwitchesToClosed
<1> QED BY <1>1, <1>2, <1>3, <1>4, <1>5
        DEF NetworkStep

(* close() on the GUI's thread cannot revive a connection that has failed   *)
(* to open.                                                                 *)
LEMMA CloseStepSession ==
  ASSUME SessionInv, CloseBegins \/ CloseStep \/ CloseReturned,
         UNCHANGED <<supervisor, reported>>
  PROVE  SessionInv'
<1> USE DEF SessionInv, ConnectFailedInv, ConnectingInv, SendPlaces,
        BeforeOpen, OpenSent, InLoop, Connecting, Waiting, Sending, Switching,
        SendReturns, CloseReturns, flags, wire, returns, locals,
        supervisor, session, CloseGoes
<1>1.  CASE CloseBegins             BY <1>1 DEF CloseBegins
<1>2.  CASE CloseReadsState         BY <1>2 DEF CloseReadsState
<1>3.  CASE CloseWakesUp            BY <1>3 DEF CloseWakesUp
<1>4.  CASE CloseSetsClosing        BY <1>4 DEF CloseSetsClosing
<1>5.  CASE CloseSendDataTests      BY <1>5 DEF CloseSendDataTests
<1>6.  CASE CloseAppends            BY <1>6 DEF CloseAppends
<1>7.  CASE CloseSends              BY <1>7 DEF CloseSends, AllSent, RestKept, SendFails
<1>8.  CASE CloseSendFailedTests    BY <1>8 DEF CloseSendFailedTests
<1>9.  CASE CloseSwitchTests        BY <1>9 DEF CloseSwitchTests
<1>10. CASE CloseCallbackReturns    BY <1>10 DEF CloseCallbackReturns
<1>11. CASE CloseStoresClosed       BY <1>11 DEF CloseStoresClosed
<1>12. CASE CloseRequestsFlush      BY <1>12 DEF CloseRequestsFlush
<1>13. CASE CloseWakesUpSend        BY <1>13 DEF CloseWakesUpSend
<1>14. CASE CloseReturned           BY <1>14 DEF CloseReturned
<1> QED BY <1>1, <1>2, <1>3, <1>4, <1>5, <1>6, <1>7, <1>8, <1>9, <1>10, <1>11, <1>12,
           <1>13, <1>14
        DEF CloseStep

(* The client's own steps.  What the callbacks report, and when a session's *)
(* flags are cleared, is what SessionInv is about; the GUI changes the      *)
(* report only where there is no supervisor.                                *)
LEMMA ClientStepSession ==
  ASSUME IInv, SessionInv, Next
  PROVE  SessionInv'
<1>  WsTypeOK /\ CloseInv /\ LockInv /\ ThreadInv
  BY DEF IInv, TypeOK, ClientInv
<1>1.  CASE Caller \/ StartRefuses \/ StartSpawns \/ StopFindsNoSocket \/ StopJoins
  <2> USE DEF SessionInv, ConnectFailedInv, ConnectingInv, SendPlaces, BeforeOpen, OpenSent,
              InLoop, Connecting, Waiting, Sending, Switching, ThreadInv, wsVars,
              flags, returns, locals, supervisor, session
  <2>1.  CASE SetTokenEnabled         BY <2>1 DEF SetTokenEnabled
  <2>2.  CASE SetToken                BY <2>2 DEF SetToken
  <2>3.  CASE StopBegins              BY <2>3 DEF StopBegins
  <2>4.  CASE RestartBegins           BY <2>4 DEF RestartBegins
  <2>5.  CASE StartRefuses            BY <2>5 DEF StartRefuses
  <2>6.  CASE StartSpawns             BY <2>6 DEF StartSpawns
  <2>7.  CASE StopFindsNoSocket       BY <2>7 DEF StopFindsNoSocket
  <2>8.  CASE StopJoins               BY <2>8 DEF StopJoins
  <2> QED BY <2>1, <2>2, <2>3, <2>4, <2>5, <2>6, <2>7, <2>8, <1>1
          DEF Caller
<1>2.  CASE StopFindsSocket \/ StopCloses \/ StopReleasesSocket
  BY <1>2, CloseStepSession
     DEF StopFindsSocket, StopCloses, StopReleasesSocket, clientVars
<1>3.  CASE StopInCallback
  <2>1. ~m_streaming  BY <1>3 DEF StopInCallback, ThreadInv, StopPending
  <2>2. UNCHANGED reported  BY <1>3, <2>1 DEF StopInCallback
  <2> QED BY <1>3, <2>2, CloseStepSession DEF StopInCallback, CloseStep
<1>4.  CASE LoopTest \/ SessionBegins \/ PublishSocket \/ SupervisorExits \/ TearDown
            \/ SleepBegins \/ SleepEnds
  <2> USE DEF SessionInv, ConnectFailedInv, ConnectingInv, SendPlaces, BeforeOpen, OpenSent,
              InLoop, Connecting, Waiting, Sending, Switching, wsVars,
              flags, returns, locals, supervisor, session
  <2>1.  CASE LoopTest                BY <2>1 DEF LoopTest
  <2>2.  CASE SessionBegins           BY <2>2 DEF SessionBegins
  <2>3.  CASE PublishSocket
    BY <2>3 DEF PublishSocket, MovesSocket, RunCalled, RunGoes
  <2>4.  CASE SupervisorExits         BY <2>4 DEF SupervisorExits
  <2>5.  CASE TearDown                BY <2>5 DEF TearDown, DestroysSocket
  <2>6.  CASE SleepBegins             BY <2>6 DEF SleepBegins
  <2>7.  CASE SleepEnds               BY <2>7 DEF SleepEnds
  <2> QED BY <2>1, <2>2, <2>3, <2>4, <2>5, <2>6, <2>7, <1>4
<1>5.  CASE MessageCallback
  <2> USE DEF SessionInv, ConnectFailedInv, ConnectingInv, SendPlaces, BeforeOpen, OpenSent,
              InLoop, Connecting, Waiting, Sending, Switching, RunGoes, wsVars, clientVars,
              flags, returns, locals, supervisor, session
  <2>1.  CASE OpenLocksSocket         BY <2>1 DEF OpenLocksSocket, OpenSends
  <2>2.  CASE OpenReleasesSocket      BY <2>2 DEF OpenReleasesSocket
  <2>3.  CASE OpenReportsRunning      BY <2>3 DEF OpenReportsRunning, OpenReturns
  <2>4.  CASE OnServerError           BY <2>4 DEF OnServerError, MessageReturns
  <2>5.  CASE OnAisMessage            BY <2>5 DEF OnAisMessage, MessageReturns
  <2>6.  CASE OnError                 BY <2>6 DEF OnError, ErrorReturns
  <2>7.  CASE OnCloseTests            BY <2>7 DEF OnCloseTests, CloseTests, CloseHandled
  <2>8.  CASE OnCloseReports          BY <2>8 DEF OnCloseReports, CloseHandled
  <2> QED BY <2>1, <2>2, <2>3, <2>4, <2>5, <2>6, <2>7, <2>8, <1>5
          DEF MessageCallback
<1>6.  CASE InRun
  BY <1>6, ConnectStepSession, SendStepSession, SwitchStepSession, PollStepSession,
     DispatchStepSession DEF InRun, InternalStep
<1>7.  CASE Network  BY <1>7, NetworkStepSession DEF Network
<1> QED BY <1>1, <1>2, <1>3, <1>4, <1>5, <1>6, <1>7
        DEF Next, StartStep, StopStep, SupervisorStep

(* SessionInv holds throughout: it is inductive together with IInv. *)
THEOREM SessionInvariance == Spec => []SessionInv
<1>1. Init => SessionInv
  BY DEF Init, WsInit, Fresh, SessionInv, ConnectFailedInv, ConnectingInv, SendPlaces,
         BeforeOpen, OpenSent, InLoop, Connecting
<1>2. IInv /\ SessionInv /\ [Next]_vars => SessionInv'
  <2>1. CASE UNCHANGED vars
    BY <2>1 DEF SessionInv, ConnectFailedInv, ConnectingInv, SendPlaces, BeforeOpen,
                OpenSent, InLoop, vars, wsVars, flags, locals, returns, clientVars,
                supervisor, session
  <2> QED BY <2>1, ClientStepSession
<1> QED BY <1>1, <1>2, Invariance, PTL DEF Spec

(* Messages are handed on only by a live supervisor, after the report of     *)
(* Running and before that of the next attempt.                             *)
THEOREM MessagesAfterRunning == Spec => []MessagesFollowRunning
<1>1. SessionInv => MessagesFollowRunning
  BY DEF SessionInv, SendPlaces, Sending, Switching, BeforeOpen, Connecting, InLoop,
         MessagesFollowRunning, Reporting!MayDeliver
<1> QED BY <1>1, SessionInvariance, PTL

-----------------------------------------------------------------------------
(***************************************************************************)
(* The refinement.  Of the GUI's steps Start(), the call of Stop() and its  *)
(* return are the abstract specification's; of the supervisor's, those that *)
(* call SetState().  Every other step leaves what the user sees alone; the  *)
(* tests that decide about a report do so while streaming is wanted.        *)
(***************************************************************************)
Deciding == supPc = "connecting" \/ runPc = "lost"

(* What the mapping reads changes only in the steps listed. *)
LEMMA InvisibleSteps ==
  ASSUME WsTypeOK, Next
  PROVE  \/ /\ UNCHANGED <<m_streaming, guiPc, supPc, reported>>
            /\ UNCHANGED runPc \/ (runPc # "lost" /\ runPc' # "lost")
         \/ StartRefuses \/ StartSpawns \/ StopBegins \/ RestartBegins
         \/ StopFindsSocket \/ StopFindsNoSocket \/ StopInCallback
         \/ StopReleasesSocket \/ StopJoins
         \/ LoopTest \/ SessionBegins \/ PublishSocket \/ SupervisorExits \/ TearDown
         \/ SleepBegins \/ SleepEnds \/ OpenReportsRunning \/ OnServerError
         \/ OnError \/ OnCloseTests \/ OnCloseReports
<1> USE DEF clientVars, shared, gui, supervisor, wsVars
<1>1. CASE SetTokenEnabled \/ SetToken
  BY <1>1 DEF SetTokenEnabled, SetToken
<1>2. CASE StopCloses           BY <1>2, CloseStepStays DEF StopCloses
<1>3. CASE OpenLocksSocket      BY <1>3 DEF OpenLocksSocket, OpenSends, RunGoes
<1>4. CASE OpenReleasesSocket   BY <1>4 DEF OpenReleasesSocket
<1>5. CASE OnAisMessage         BY <1>5 DEF OnAisMessage, MessageReturns, RunGoes
<1>6. CASE InRun \/ Network     BY <1>6, OnlyHandlerReports DEF InRun, Network
<1> QED BY <1>1, <1>2, <1>3, <1>4, <1>5, <1>6
        DEF Next, Caller, StartStep, StopStep, SupervisorStep, MessageCallback

(* Each of them is the step of StreamReports named under its case, or none. *)
LEMMA ReportingStep ==
  ASSUME IInv, SessionInv, Next
  PROVE  [Reporting!Next]_(Reporting!vars)
<1>  WsTypeOK /\ ThreadInv BY DEF IInv, TypeOK, ClientInv
<1>  supPc # "none" => m_thread BY DEF ThreadInv
<1>  supPc # "run" => runPc = "outside" BY DEF SessionInv
<1>  USE DEF Reporting!vars, Reporting!Next, shared, gui, supervisor
<1>1.  CASE /\ UNCHANGED <<m_streaming, guiPc, supPc, reported>>
            /\ UNCHANGED runPc \/ (runPc # "lost" /\ runPc' # "lost")
  <2>1. UNCHANGED (~m_streaming /\ Deciding)  BY <1>1 DEF Deciding
  <2> QED BY <1>1, <2>1 DEF Deciding
<1>2.  CASE StartRefuses
  <2>1. ~m_thread /\ supPc = "none"  BY <1>2 DEF StartRefuses, ThreadInv
  <2>2. UNCHANGED (supPc \notin {"none", "exited"})
    BY <1>2 DEF StartRefuses
  <2>3. UNCHANGED (guiPc \in {"stopping", "closing", "joining"})
    <3>1. guiPc \notin {"stopping", "closing", "joining"}
          /\ guiPc' \notin {"stopping", "closing", "joining"}
      BY <1>2 DEF StartRefuses
    <3> QED BY <3>1
  <2>4. ~m_streaming /\ UNCHANGED m_streaming /\ reported' = "TokenMissing"
        /\ guiPc \notin {"stopping", "closing", "joining"}
    BY <1>2 DEF StartRefuses
  <2>5. UNCHANGED (~m_streaming /\ Deciding)
    BY <1>2 DEF StartRefuses, Deciding, wsVars
  <2>6. Reporting!StartRefused
    BY <2>1, <2>2, <2>3, <2>4, <2>5 DEF Reporting!StartRefused, Deciding
  <2> QED BY <2>6
<1>3.  CASE StartSpawns
  <2>1. ~m_thread /\ supPc = "none"  BY <1>3 DEF StartSpawns, ThreadInv
  <2>2. (supPc \notin {"none", "exited"})' = TRUE
    BY <1>3 DEF StartSpawns
  <2>3. UNCHANGED (guiPc \in {"stopping", "closing", "joining"})
    <3>1. guiPc \notin {"stopping", "closing", "joining"}
          /\ guiPc' \notin {"stopping", "closing", "joining"}
      BY <1>3 DEF StartSpawns
    <3> QED BY <3>1
  <2>4. ~m_streaming /\ m_streaming' = TRUE /\ UNCHANGED reported
        /\ guiPc \notin {"stopping", "closing", "joining"}
    BY <1>3 DEF StartSpawns
  <2>5. UNCHANGED (~m_streaming /\ Deciding)
    <3>1. ~Deciding  BY <2>1 DEF Deciding
    <3> QED BY <3>1, <2>4
  <2>6. Reporting!Start
    BY <2>1, <2>2, <2>3, <2>4, <2>5 DEF Reporting!Start, Deciding
  <2> QED BY <2>6
<1>4.  CASE StopBegins \/ RestartBegins
  <2>1. UNCHANGED <<supPc, runPc, reported>> /\ m_streaming' = FALSE /\ guiPc = "idle"
        /\ guiPc' = "stopping"
    BY <1>4 DEF StopBegins, RestartBegins, wsVars
  <2>2. Deciding => supPc \notin {"none", "exited"}  BY DEF Deciding
  <2>3. (~m_streaming /\ Deciding)' \in {FALSE, supPc \notin {"none", "exited"}}
    <3>1. CASE Deciding
      <4>1. (~m_streaming /\ Deciding)' = TRUE  BY <2>1, <3>1 DEF Deciding
      <4> QED BY <3>1, <4>1, <2>2
    <3>2. CASE ~Deciding
      <4>1. (~m_streaming /\ Deciding)' = FALSE  BY <2>1, <3>2 DEF Deciding
      <4> QED BY <4>1
    <3> QED BY <3>1, <3>2
  <2>4. Reporting!StopCalled
    BY <2>1, <2>3 DEF Reporting!StopCalled, Deciding
  <2> QED BY <2>4
<1>5.  CASE StopFindsSocket \/ StopFindsNoSocket \/ StopReleasesSocket
  <2>1. UNCHANGED <<m_streaming, supPc, reported, runPc>>
        /\ guiPc \in {"stopping", "closing"} /\ guiPc' \in {"closing", "joining"}
    BY <1>5 DEF StopFindsSocket, StopFindsNoSocket, StopReleasesSocket, CloseBegins,
                CloseReturned, CloseGoes, wsVars
  <2>2. UNCHANGED (~m_streaming /\ Deciding)  BY <2>1 DEF Deciding
  <2>3. UNCHANGED (guiPc \in {"stopping", "closing", "joining"})  BY <2>1
  <2> QED BY <2>1, <2>2, <2>3 DEF Deciding
<1>6.  CASE StopInCallback
  <2>1. UNCHANGED <<m_streaming, guiPc, supPc, reported, runPc>>
    BY <1>6 DEF StopInCallback, CloseCallbackReturns, CloseGoes, ThreadInv, StopPending
  <2>2. UNCHANGED (~m_streaming /\ Deciding)  BY <2>1 DEF Deciding
  <2> QED BY <2>1, <2>2 DEF Deciding
<1>7.  CASE StopJoins
  <2>1. supPc \in {"none", "exited"} /\ supPc' = "none" /\ UNCHANGED <<runPc, m_streaming>>
    BY <1>7 DEF StopJoins, ThreadInv, wsVars
  <2>2. UNCHANGED (~m_streaming /\ Deciding)  BY <2>1 DEF Deciding
  <2>3. Reporting!StopReturns
    BY <1>7, <2>1, <2>2 DEF StopJoins, Reporting!StopReturns, Deciding
  <2> QED BY <2>3
<1>8.  CASE LoopTest
  <2>1. UNCHANGED (~m_streaming /\ Deciding)  BY <1>8 DEF LoopTest
  <2>2. UNCHANGED (supPc \notin {"none", "exited"})  BY <1>8 DEF LoopTest
  <2> QED BY <1>8, <2>1, <2>2 DEF LoopTest, Deciding
<1>9.  CASE SessionBegins
  <2>1. reported \in Reports \union {"none"} /\ reported # "Connecting"
    BY <1>9 DEF IInv, TypeOK, SupervisorTypeOK, SessionBegins, SessionInv, ConnectingInv
  <2>2. reported' \in Reporting!Follows(reported)
    BY <1>9, <2>1 DEF SessionBegins, Reporting!Follows, Reports, Errors
  <2>3. /\ supPc = "connecting" /\ supPc' = "publish" /\ runPc = "outside"
        /\ UNCHANGED <<m_streaming, guiPc, runPc>>
        /\ reported' = "Connecting"
    BY <1>9 DEF SessionBegins, wsVars
  <2>4. (~m_streaming /\ Deciding)' = FALSE  BY <2>3 DEF Deciding
  <2>5. Reporting!Report
    BY <2>2, <2>3, <2>4 DEF Reporting!Report, Reporting!Decidable, Deciding
  <2> QED BY <2>5
<1>10. CASE PublishSocket \/ TearDown \/ SleepBegins \/ SleepEnds
  <2>1. /\ UNCHANGED <<m_streaming, guiPc, reported>>
        /\ supPc \notin {"none", "exited", "connecting"}
        /\ supPc' \notin {"none", "exited", "connecting"}
        /\ runPc # "lost" /\ runPc' # "lost"
    BY <1>10 DEF PublishSocket, MovesSocket, RunCalled, RunGoes, TearDown, DestroysSocket,
                 SleepBegins, SleepEnds, wsVars
  <2>2. UNCHANGED (~m_streaming /\ Deciding)  BY <2>1 DEF Deciding
  <2>3. UNCHANGED (supPc \notin {"none", "exited"})  BY <2>1
  <2> QED BY <2>1, <2>2, <2>3 DEF Deciding
<1>11. CASE SupervisorExits
  <2>1. /\ supPc \notin {"none", "exited", "connecting"} /\ runPc = "outside"
        /\ supPc' = "exited" /\ UNCHANGED runPc
    BY <1>11 DEF SupervisorExits, wsVars
  <2>2. ~Deciding /\ ~Deciding'  BY <2>1 DEF Deciding
  <2>3. Reporting!Exit
    BY <1>11, <2>1, <2>2 DEF SupervisorExits, Reporting!Exit, Deciding
  <2> QED BY <2>3
<1>12. CASE OpenReportsRunning
  <2>1. reported \in {"Connecting", "ConnectionLost"}
    BY <1>12 DEF OpenReportsRunning, SessionInv, OpenSent
  <2>2. supPc = "run" /\ UNCHANGED <<m_streaming, guiPc, supPc>>
    BY <1>12 DEF OpenReportsRunning, OpenReturns, RunGoes, SessionInv
  <2>3. runPc # "lost" /\ runPc' # "lost"
    BY <1>12 DEF OpenReportsRunning, OpenReturns, RunGoes
  <2>4. ~Deciding /\ ~Deciding'  BY <2>2, <2>3 DEF Deciding
  <2>5. reported' \in Reporting!Follows(reported) /\ reported' = "Running"
    BY <1>12, <2>1 DEF OpenReportsRunning, Reporting!Follows
  <2>6. Reporting!Report
    BY <2>2, <2>4, <2>5 DEF Reporting!Report, Reporting!Decidable, Deciding
  <2> QED BY <2>6
<1>13. CASE OnServerError
  <2>1. reported \in {"Running", "ConnectionLost", "ServerError"}
    BY <1>13 DEF OnServerError, MessageReturns, SessionInv, SendPlaces, Sending,
                 Switching, InLoop, BeforeOpen, Connecting
  <2>2. supPc = "run" /\ UNCHANGED <<m_streaming, guiPc, supPc>>
    BY <1>13 DEF OnServerError, MessageReturns, RunGoes, SessionInv
  <2>3. runPc # "lost" /\ runPc' # "lost"
    BY <1>13 DEF OnServerError, MessageReturns, RunGoes
  <2>4. ~Deciding /\ ~Deciding'  BY <2>2, <2>3 DEF Deciding
  <2>5. reported' \in Reporting!Follows(reported) /\ reported' = "ServerError"
    BY <1>13, <2>1 DEF OnServerError, Reporting!Follows
  <2>6. Reporting!Report
    BY <2>2, <2>4, <2>5 DEF Reporting!Report, Reporting!Decidable, Deciding
  <2> QED BY <2>6
<1>14. CASE OnError
  <2>1. reported = "Connecting"
    BY <1>14 DEF OnError, ErrorReturns, SessionInv, BeforeOpen
  <2>2. supPc = "run" /\ UNCHANGED <<m_streaming, guiPc, supPc>>
    BY <1>14 DEF OnError, ErrorReturns, RunGoes, SessionInv
  <2>3. runPc # "lost" /\ runPc' # "lost"
    BY <1>14 DEF OnError, ErrorReturns, RunGoes
  <2>4. ~Deciding /\ ~Deciding'  BY <2>2, <2>3 DEF Deciding
  <2>5. reported' \in Reporting!Follows(reported) /\ reported' = "ConnectFailed"
    BY <1>14, <2>1 DEF OnError, Reporting!Follows
  <2>6. Reporting!Report
    BY <2>2, <2>4, <2>5 DEF Reporting!Report, Reporting!Decidable, Deciding
  <2> QED BY <2>6
<1>15. CASE OnCloseTests
  <2>1. /\ supPc = "run" /\ UNCHANGED <<m_streaming, guiPc, supPc, reported>>
        /\ runPc = "Close" /\ (runPc' = "lost" => m_streaming)
    BY <1>15 DEF OnCloseTests, CloseTests, CloseHandled, RunGoes, SessionInv, clientVars
  <2>2. UNCHANGED (~m_streaming /\ Deciding)  BY <2>1 DEF Deciding
  <2> QED BY <2>1, <2>2 DEF Deciding
<1>16. CASE OnCloseReports
  <2>1. reported \in {"Connecting", "Running", "ConnectionLost"}
    BY <1>16 DEF OnCloseReports, SessionInv, OpenSent, InLoop, BeforeOpen, Connecting
  <2>2. /\ supPc = "run" /\ UNCHANGED <<m_streaming, guiPc, supPc>>
        /\ runPc = "lost" /\ runPc' # "lost"
    BY <1>16 DEF OnCloseReports, CloseHandled, RunGoes, SessionInv
  <2>3. Deciding /\ ~Deciding'  BY <2>2 DEF Deciding
  <2>4. reported' \in Reporting!Follows(reported) /\ reported' = "ConnectionLost"
    BY <1>16, <2>1 DEF OnCloseReports, Reporting!Follows
  <2>5. Reporting!Report
    BY <2>2, <2>3, <2>4 DEF Reporting!Report, Reporting!Decidable, Deciding
  <2> QED BY <2>5
<1> QED BY InvisibleSteps, <1>1, <1>2, <1>3, <1>4, <1>5, <1>6, <1>7, <1>8, <1>9, <1>10,
           <1>11, <1>12, <1>13, <1>14, <1>15, <1>16

(* What the user of the client sees - the report in the status label, a     *)
(* Stop() that returns - is what StreamReports allows, step by step, with   *)
(* the reports that were decided before Stop() and come after it.           *)
THEOREM ClientImplementsReports == Spec => ReportsFollowContract
<1>1. Init => Reporting!Init
  <2>1. guiPc = "idle" => (guiPc \in {"stopping", "closing", "joining"}) = FALSE
    OBVIOUS
  <2>2. supPc = "none" => (supPc \notin {"none", "exited"}) = FALSE
    OBVIOUS
  <2>3. Init => (~m_streaming /\ Deciding) = FALSE
    BY DEF Init, WsInit, Deciding
  <2> QED BY <2>1, <2>2, <2>3 DEF Init, Reporting!Init, Deciding
<1>2. IInv /\ SessionInv /\ [Next]_vars => [Reporting!Next]_(Reporting!vars)
  <2>1. ASSUME UNCHANGED vars PROVE UNCHANGED Reporting!vars
    <3>1. UNCHANGED <<m_streaming, guiPc, supPc, runPc, reported>>
      BY <2>1 DEF vars, wsVars, clientVars, shared, gui, supervisor
    <3>2. UNCHANGED (~m_streaming /\ Deciding)  BY <3>1 DEF Deciding
    <3> QED BY <3>1, <3>2 DEF Reporting!vars, Deciding
  <2> QED BY <2>1, ReportingStep
<1> QED BY <1>1, <1>2, Invariance, SessionInvariance, PTL
        DEF Spec, ReportsFollowContract, Reporting!Spec
=============================================================================
