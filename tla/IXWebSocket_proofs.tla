------------------------- MODULE IXWebSocket_proofs -------------------------
(***************************************************************************)
(* Theorems about one connection, for every number of redirections and of   *)
(* frames.  The step lemmas are stated for the groups of actions WsNext is  *)
(* made of, so that AisStreamClient_proofs can use them for its own Next.   *)
(***************************************************************************)
EXTENDS IXWebSocket, TLAPS

(* Where sendData() and setReadyState(CLOSED) may return to is a place in   *)
(* run().                                                                   *)
LEMMA ReturnsInRun == SendReturns \subseteq RunPcs /\ CloseReturns \subseteq RunPcs
BY Zenon DEF SendReturns, CloseReturns, RunPcs

(* Each of the places the steps below go to is one, too. *)
LEMMA PlacesInRun ==
  /\ {"checkConnection", "loop", "polled", "done", "abnormal"} \subseteq RunPcs
  /\ Connecting \subseteq RunPcs
  /\ Callbacks \subseteq RunPcs
  /\ Waiting \subseteq RunPcs
  /\ Flushing \subseteq RunPcs
  /\ Sending \subseteq RunPcs
  /\ Switching \subseteq RunPcs
  /\ SelfClose \subseteq RunPcs
BY Zenon DEF RunPcs

(* A step of each group keeps the type. *)
LEMMA ConnectStepType ==
  ASSUME WsTypeOK, ConnectStep
  PROVE  WsTypeOK'
<1> USE IXAssumption, ReturnsInRun, PlacesInRun
        DEF WsTypeOK, flags, wire, rxbuf, returns, locals, RunGoes, Connecting, Callbacks,
            Waiting, Flushing, Sending, Switching, SelfClose, SendReturns, CloseReturns,
            Interrupts, Tails
<1>1.  CASE RunBegins               BY <1>1 DEF RunBegins
<1>2.  CASE CreateSocketFails       BY <1>2 DEF CreateSocketFails
<1>3.  CASE ResetCancellation       BY <1>3 DEF ResetCancellation
<1>4.  CASE HandshakeCancelled      BY <1>4 DEF HandshakeCancelled
<1>5.  CASE HandshakeFails          BY <1>5 DEF HandshakeFails
<1>6.  CASE HandshakeLastCheck      BY <1>6 DEF HandshakeLastCheck
<1>7.  CASE Redirected              BY <1>7 DEF Redirected, FollowsRedirection
<1>8.  CASE HandshakeSucceeds       BY <1>8 DEF HandshakeSucceeds
<1> QED BY <1>1, <1>2, <1>3, <1>4, <1>5, <1>6, <1>7, <1>8
        DEF ConnectStep

LEMMA SendStepType ==
  ASSUME WsTypeOK, SendStep
  PROVE  WsTypeOK'
<1> USE IXAssumption, ReturnsInRun, PlacesInRun
        DEF WsTypeOK, flags, wire, rxbuf, returns, locals, RunGoes, Connecting, Callbacks,
            Waiting, Flushing, Sending, Switching, SelfClose, SendReturns, CloseReturns,
            Interrupts, Tails
<1>1.  CASE SendText                BY <1>1 DEF SendText
<1>2.  CASE SendNotConnected        BY <1>2 DEF SendNotConnected
<1>3.  CASE SendDataTests           BY <1>3 DEF SendDataTests, SendDataReturns
<1>4.  CASE AppendsToSendBuffer     BY <1>4 DEF AppendsToSendBuffer
<1>5.  CASE SendsOnSocket
  BY <1>5 DEF SendsOnSocket, AllSent, RestKept, SendFails
<1>6.  CASE SendFailedTests         BY <1>6 DEF SendFailedTests, SwitchReturns
<1>7.  CASE RequestsFlush           BY <1>7 DEF RequestsFlush, SendDataReturns
<1> QED BY <1>1, <1>2, <1>3, <1>4, <1>5, <1>6, <1>7
        DEF SendStep

LEMMA SwitchStepType ==
  ASSUME WsTypeOK, SwitchStep
  PROVE  WsTypeOK'
<1> USE IXAssumption, ReturnsInRun, PlacesInRun
        DEF WsTypeOK, flags, wire, rxbuf, returns, locals, RunGoes, Connecting, Callbacks,
            Waiting, Flushing, Sending, Switching, SelfClose, SendReturns, CloseReturns,
            Interrupts, Tails
<1>1.  CASE SwitchTests             BY <1>1 DEF SwitchTests, SwitchReturns
<1>2.  CASE StoresClosed            BY <1>2 DEF StoresClosed, SwitchReturns
<1>3.  CASE ClearsCancellation      BY <1>3 DEF ClearsCancellation
<1> QED BY <1>1, <1>2, <1>3
        DEF SwitchStep

LEMMA PollStepType ==
  ASSUME WsTypeOK, PollStep
  PROVE  WsTypeOK'
<1> USE IXAssumption, ReturnsInRun, PlacesInRun
        DEF WsTypeOK, flags, wire, rxbuf, returns, locals, RunGoes, Connecting, Callbacks,
            Waiting, Flushing, Sending, Switching, SelfClose, SendReturns, CloseReturns,
            Interrupts, Tails
<1>1.  CASE RunReturns              BY <1>1 DEF RunReturns
<1>2.  CASE PollBegins              BY <1>2 DEF PollBegins
<1>3.  CASE PollTimesOut            BY <1>3 DEF PollTimesOut
<1>4.  CASE PollInterrupted
  <2>1. interrupts' \in SUBSET Interrupts  BY <1>4 DEF PollInterrupted
  <2>2. /\ socket' \in {"none", "closed", "open"}
        /\ runPc' \in RunPcs
    BY <1>4 DEF PollInterrupted
  <2> QED BY <1>4, <2>1, <2>2 DEF PollInterrupted
<1>5.  CASE FlushEnds               BY <1>5 DEF FlushEnds
<1>6.  CASE FlushGoesOn             BY <1>6 DEF FlushGoesOn
<1>7.  CASE FlushDropsInterrupt     BY <1>7 DEF FlushDropsInterrupt
<1>8.  CASE FlushTimesOut           BY <1>8 DEF FlushTimesOut
<1>9.  CASE FlushFindsNoFd
  BY <1>9 DEF FlushFindsNoFd, FlushErrs, SwitchesToClosed
<1>10. CASE FlushWrites
  BY <1>10 DEF FlushWrites, AllSent, RestKept, SendFails
<1>11. CASE CannotFlush             BY <1>11 DEF CannotFlush
<1>12. CASE PollReturns             BY <1>12 DEF PollReturns
<1>13. CASE ClosingDelayExceeded    BY <1>13 DEF ClosingDelayExceeded, SwitchesToClosed
<1> QED BY <1>1, <1>2, <1>3, <1>4, <1>5, <1>6, <1>7, <1>8, <1>9, <1>10, <1>11, <1>12,
           <1>13
        DEF PollStep

LEMMA DispatchStepType ==
  ASSUME WsTypeOK, DispatchStep
  PROVE  WsTypeOK'
<1> USE IXAssumption, ReturnsInRun, PlacesInRun
        DEF WsTypeOK, flags, wire, rxbuf, returns, locals, RunGoes, Connecting, Callbacks,
            Waiting, Flushing, Sending, Switching, SelfClose, SendReturns, CloseReturns,
            Interrupts, Tails
<1>1.  CASE DispatchMessage         BY <1>1 DEF DispatchMessage
<1>2.  CASE DispatchPing            BY <1>2 DEF DispatchPing
<1>3.  CASE DispatchClose           BY <1>3 DEF DispatchClose
<1>4.  CASE DispatchCloseAnswer     BY <1>4 DEF DispatchCloseAnswer, SwitchesToClosed
<1>5.  CASE DispatchOtherClose      BY <1>5 DEF DispatchOtherClose
<1>6.  CASE SetsClosing             BY <1>6 DEF SetsClosing
<1>7.  CASE CloseFrameSent          BY <1>7 DEF CloseFrameSent, SwitchesToClosed
<1>8.  CASE DispatchViolation       BY <1>8 DEF DispatchViolation
<1>9.  CASE SelfCloseTests          BY <1>9 DEF SelfCloseTests
<1>10. CASE SelfCloseInterrupts     BY <1>10 DEF SelfCloseInterrupts
<1>11. CASE SelfCloseSent           BY <1>11 DEF SelfCloseSent
<1>12. CASE SelfCloseReturns        BY <1>12 DEF SelfCloseReturns
<1>13. CASE DispatchPartialFrame    BY <1>13 DEF DispatchPartialFrame
<1>14. CASE DispatchEnds            BY <1>14 DEF DispatchEnds
<1>15. CASE DispatchAbnormalClose   BY <1>15 DEF DispatchAbnormalClose, SwitchesToClosed
<1>16. CASE AbnormalCloseOfOpen     BY <1>16 DEF AbnormalCloseOfOpen, SwitchesToClosed
<1>17. CASE AbnormalCloseOfClosed   BY <1>17 DEF AbnormalCloseOfClosed
<1> QED BY <1>1, <1>2, <1>3, <1>4, <1>5, <1>6, <1>7, <1>8, <1>9, <1>10, <1>11, <1>12,
           <1>13, <1>14, <1>15, <1>16, <1>17
        DEF DispatchStep

LEMMA HandlerStepType ==
  ASSUME WsTypeOK, HandlerStep
  PROVE  WsTypeOK'
<1> USE IXAssumption, ReturnsInRun, PlacesInRun
        DEF WsTypeOK, flags, wire, rxbuf, returns, locals, RunGoes, Connecting, Callbacks,
            Waiting, Flushing, Sending, Switching, SelfClose, SendReturns, CloseReturns,
            Interrupts, Tails
<1>1.  CASE OpenSends               BY <1>1 DEF OpenSends
<1>2.  CASE OpenReturns             BY <1>2 DEF OpenReturns
<1>3.  CASE MessageReturns          BY <1>3 DEF MessageReturns
<1>4.  CASE ErrorReturns            BY <1>4 DEF ErrorReturns
<1>5.  CASE CloseTests              BY <1>5 DEF CloseTests
<1>6.  CASE CloseHandled            BY <1>6 DEF CloseHandled
<1> QED BY <1>1, <1>2, <1>3, <1>4, <1>5, <1>6
        DEF HandlerStep

LEMMA NetworkStepType ==
  ASSUME WsTypeOK, NetworkStep
  PROVE  WsTypeOK'
<1> USE IXAssumption, ReturnsInRun, PlacesInRun
        DEF WsTypeOK, flags, wire, rxbuf, returns, locals, RunGoes, Connecting, Callbacks,
            Waiting, Flushing, Sending, Switching, SelfClose, SendReturns, CloseReturns,
            Interrupts, Tails
<1>1.  CASE PollReceives            BY <1>1 DEF PollReceives, Received
<1>2.  CASE PollLosesConnection     BY <1>2 DEF PollLosesConnection, Received
<1>3.  CASE PollFails               BY <1>3 DEF PollFails
<1>4.  CASE FlushReady              BY <1>4 DEF FlushReady
<1>5.  CASE FlushErrs               BY <1>5 DEF FlushErrs, SwitchesToClosed
<1> QED BY <1>1, <1>2, <1>3, <1>4, <1>5
        DEF NetworkStep

LEMMA CloseStepType ==
  ASSUME WsTypeOK, CloseBegins \/ CloseStep \/ CloseReturned
  PROVE  WsTypeOK'
<1> USE DEF WsTypeOK, flags, wire, rxbuf, returns, locals, CloseGoes, ClosePcs,
        SendingClose, Interrupts
<1>1.  CASE CloseBegins             BY <1>1 DEF CloseBegins
<1>2.  CASE CloseReadsState         BY <1>2 DEF CloseReadsState
<1>3.  CASE CloseWakesUp            BY <1>3 DEF CloseWakesUp
<1>4.  CASE CloseSetsClosing        BY <1>4 DEF CloseSetsClosing
<1>5.  CASE CloseSendDataTests      BY <1>5 DEF CloseSendDataTests
<1>6.  CASE CloseAppends            BY <1>6 DEF CloseAppends
<1>7.  CASE CloseSends              BY <1>7 DEF CloseSends, AllSent, RestKept, SendFails
<1>8.  CASE CloseSendFailedTests    BY <1>8 DEF CloseSendFailedTests
<1>9.  CASE CloseSwitchTests        BY <1>9 DEF CloseSwitchTests
<1>10. CASE CloseCallbackReturns    BY <1>10 DEF CloseCallbackReturns
<1>11. CASE CloseStoresClosed       BY <1>11 DEF CloseStoresClosed
<1>12. CASE CloseRequestsFlush      BY <1>12 DEF CloseRequestsFlush
<1>13. CASE CloseWakesUpSend        BY <1>13 DEF CloseWakesUpSend
<1>14. CASE CloseReturned           BY <1>14 DEF CloseReturned
<1> QED BY <1>1, <1>2, <1>3, <1>4, <1>5, <1>6, <1>7, <1>8, <1>9, <1>10, <1>11, <1>12,
           <1>13, <1>14
        DEF CloseStep

LEMMA InitType == ASSUME WsInit PROVE WsTypeOK
<1>1. rxFrames \in 0..MaxFrames /\ handshakes \in 0..MaxRedirections
  BY IXAssumption DEF WsInit, Fresh
<1>2. sendReturn \in SendReturns /\ closeReturn \in CloseReturns
  BY DEF WsInit, Fresh, SendReturns, CloseReturns
<1>3. runPc \in RunPcs /\ closePc \in ClosePcs
  BY Zenon DEF WsInit, Fresh, RunPcs, ClosePcs
<1> QED BY <1>1, <1>2, <1>3 DEF WsInit, Fresh, WsTypeOK, Tails, Interrupts

LEMMA NextType == ASSUME WsTypeOK, [WsNext]_wsVars PROVE WsTypeOK'
<1>1. CASE RunCalled
  BY <1>1, PlacesInRun DEF RunCalled, RunGoes, WsTypeOK, flags, wire, rxbuf, returns, locals
<1>2. CASE RunStep
  BY <1>2, ConnectStepType, SendStepType, SwitchStepType, PollStepType,
     DispatchStepType, HandlerStepType DEF RunStep, InternalStep
<1>3. CASE NetworkStep  BY <1>3, NetworkStepType
<1>4. CASE CloseBegins \/ CloseStep \/ CloseReturned  BY <1>4, CloseStepType
<1>5. CASE UNCHANGED wsVars
  BY <1>5 DEF WsTypeOK, wsVars, flags, wire, rxbuf, returns, locals
<1> QED BY <1>1, <1>2, <1>3, <1>4, <1>5 DEF WsNext

(* WsTypeOK is inductive: a connection's words stay in their ranges, with   *)
(* at most MaxRedirections handshakes per connectToUrl().                   *)
THEOREM ConnectionTypeCorrect == WsSpec => []WsTypeOK
<1>1. WsInit => WsTypeOK  BY InitType
<1>2. WsTypeOK /\ [WsNext]_wsVars => WsTypeOK'  BY NextType
<1> QED BY <1>1, <1>2, PTL DEF WsSpec
-----------------------------------------------------------------------------
(***************************************************************************)
(* What close() may rely on.  It goes past its two tests of the state only  *)
(* when run() has got past its handshakes, and never gets back to them; and *)
(* when the run thread has chosen to wait without a timeout, only close()   *)
(* can make the connection CLOSING, and it brings an interrupt.             *)
(***************************************************************************)
Started == runPc \notin Connecting \union {"outside", "checkConnection"}

CloseInv ==
  /\ readyState # "CLOSED" => Started
  /\ closePc \in SendingClose \union {"setClosing"} => Started
  /\ ClosingIsNoticed

LEMMA ConnectStepClose ==
  ASSUME WsTypeOK, CloseInv, ConnectStep
  PROVE  CloseInv'
<1> USE DEF WsTypeOK, CloseInv, Started, ClosingIsNoticed, Connecting, Callbacks, Waiting,
        SendReturns, CloseReturns, SendingClose, RunGoes, flags, wire, rxbuf,
        returns, locals
<1>1.  CASE RunBegins               BY <1>1 DEF RunBegins
<1>2.  CASE CreateSocketFails       BY <1>2 DEF CreateSocketFails
<1>3.  CASE ResetCancellation       BY <1>3 DEF ResetCancellation
<1>4.  CASE HandshakeCancelled      BY <1>4 DEF HandshakeCancelled
<1>5.  CASE HandshakeFails          BY <1>5 DEF HandshakeFails
<1>6.  CASE HandshakeLastCheck      BY <1>6 DEF HandshakeLastCheck
<1>7.  CASE Redirected              BY <1>7 DEF Redirected, FollowsRedirection
<1>8.  CASE HandshakeSucceeds       BY <1>8 DEF HandshakeSucceeds
<1> QED BY <1>1, <1>2, <1>3, <1>4, <1>5, <1>6, <1>7, <1>8
        DEF ConnectStep

LEMMA SendStepClose ==
  ASSUME WsTypeOK, CloseInv, SendStep
  PROVE  CloseInv'
<1> USE DEF WsTypeOK, CloseInv, Started, ClosingIsNoticed, Connecting, Callbacks, Waiting,
        SendReturns, CloseReturns, SendingClose, RunGoes, flags, wire, rxbuf,
        returns, locals
<1>1.  CASE SendText                BY <1>1 DEF SendText
<1>2.  CASE SendNotConnected        BY <1>2 DEF SendNotConnected
<1>3.  CASE SendDataTests           BY <1>3 DEF SendDataTests, SendDataReturns
<1>4.  CASE AppendsToSendBuffer     BY <1>4 DEF AppendsToSendBuffer
<1>5.  CASE SendsOnSocket
  BY <1>5 DEF SendsOnSocket, AllSent, RestKept, SendFails
<1>6.  CASE SendFailedTests         BY <1>6 DEF SendFailedTests, SwitchReturns
<1>7.  CASE RequestsFlush           BY <1>7 DEF RequestsFlush, SendDataReturns
<1> QED BY <1>1, <1>2, <1>3, <1>4, <1>5, <1>6, <1>7
        DEF SendStep

LEMMA SwitchStepClose ==
  ASSUME WsTypeOK, CloseInv, SwitchStep
  PROVE  CloseInv'
<1> USE DEF WsTypeOK, CloseInv, Started, ClosingIsNoticed, Connecting, Callbacks, Waiting,
        SendReturns, CloseReturns, SendingClose, RunGoes, flags, wire, rxbuf,
        returns, locals
<1>1.  CASE SwitchTests             BY <1>1 DEF SwitchTests, SwitchReturns
<1>2.  CASE StoresClosed            BY <1>2 DEF StoresClosed, SwitchReturns
<1>3.  CASE ClearsCancellation      BY <1>3 DEF ClearsCancellation
<1> QED BY <1>1, <1>2, <1>3
        DEF SwitchStep

LEMMA PollStepClose ==
  ASSUME WsTypeOK, CloseInv, PollStep
  PROVE  CloseInv'
<1> USE DEF WsTypeOK, CloseInv, Started, ClosingIsNoticed, Connecting, Callbacks, Waiting,
        SendReturns, CloseReturns, SendingClose, RunGoes, flags, wire, rxbuf,
        returns, locals
<1>1.  CASE RunReturns              BY <1>1 DEF RunReturns
<1>2.  CASE PollBegins              BY <1>2 DEF PollBegins
<1>3.  CASE PollTimesOut            BY <1>3 DEF PollTimesOut
<1>4.  CASE PollInterrupted         BY <1>4 DEF PollInterrupted
<1>5.  CASE FlushEnds               BY <1>5 DEF FlushEnds
<1>6.  CASE FlushGoesOn             BY <1>6 DEF FlushGoesOn
<1>7.  CASE FlushDropsInterrupt     BY <1>7 DEF FlushDropsInterrupt
<1>8.  CASE FlushTimesOut           BY <1>8 DEF FlushTimesOut
<1>9.  CASE FlushFindsNoFd
  BY <1>9 DEF FlushFindsNoFd, FlushErrs, SwitchesToClosed
<1>10. CASE FlushWrites
  BY <1>10 DEF FlushWrites, AllSent, RestKept, SendFails
<1>11. CASE CannotFlush             BY <1>11 DEF CannotFlush
<1>12. CASE PollReturns             BY <1>12 DEF PollReturns
<1>13. CASE ClosingDelayExceeded    BY <1>13 DEF ClosingDelayExceeded, SwitchesToClosed
<1> QED BY <1>1, <1>2, <1>3, <1>4, <1>5, <1>6, <1>7, <1>8, <1>9, <1>10, <1>11, <1>12,
           <1>13
        DEF PollStep

LEMMA DispatchStepClose ==
  ASSUME WsTypeOK, CloseInv, DispatchStep
  PROVE  CloseInv'
<1> USE DEF WsTypeOK, CloseInv, Started, ClosingIsNoticed, Connecting, Callbacks, Waiting,
        SendReturns, CloseReturns, SendingClose, RunGoes, flags, wire, rxbuf,
        returns, locals
<1>1.  CASE DispatchMessage         BY <1>1 DEF DispatchMessage
<1>2.  CASE DispatchPing            BY <1>2 DEF DispatchPing
<1>3.  CASE DispatchClose           BY <1>3 DEF DispatchClose
<1>4.  CASE DispatchCloseAnswer     BY <1>4 DEF DispatchCloseAnswer, SwitchesToClosed
<1>5.  CASE DispatchOtherClose      BY <1>5 DEF DispatchOtherClose
<1>6.  CASE SetsClosing             BY <1>6 DEF SetsClosing
<1>7.  CASE CloseFrameSent          BY <1>7 DEF CloseFrameSent, SwitchesToClosed
<1>8.  CASE DispatchViolation       BY <1>8 DEF DispatchViolation
<1>9.  CASE SelfCloseTests          BY <1>9 DEF SelfCloseTests
<1>10. CASE SelfCloseInterrupts     BY <1>10 DEF SelfCloseInterrupts
<1>11. CASE SelfCloseSent           BY <1>11 DEF SelfCloseSent
<1>12. CASE SelfCloseReturns        BY <1>12 DEF SelfCloseReturns
<1>13. CASE DispatchPartialFrame    BY <1>13 DEF DispatchPartialFrame
<1>14. CASE DispatchEnds            BY <1>14 DEF DispatchEnds
<1>15. CASE DispatchAbnormalClose   BY <1>15 DEF DispatchAbnormalClose, SwitchesToClosed
<1>16. CASE AbnormalCloseOfOpen     BY <1>16 DEF AbnormalCloseOfOpen, SwitchesToClosed
<1>17. CASE AbnormalCloseOfClosed   BY <1>17 DEF AbnormalCloseOfClosed
<1> QED BY <1>1, <1>2, <1>3, <1>4, <1>5, <1>6, <1>7, <1>8, <1>9, <1>10, <1>11, <1>12,
           <1>13, <1>14, <1>15, <1>16, <1>17
        DEF DispatchStep

LEMMA HandlerStepClose ==
  ASSUME WsTypeOK, CloseInv, HandlerStep
  PROVE  CloseInv'
<1> USE DEF WsTypeOK, CloseInv, Started, ClosingIsNoticed, Connecting, Callbacks, Waiting,
        SendReturns, CloseReturns, SendingClose, RunGoes, flags, wire, rxbuf,
        returns, locals
<1>1.  CASE OpenSends               BY <1>1 DEF OpenSends
<1>2.  CASE OpenReturns             BY <1>2 DEF OpenReturns
<1>3.  CASE MessageReturns          BY <1>3 DEF MessageReturns
<1>4.  CASE ErrorReturns            BY <1>4 DEF ErrorReturns
<1>5.  CASE CloseTests              BY <1>5 DEF CloseTests
<1>6.  CASE CloseHandled            BY <1>6 DEF CloseHandled
<1> QED BY <1>1, <1>2, <1>3, <1>4, <1>5, <1>6
        DEF HandlerStep

LEMMA NetworkStepClose ==
  ASSUME WsTypeOK, CloseInv, NetworkStep
  PROVE  CloseInv'
<1> USE DEF WsTypeOK, CloseInv, Started, ClosingIsNoticed, Connecting, Callbacks, Waiting,
        SendReturns, CloseReturns, SendingClose, RunGoes, flags, wire, rxbuf,
        returns, locals
<1>1.  CASE PollReceives            BY <1>1 DEF PollReceives
<1>2.  CASE PollLosesConnection     BY <1>2 DEF PollLosesConnection
<1>3.  CASE PollFails               BY <1>3 DEF PollFails
<1>4.  CASE FlushReady              BY <1>4 DEF FlushReady
<1>5.  CASE FlushErrs               BY <1>5 DEF FlushErrs, SwitchesToClosed
<1> QED BY <1>1, <1>2, <1>3, <1>4, <1>5
        DEF NetworkStep

LEMMA CloseStepClose ==
  ASSUME WsTypeOK, CloseInv, CloseBegins \/ CloseStep \/ CloseReturned
  PROVE  CloseInv'
<1> USE DEF WsTypeOK, CloseInv, Started, ClosingIsNoticed, Connecting, Callbacks, Waiting,
        SendReturns, CloseReturns, SendingClose, CloseGoes, flags, wire, rxbuf,
        returns, locals
<1>1.  CASE CloseBegins             BY <1>1 DEF CloseBegins
<1>2.  CASE CloseReadsState         BY <1>2 DEF CloseReadsState
<1>3.  CASE CloseWakesUp            BY <1>3 DEF CloseWakesUp
<1>4.  CASE CloseSetsClosing        BY <1>4 DEF CloseSetsClosing
<1>5.  CASE CloseSendDataTests      BY <1>5 DEF CloseSendDataTests
<1>6.  CASE CloseAppends            BY <1>6 DEF CloseAppends
<1>7.  CASE CloseSends              BY <1>7 DEF CloseSends, AllSent, RestKept, SendFails
<1>8.  CASE CloseSendFailedTests    BY <1>8 DEF CloseSendFailedTests
<1>9.  CASE CloseSwitchTests        BY <1>9 DEF CloseSwitchTests
<1>10. CASE CloseCallbackReturns    BY <1>10 DEF CloseCallbackReturns
<1>11. CASE CloseStoresClosed       BY <1>11 DEF CloseStoresClosed
<1>12. CASE CloseRequestsFlush      BY <1>12 DEF CloseRequestsFlush
<1>13. CASE CloseWakesUpSend        BY <1>13 DEF CloseWakesUpSend
<1>14. CASE CloseReturned           BY <1>14 DEF CloseReturned
<1> QED BY <1>1, <1>2, <1>3, <1>4, <1>5, <1>6, <1>7, <1>8, <1>9, <1>10, <1>11, <1>12,
           <1>13, <1>14
        DEF CloseStep

LEMMA NextClose == ASSUME WsTypeOK, CloseInv, [WsNext]_wsVars PROVE CloseInv'
<1>1. CASE RunCalled
  BY <1>1 DEF RunCalled, RunGoes, CloseInv, Started, ClosingIsNoticed, Connecting, flags,
              wire
<1>2. CASE RunStep
  BY <1>2, ConnectStepClose, SendStepClose, SwitchStepClose, PollStepClose,
     DispatchStepClose, HandlerStepClose DEF RunStep, InternalStep
<1>3. CASE NetworkStep  BY <1>3, NetworkStepClose
<1>4. CASE CloseBegins \/ CloseStep \/ CloseReturned  BY <1>4, CloseStepClose
<1>5. CASE UNCHANGED wsVars
  BY <1>5 DEF CloseInv, Started, ClosingIsNoticed, wsVars, flags, wire
<1> QED BY <1>1, <1>2, <1>3, <1>4, <1>5 DEF WsNext

THEOREM ConnectionCloseInv == WsSpec => []CloseInv
<1>1. WsInit => CloseInv
  BY DEF WsInit, Fresh, CloseInv, ClosingIsNoticed, SendingClose
<1>2. WsTypeOK /\ CloseInv /\ [WsNext]_wsVars => CloseInv'  BY NextClose
<1> QED BY <1>1, <1>2, ConnectionTypeCorrect, PTL DEF WsSpec

(* A CLOSING connection is never left waiting in poll() with no timeout and *)
(* no interrupt to come.                                                    *)
THEOREM ClosingIsAlwaysNoticed == WsSpec => []ClosingIsNoticed
<1>1. CloseInv => ClosingIsNoticed  BY DEF CloseInv
<1> QED BY <1>1, ConnectionCloseInv, PTL
-----------------------------------------------------------------------------
(***************************************************************************)
(* For the client, which holds its own lock around close() and reports from *)
(* the Close handler: run() leaves the closing thread where it is and calls *)
(* the handler by no other way than "Close", and close() is left by no       *)
(* other step than its last.                                                *)
(***************************************************************************)
LEMMA OnlyHandlerReports ==
  ASSUME WsTypeOK, InternalStep \/ NetworkStep
  PROVE  closePc' = closePc /\ runPc # "lost" /\ runPc' # "lost"
<1> USE DEF WsTypeOK, Waiting, SendReturns, CloseReturns, RunGoes, locals, returns
<1>1.  CASE RunBegins               BY <1>1 DEF RunBegins
<1>2.  CASE CreateSocketFails       BY <1>2 DEF CreateSocketFails
<1>3.  CASE ResetCancellation       BY <1>3 DEF ResetCancellation
<1>4.  CASE HandshakeCancelled      BY <1>4 DEF HandshakeCancelled
<1>5.  CASE HandshakeFails          BY <1>5 DEF HandshakeFails
<1>6.  CASE HandshakeLastCheck      BY <1>6 DEF HandshakeLastCheck
<1>7.  CASE Redirected              BY <1>7 DEF Redirected, FollowsRedirection
<1>8.  CASE HandshakeSucceeds       BY <1>8 DEF HandshakeSucceeds
<1>9.  CASE SendText                BY <1>9 DEF SendText
<1>10. CASE SendNotConnected        BY <1>10 DEF SendNotConnected
<1>11. CASE SendDataTests           BY <1>11 DEF SendDataTests, SendDataReturns
<1>12. CASE AppendsToSendBuffer     BY <1>12 DEF AppendsToSendBuffer
<1>13. CASE SendsOnSocket
  BY <1>13 DEF SendsOnSocket, AllSent, RestKept, SendFails
<1>14. CASE SendFailedTests         BY <1>14 DEF SendFailedTests, SwitchReturns
<1>15. CASE RequestsFlush           BY <1>15 DEF RequestsFlush, SendDataReturns
<1>16. CASE SwitchTests             BY <1>16 DEF SwitchTests, SwitchReturns
<1>17. CASE StoresClosed            BY <1>17 DEF StoresClosed, SwitchReturns
<1>18. CASE ClearsCancellation      BY <1>18 DEF ClearsCancellation
<1>19. CASE RunReturns              BY <1>19 DEF RunReturns
<1>20. CASE PollBegins              BY <1>20 DEF PollBegins
<1>21. CASE PollTimesOut            BY <1>21 DEF PollTimesOut
<1>22. CASE PollInterrupted         BY <1>22 DEF PollInterrupted
<1>23. CASE FlushEnds               BY <1>23 DEF FlushEnds
<1>24. CASE FlushGoesOn             BY <1>24 DEF FlushGoesOn
<1>25. CASE FlushDropsInterrupt     BY <1>25 DEF FlushDropsInterrupt
<1>26. CASE FlushTimesOut           BY <1>26 DEF FlushTimesOut
<1>27. CASE FlushFindsNoFd
  BY <1>27 DEF FlushFindsNoFd, FlushErrs, SwitchesToClosed
<1>28. CASE FlushWrites
  BY <1>28 DEF FlushWrites, AllSent, RestKept, SendFails
<1>29. CASE CannotFlush             BY <1>29 DEF CannotFlush
<1>30. CASE PollReturns             BY <1>30 DEF PollReturns
<1>31. CASE ClosingDelayExceeded    BY <1>31 DEF ClosingDelayExceeded, SwitchesToClosed
<1>32. CASE DispatchMessage         BY <1>32 DEF DispatchMessage
<1>33. CASE DispatchPing            BY <1>33 DEF DispatchPing
<1>34. CASE DispatchClose           BY <1>34 DEF DispatchClose
<1>35. CASE DispatchCloseAnswer     BY <1>35 DEF DispatchCloseAnswer, SwitchesToClosed
<1>36. CASE DispatchOtherClose      BY <1>36 DEF DispatchOtherClose
<1>37. CASE SetsClosing             BY <1>37 DEF SetsClosing
<1>38. CASE CloseFrameSent          BY <1>38 DEF CloseFrameSent, SwitchesToClosed
<1>39. CASE DispatchViolation       BY <1>39 DEF DispatchViolation
<1>40. CASE SelfCloseTests          BY <1>40 DEF SelfCloseTests
<1>41. CASE SelfCloseInterrupts     BY <1>41 DEF SelfCloseInterrupts
<1>42. CASE SelfCloseSent           BY <1>42 DEF SelfCloseSent
<1>43. CASE SelfCloseReturns        BY <1>43 DEF SelfCloseReturns
<1>44. CASE DispatchPartialFrame    BY <1>44 DEF DispatchPartialFrame
<1>45. CASE DispatchEnds            BY <1>45 DEF DispatchEnds
<1>46. CASE DispatchAbnormalClose   BY <1>46 DEF DispatchAbnormalClose, SwitchesToClosed
<1>47. CASE AbnormalCloseOfOpen     BY <1>47 DEF AbnormalCloseOfOpen, SwitchesToClosed
<1>48. CASE AbnormalCloseOfClosed   BY <1>48 DEF AbnormalCloseOfClosed
<1>49. CASE PollReceives            BY <1>49 DEF PollReceives
<1>50. CASE PollLosesConnection     BY <1>50 DEF PollLosesConnection
<1>51. CASE PollFails               BY <1>51 DEF PollFails
<1>52. CASE FlushReady              BY <1>52 DEF FlushReady
<1>53. CASE FlushErrs               BY <1>53 DEF FlushErrs, SwitchesToClosed
<1> QED BY <1>1, <1>2, <1>3, <1>4, <1>5, <1>6, <1>7, <1>8, <1>9, <1>10, <1>11, <1>12,
           <1>13, <1>14, <1>15, <1>16, <1>17, <1>18, <1>19, <1>20, <1>21, <1>22, <1>23,
           <1>24, <1>25, <1>26, <1>27, <1>28, <1>29, <1>30, <1>31, <1>32, <1>33, <1>34,
           <1>35, <1>36, <1>37, <1>38, <1>39, <1>40, <1>41, <1>42, <1>43, <1>44, <1>45,
           <1>46, <1>47, <1>48, <1>49, <1>50, <1>51, <1>52, <1>53
        DEF InternalStep, ConnectStep, SendStep, SwitchStep, PollStep, DispatchStep,
            NetworkStep

LEMMA CloseStepStays ==
  ASSUME CloseStep
  PROVE  closePc # "outside" /\ closePc' # "outside" /\ runPc' = runPc
BY DEF CloseStep, CloseReadsState, CloseWakesUp, CloseSetsClosing, CloseSendDataTests,
       CloseAppends, CloseSends, CloseSendFailedTests, CloseSwitchTests,
       CloseCallbackReturns, CloseStoresClosed, CloseRequestsFlush, CloseWakesUpSend,
       CloseGoes
=============================================================================
