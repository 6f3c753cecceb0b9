----------------------- MODULE AisStreamClient_proofs -----------------------
(***************************************************************************)
(* Theorems about AisStreamClient for every backoff limit, number of        *)
(* redirections and of frames.  ClientInv is the inductive invariant behind *)
(* the safety properties: it says who holds m_socketMutex, and ties the two *)
(* threads' program points to m_socket, m_thread and m_streaming.           *)
(***************************************************************************)
EXTENDS AisStreamClient, IXWebSocket_proofs

(* The client's variables keep their types: the GUI's, then the supervisor's. *)
LEMMA GuiStepType ==
  ASSUME GuiTypeOK, Next
  PROVE  GuiTypeOK'
<1> USE TokensAssumption DEF GuiTypeOK, shared, tokenVars, gui, clientVars
<1>1.  CASE SetTokenEnabled         BY <1>1 DEF SetTokenEnabled
<1>2.  CASE SetToken                BY <1>2 DEF SetToken
<1>3.  CASE StopBegins              BY <1>3 DEF StopBegins
<1>4.  CASE RestartBegins           BY <1>4 DEF RestartBegins
<1>5.  CASE StartRefuses            BY <1>5 DEF StartRefuses
<1>6.  CASE StartSpawns             BY <1>6 DEF StartSpawns
<1>7.  CASE StopFindsSocket         BY <1>7 DEF StopFindsSocket
<1>8.  CASE StopFindsNoSocket       BY <1>8 DEF StopFindsNoSocket
<1>9.  CASE StopCloses              BY <1>9 DEF StopCloses
<1>10. CASE StopInCallback          BY <1>10 DEF StopInCallback
<1>11. CASE StopReleasesSocket      BY <1>11 DEF StopReleasesSocket
<1>12. CASE StopJoins               BY <1>12 DEF StopJoins
<1>13. CASE LoopTest                BY <1>13 DEF LoopTest
<1>14. CASE SessionBegins           BY <1>14 DEF SessionBegins
<1>15. CASE PublishSocket           BY <1>15 DEF PublishSocket, MovesSocket
<1>16. CASE SupervisorExits         BY <1>16 DEF SupervisorExits
<1>17. CASE TearDown                BY <1>17 DEF TearDown, DestroysSocket
<1>18. CASE SleepBegins             BY <1>18 DEF SleepBegins
<1>19. CASE SleepEnds               BY <1>19 DEF SleepEnds, Smaller
<1>20. CASE OpenLocksSocket         BY <1>20 DEF OpenLocksSocket
<1>21. CASE OpenReleasesSocket      BY <1>21 DEF OpenReleasesSocket
<1>22. CASE OpenReportsRunning      BY <1>22 DEF OpenReportsRunning
<1>23. CASE OnServerError           BY <1>23 DEF OnServerError
<1>24. CASE OnAisMessage            BY <1>24 DEF OnAisMessage
<1>25. CASE OnError                 BY <1>25 DEF OnError
<1>26. CASE OnCloseTests            BY <1>26 DEF OnCloseTests
<1>27. CASE OnCloseReports          BY <1>27 DEF OnCloseReports
<1>28. CASE InRun                   BY <1>28 DEF InRun
<1>29. CASE Network                 BY <1>29 DEF Network
<1> QED BY <1>1, <1>2, <1>3, <1>4, <1>5, <1>6, <1>7, <1>8, <1>9, <1>10, <1>11, <1>12,
           <1>13, <1>14, <1>15, <1>16, <1>17, <1>18, <1>19, <1>20, <1>21, <1>22, <1>23,
           <1>24, <1>25, <1>26, <1>27, <1>28, <1>29
        DEF Next, Caller, StartStep, StopStep, SupervisorStep, MessageCallback

LEMMA SupervisorStepType ==
  ASSUME SupervisorTypeOK, Next
  PROVE  SupervisorTypeOK'
<1> USE BackoffAssumption
        DEF SupervisorTypeOK, Reports, Errors, shared, session, supervisor, clientVars
<1>1.  CASE SetTokenEnabled         BY <1>1 DEF SetTokenEnabled
<1>2.  CASE SetToken                BY <1>2 DEF SetToken
<1>3.  CASE StopBegins              BY <1>3 DEF StopBegins
<1>4.  CASE RestartBegins           BY <1>4 DEF RestartBegins
<1>5.  CASE StartRefuses            BY <1>5 DEF StartRefuses
<1>6.  CASE StartSpawns
  <2>1. InitialBackoffSeconds \in InitialBackoffSeconds..MaxBackoffSeconds
    BY DEF BackoffAssumption
  <2> QED BY <1>6, <2>1 DEF StartSpawns
<1>7.  CASE StopFindsSocket         BY <1>7 DEF StopFindsSocket
<1>8.  CASE StopFindsNoSocket       BY <1>8 DEF StopFindsNoSocket
<1>9.  CASE StopCloses              BY <1>9 DEF StopCloses
<1>10. CASE StopInCallback          BY <1>10 DEF StopInCallback
<1>11. CASE StopReleasesSocket      BY <1>11 DEF StopReleasesSocket
<1>12. CASE StopJoins               BY <1>12 DEF StopJoins
<1>13. CASE LoopTest                BY <1>13 DEF LoopTest
<1>14. CASE SessionBegins           BY <1>14 DEF SessionBegins
<1>15. CASE PublishSocket           BY <1>15 DEF PublishSocket, MovesSocket
<1>16. CASE SupervisorExits         BY <1>16 DEF SupervisorExits
<1>17. CASE TearDown                BY <1>17 DEF TearDown, DestroysSocket
<1>18. CASE SleepBegins             BY <1>18 DEF SleepBegins
<1>19. CASE SleepEnds               BY <1>19 DEF SleepEnds, Smaller
<1>20. CASE OpenLocksSocket         BY <1>20 DEF OpenLocksSocket
<1>21. CASE OpenReleasesSocket      BY <1>21 DEF OpenReleasesSocket
<1>22. CASE OpenReportsRunning      BY <1>22 DEF OpenReportsRunning
<1>23. CASE OnServerError           BY <1>23 DEF OnServerError
<1>24. CASE OnAisMessage            BY <1>24 DEF OnAisMessage
<1>25. CASE OnError                 BY <1>25 DEF OnError
<1>26. CASE OnCloseTests            BY <1>26 DEF OnCloseTests
<1>27. CASE OnCloseReports          BY <1>27 DEF OnCloseReports
<1>28. CASE InRun                   BY <1>28 DEF InRun
<1>29. CASE Network                 BY <1>29 DEF Network
<1> QED BY <1>1, <1>2, <1>3, <1>4, <1>5, <1>6, <1>7, <1>8, <1>9, <1>10, <1>11, <1>12,
           <1>13, <1>14, <1>15, <1>16, <1>17, <1>18, <1>19, <1>20, <1>21, <1>22, <1>23,
           <1>24, <1>25, <1>26, <1>27, <1>28, <1>29
        DEF Next, Caller, StartStep, StopStep, SupervisorStep, MessageCallback

-----------------------------------------------------------------------------
(***************************************************************************)
(* The inductive invariant.                                                *)
(***************************************************************************)

(* Stop() holds m_socketMutex exactly while it is in close(), and then the   *)
(* object it closes is in m_socket; m_socket is set during run().           *)
LockInv ==
  /\ guiPc = "closing" <=> closePc # "outside"
  /\ guiPc = "closing" <=> m_socketMutex = "gui"
  /\ guiPc = "closing" => m_socket /\ closeCalled
  /\ m_socket <=> supPc = "run"

(* Stop() has cleared m_streaming for as long as it lasts, and leaves no    *)
(* thread behind; without a thread there is no supervisor.                  *)
ThreadInv ==
  /\ StopPending => ~m_streaming
  /\ guiPc \in {"idle", "starting"} => (m_streaming <=> m_thread)
  /\ guiPc = "starting" => ~m_streaming
  /\ ~m_thread => supPc = "none"
  /\ guiPc = "joining" /\ m_socket => closeCalled

ClientInv == LockInv /\ ThreadInv

LEMMA LockStep ==
  ASSUME WsTypeOK, ThreadInv, LockInv, Next
  PROVE  LockInv'
<1> USE DEF LockInv, ThreadInv, StopPending, shared, gui, supervisor, clientVars, wsVars
<1>1.  CASE SetTokenEnabled         BY <1>1 DEF SetTokenEnabled
<1>2.  CASE SetToken                BY <1>2 DEF SetToken
<1>3.  CASE StopBegins              BY <1>3 DEF StopBegins
<1>4.  CASE RestartBegins           BY <1>4 DEF RestartBegins
<1>5.  CASE StartRefuses            BY <1>5 DEF StartRefuses
<1>6.  CASE StartSpawns             BY <1>6 DEF StartSpawns
<1>7.  CASE StopFindsSocket         BY <1>7 DEF StopFindsSocket, CloseBegins
<1>8.  CASE StopFindsNoSocket       BY <1>8 DEF StopFindsNoSocket
<1>9.  CASE StopCloses
  BY <1>9, CloseStepStays DEF StopCloses
<1>10. CASE StopInCallback
  BY <1>10 DEF StopInCallback, CloseCallbackReturns, CloseGoes
<1>11. CASE StopReleasesSocket
  BY <1>11 DEF StopReleasesSocket, CloseReturned, CloseGoes
<1>12. CASE StopJoins               BY <1>12 DEF StopJoins
<1>13. CASE LoopTest                BY <1>13 DEF LoopTest
<1>14. CASE SessionBegins           BY <1>14 DEF SessionBegins
<1>15. CASE PublishSocket
  BY <1>15 DEF PublishSocket, MovesSocket, RunCalled, RunGoes
<1>16. CASE SupervisorExits         BY <1>16 DEF SupervisorExits
<1>17. CASE TearDown                BY <1>17 DEF TearDown, DestroysSocket
<1>18. CASE SleepBegins             BY <1>18 DEF SleepBegins
<1>19. CASE SleepEnds               BY <1>19 DEF SleepEnds, Smaller
<1>20. CASE OpenLocksSocket         BY <1>20 DEF OpenLocksSocket, OpenSends, RunGoes
<1>21. CASE OpenReleasesSocket      BY <1>21 DEF OpenReleasesSocket
<1>22. CASE OpenReportsRunning
  BY <1>22 DEF OpenReportsRunning, OpenReturns, RunGoes
<1>23. CASE OnServerError           BY <1>23 DEF OnServerError, MessageReturns, RunGoes
<1>24. CASE OnAisMessage            BY <1>24 DEF OnAisMessage, MessageReturns, RunGoes
<1>25. CASE OnError                 BY <1>25 DEF OnError, ErrorReturns, RunGoes
<1>26. CASE OnCloseTests
  BY <1>26 DEF OnCloseTests, CloseTests, CloseHandled, RunGoes
<1>27. CASE OnCloseReports          BY <1>27 DEF OnCloseReports, CloseHandled, RunGoes
<1>28. CASE InRun
  BY <1>28, OnlyHandlerReports DEF InRun
<1>29. CASE Network
  BY <1>29, OnlyHandlerReports DEF Network
<1> QED BY <1>1, <1>2, <1>3, <1>4, <1>5, <1>6, <1>7, <1>8, <1>9, <1>10, <1>11, <1>12,
           <1>13, <1>14, <1>15, <1>16, <1>17, <1>18, <1>19, <1>20, <1>21, <1>22, <1>23,
           <1>24, <1>25, <1>26, <1>27, <1>28, <1>29
        DEF Next, Caller, StartStep, StopStep, SupervisorStep, MessageCallback

LEMMA ThreadStep ==
  ASSUME LockInv, ThreadInv, Next
  PROVE  ThreadInv'
<1> USE DEF LockInv, ThreadInv, StopPending, shared, gui, supervisor, clientVars
<1>1.  CASE SetTokenEnabled         BY <1>1 DEF SetTokenEnabled
<1>2.  CASE SetToken                BY <1>2 DEF SetToken
<1>3.  CASE StopBegins              BY <1>3 DEF StopBegins
<1>4.  CASE RestartBegins           BY <1>4 DEF RestartBegins
<1>5.  CASE StartRefuses            BY <1>5 DEF StartRefuses
<1>6.  CASE StartSpawns             BY <1>6 DEF StartSpawns
<1>7.  CASE StopFindsSocket         BY <1>7 DEF StopFindsSocket
<1>8.  CASE StopFindsNoSocket       BY <1>8 DEF StopFindsNoSocket
<1>9.  CASE StopCloses              BY <1>9 DEF StopCloses
<1>10. CASE StopInCallback          BY <1>10 DEF StopInCallback
<1>11. CASE StopReleasesSocket      BY <1>11 DEF StopReleasesSocket
<1>12. CASE StopJoins               BY <1>12 DEF StopJoins
<1>13. CASE LoopTest                BY <1>13 DEF LoopTest
<1>14. CASE SessionBegins           BY <1>14 DEF SessionBegins
<1>15. CASE PublishSocket           BY <1>15 DEF PublishSocket, MovesSocket
<1>16. CASE SupervisorExits         BY <1>16 DEF SupervisorExits
<1>17. CASE TearDown                BY <1>17 DEF TearDown, DestroysSocket
<1>18. CASE SleepBegins             BY <1>18 DEF SleepBegins
<1>19. CASE SleepEnds               BY <1>19 DEF SleepEnds, Smaller
<1>20. CASE OpenLocksSocket         BY <1>20 DEF OpenLocksSocket
<1>21. CASE OpenReleasesSocket      BY <1>21 DEF OpenReleasesSocket
<1>22. CASE OpenReportsRunning      BY <1>22 DEF OpenReportsRunning
<1>23. CASE OnServerError           BY <1>23 DEF OnServerError
<1>24. CASE OnAisMessage            BY <1>24 DEF OnAisMessage
<1>25. CASE OnError                 BY <1>25 DEF OnError
<1>26. CASE OnCloseTests            BY <1>26 DEF OnCloseTests
<1>27. CASE OnCloseReports          BY <1>27 DEF OnCloseReports
<1>28. CASE InRun                   BY <1>28 DEF InRun
<1>29. CASE Network                 BY <1>29 DEF Network
<1> QED BY <1>1, <1>2, <1>3, <1>4, <1>5, <1>6, <1>7, <1>8, <1>9, <1>10, <1>11, <1>12,
           <1>13, <1>14, <1>15, <1>16, <1>17, <1>18, <1>19, <1>20, <1>21, <1>22, <1>23,
           <1>24, <1>25, <1>26, <1>27, <1>28, <1>29
        DEF Next, Caller, StartStep, StopStep, SupervisorStep, MessageCallback

-----------------------------------------------------------------------------
(***************************************************************************)
(* The client takes no liberties with the connection: its steps are those   *)
(* of IXWebSocket, but for the one that destroys the object.                *)
(***************************************************************************)
LEMMA ClientUsesConnection ==
  ASSUME Next
  PROVE  [WsNext]_wsVars \/ TearDown
<1> USE DEF WsNext
<1>1. CASE Caller \/ StartStep \/ LoopTest \/ SessionBegins \/ SupervisorExits
           \/ SleepBegins \/ SleepEnds
  BY <1>1 DEF Caller, StartStep, SetTokenEnabled, SetToken, StopBegins, RestartBegins,
              StartRefuses, StartSpawns, LoopTest, SessionBegins, SupervisorExits,
              SleepBegins, SleepEnds
<1>2. CASE StopStep
  BY <1>2 DEF StopStep, StopFindsSocket, StopFindsNoSocket, StopCloses, StopInCallback,
              CloseStep, StopReleasesSocket, StopJoins
<1>3. CASE PublishSocket    BY <1>3 DEF PublishSocket, MovesSocket
<1>4. CASE MessageCallback
  BY <1>4 DEF MessageCallback, OpenLocksSocket, OpenReleasesSocket, OpenReportsRunning,
              OnServerError, OnAisMessage, OnError, OnCloseTests, OnCloseReports, RunStep,
              HandlerStep
<1>5. CASE InRun            BY <1>5 DEF InRun, RunStep
<1>6. CASE Network          BY <1>6 DEF Network
<1> QED BY <1>1, <1>2, <1>3, <1>4, <1>5, <1>6 DEF Next, SupervisorStep

(* A destroyed WebSocket leaves the state of a fresh one. *)
LEMMA TearDownFresh ==
  ASSUME WsTypeOK, TearDown
  PROVE  WsTypeOK' /\ readyState' = "CLOSED" /\ closePc' = closePc
<1>1. rxFrames' \in 0..MaxFrames /\ handshakes' \in 0..MaxRedirections
  BY IXAssumption DEF TearDown, DestroysSocket
<1>2. sendReturn' \in SendReturns /\ closeReturn' \in CloseReturns
  BY DEF TearDown, DestroysSocket, SendReturns, CloseReturns
<1>3. closePc' = closePc /\ closePc' \in ClosePcs
  BY DEF TearDown, DestroysSocket, WsTypeOK
<1> QED BY Zenon, <1>1, <1>2, <1>3
        DEF TearDown, DestroysSocket, WsTypeOK, RunPcs, Tails, Interrupts

IInv == TypeOK /\ CloseInv /\ ClientInv

LEMMA InitIInv == Init => IInv
<1> SUFFICES ASSUME Init PROVE IInv
  OBVIOUS
<1>1. WsTypeOK  BY InitType DEF Init
<1>2. GuiTypeOK  BY TokensAssumption DEF Init, GuiTypeOK
<1>3. SupervisorTypeOK
  <2>1. InitialBackoffSeconds \in InitialBackoffSeconds..MaxBackoffSeconds
    BY BackoffAssumption
  <2> QED BY Zenon, <2>1 DEF Init, SupervisorTypeOK, Reports, Errors
<1>4. CloseInv  BY DEF Init, WsInit, Fresh, CloseInv, ClosingIsNoticed, SendingClose
<1>5. ClientInv  BY DEF Init, WsInit, ClientInv, LockInv, ThreadInv, StopPending
<1> QED BY <1>1, <1>2, <1>3, <1>4, <1>5 DEF IInv, TypeOK

LEMMA NextIInv ==
  ASSUME IInv, [Next]_vars
  PROVE  IInv'
<1>1. CASE Next
  <2>1. WsTypeOK'
    <3>1. CASE [WsNext]_wsVars  BY <3>1, NextType DEF IInv, TypeOK
    <3>2. CASE TearDown  BY <3>2, TearDownFresh DEF IInv, TypeOK
    <3> QED BY <1>1, <3>1, <3>2, ClientUsesConnection
  <2>2. GuiTypeOK'  BY <1>1, GuiStepType DEF IInv, TypeOK
  <2>3. SupervisorTypeOK'  BY <1>1, SupervisorStepType DEF IInv, TypeOK
  <2>4. CloseInv'
    <3>1. CASE [WsNext]_wsVars  BY <3>1, NextClose DEF IInv, TypeOK
    <3>2. CASE TearDown
      <4>1. closePc = "outside"
        BY <3>2 DEF IInv, ClientInv, LockInv, TearDown
      <4> QED BY <3>2, <4>1, TearDownFresh
              DEF IInv, TypeOK, CloseInv, ClosingIsNoticed, SendingClose
    <3> QED BY <1>1, <3>1, <3>2, ClientUsesConnection
  <2>5. LockInv' /\ ThreadInv'
    BY <1>1, LockStep, ThreadStep DEF IInv, TypeOK, ClientInv
  <2> QED BY <2>1, <2>2, <2>3, <2>4, <2>5 DEF IInv, TypeOK, ClientInv
<1>2. CASE UNCHANGED vars
  <2> USE <1>2 DEF vars, clientVars, shared, tokenVars, gui, supervisor, session
  <2>1. WsTypeOK' /\ CloseInv'
    BY NextType, NextClose DEF IInv, TypeOK
  <2>2. GuiTypeOK'  BY DEF IInv, TypeOK, GuiTypeOK
  <2>3. SupervisorTypeOK'  BY DEF IInv, TypeOK, SupervisorTypeOK
  <2>4. ClientInv'
    BY DEF IInv, ClientInv, LockInv, ThreadInv, StopPending, wsVars
  <2> QED BY <2>1, <2>2, <2>3, <2>4 DEF IInv, TypeOK
<1> QED BY <1>1, <1>2

(* ClientInv, with the types and the connection's CloseInv, is inductive. *)
THEOREM Invariance == Spec => []IInv
BY InitIInv, NextIInv, PTL DEF Spec

-----------------------------------------------------------------------------
(* Both threads' variables and the connection's stay in their ranges; the   *)
(* backoff never leaves InitialBackoffSeconds..MaxBackoffSeconds.           *)
THEOREM TypeCorrect == Spec => []TypeOK
<1>1. IInv => TypeOK  BY DEF IInv
<1> QED BY <1>1, Invariance, PTL

(* While Stop() is inside close(), the supervisor neither destroys the      *)
(* WebSocket nor takes it out of m_socket.                                  *)
THEOREM SocketOutlives == Spec => []SocketOutlivesClose
<1>1. IInv => SocketOutlivesClose
  BY DEF IInv, ClientInv, LockInv, SocketOutlivesClose
<1> QED BY <1>1, Invariance, PTL

(* Stop() never waits for a session whose WebSocket it has not closed. *)
THEOREM JoinedSocketClosed == Spec => []JoinedSocketIsClosed
<1>1. IInv => JoinedSocketIsClosed
  BY DEF IInv, ClientInv, ThreadInv, JoinedSocketIsClosed
<1> QED BY <1>1, Invariance, PTL

(* A Close callback that close() runs on the GUI thread finds m_streaming   *)
(* cleared, and so neither reads nor reports anything of the session that   *)
(* the supervisor is still in.                                              *)
THEOREM GuiCallbackSilent == Spec => []GuiCallbackIsSilent
<1>1. IInv => GuiCallbackIsSilent
  BY DEF IInv, ClientInv, LockInv, ThreadInv, StopPending, GuiCallbackIsSilent
<1> QED BY <1>1, Invariance, PTL

(* IsStreaming() tells whether there is a thread to join. *)
THEOREM StreamingJoinable == Spec => []StreamingIffJoinable
<1>1. IInv => StreamingIffJoinable
  BY DEF IInv, ClientInv, ThreadInv, StreamingIffJoinable
<1> QED BY <1>1, Invariance, PTL

(* The pause before the next attempt shrinks only after a session that      *)
(* reached Running without a rejection, or with a new supervisor.           *)
THEOREM PauseShrinks == Spec => PauseShrinksOnlyAfterGoodSession
<1>1. ASSUME IInv, [Next]_vars
      PROVE  [backoffSeconds' < backoffSeconds
                => supPc = "none" \/ (reachedRunning /\ ~serverRejected)]_vars
  <2>1. backoffSeconds \in InitialBackoffSeconds..MaxBackoffSeconds
        /\ ThreadInv
    BY <1>1 DEF IInv, TypeOK, SupervisorTypeOK, ClientInv
  <2>2. CASE StartSpawns
    BY <2>1, <2>2 DEF StartSpawns, ThreadInv
  <2>3. CASE SleepBegins
    BY <2>1, <2>3, BackoffAssumption DEF SleepBegins
  <2>4. CASE SleepEnds
    BY <2>1, <2>4, BackoffAssumption DEF SleepEnds, Smaller
  <2>5. CASE UNCHANGED backoffSeconds
    BY <2>1, <2>5, BackoffAssumption
  <2>6. [Next]_vars => \/ StartSpawns \/ SleepBegins \/ SleepEnds
                      \/ UNCHANGED backoffSeconds
    BY DEF Next, Caller, StartStep, StopStep, SupervisorStep, MessageCallback,
           SetTokenEnabled, SetToken, StopBegins, RestartBegins, StartRefuses,
           StopFindsSocket, StopFindsNoSocket, StopCloses, StopInCallback,
           StopReleasesSocket, StopJoins, LoopTest, SessionBegins, PublishSocket,
           MovesSocket, SupervisorExits, TearDown, DestroysSocket, OpenLocksSocket,
           OpenReleasesSocket, OpenReportsRunning, OnServerError, OnAisMessage, OnError,
           OnCloseTests, OnCloseReports, InRun, Network, vars, clientVars, supervisor
  <2> QED BY <1>1, <2>2, <2>3, <2>4, <2>5, <2>6
<1> QED BY <1>1, Invariance, PTL DEF Spec, PauseShrinksOnlyAfterGoodSession
=============================================================================
