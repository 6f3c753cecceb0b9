---------------------------- MODULE IXWebSocket ----------------------------
(***************************************************************************)
(* One ix::WebSocket as the plugin uses it: run() on the supervisor thread *)
(* (no background thread, no automatic reconnection, no ping interval) and *)
(* close() from one other thread.  The transport below it is               *)
(* ix::WebSocketTransport.                                                 *)
(*                                                                         *)
(* Granularity: a step reads or writes one of the words the two threads    *)
(* share - _readyState, _requestInitCancellation, _txbuf, the socket, its   *)
(* interrupt pipe - so a test and what is done about it are two steps.     *)
(* Merged are only a wake-up of the run thread by itself with the access   *)
(* before it, and the reads with which poll() picks its timeout (none is    *)
(* undone by the other thread).  Three mutexes are held across steps and    *)
(* are read off the threads' program points: _socketMutex, _txbufMutex and *)
(* _setReadyStateMutex.                                                    *)
(*                                                                         *)
(* Abstracted: bytes (the receive buffer is a number of complete frames and *)
(* what follows them), close codes and reasons, the order and number of the *)
(* pending interrupts, and DNS/TCP/TLS/HTTP: one stage that polls the       *)
(* cancellation flag and has a last such poll.                              *)
(***************************************************************************)
EXTENDS Naturals

CONSTANTS MaxRedirections, \* handshakes connectToUrl() attempts at most (10)
          MaxFrames        \* bound: complete frames one read may leave in _rxbuf

ASSUME IXAssumption == /\ MaxRedirections \in Nat \ {0}
                       /\ MaxFrames \in Nat \ {0}

VARIABLES
  readyState,              \* _readyState (CONNECTING is never stored)
  requestInitCancellation, \* _requestInitCancellation
  socket,                  \* _socket: no object, object without fd, with fd
  interrupts,              \* codes waiting in the socket's SelectInterrupt
  txbuf,                   \* is _txbuf non-empty?
  rxFrames,                \* complete frames in _rxbuf
  rxTail,                  \* what follows them in _rxbuf
  pollResult,              \* poll()'s result, dispatch()'s argument
  handshakes,              \* connectToUrl()'s loop counter i, plus one
  runPc,                   \* where the run thread is
  sendReturn,              \* where its sendData() returns to
  closeReturn,             \* where its setReadyState(CLOSED) returns to
  closePc                  \* where the closing thread is, inside close()

flags    == <<readyState, requestInitCancellation>>
wire     == <<socket, interrupts, txbuf>>
rxbuf    == <<rxFrames, rxTail>>
returns  == <<sendReturn, closeReturn>>
locals   == <<pollResult, handshakes, returns>>
wsVars   == <<flags, wire, rxbuf, locals, runPc, closePc>>

Interrupts == {"SendRequest", "CloseRequest"}
Tails      == {"clean", "partial", "bad"}

Connecting == {"clientHandshake", "handshaking", "handshook"}
Callbacks  == {"Open", "send", "sent", "Message", "Error", "Close", "lost"}
Waiting    == {"waiting", "waitingBriefly"}
Flushing   == {"flush", "flushing", "writing", "flushFailed", "flushSendFailed"}
Sending    == {"sendData", "append", "sending", "sendFailed", "requestFlush"}
Switching  == {"switch", "Close", "lost", "storeClosed"}
SelfClose  == {"readState", "readClosed", "setClosing", "selfSent", "selfClosed"}

SendReturns  == {"sent", "dispatch", "closeFrameSent", "selfSent"}
CloseReturns == {"requestFlush", "flushFailed", "flushSendFailed", "dispatch", "loop",
                 "resetToDispatch", "resetToLoop"}

RunPcs == {"outside", "checkConnection", "loop", "polled", "done", "abnormal"}
            \union Connecting \union Callbacks \union Waiting \union Flushing
            \union Sending \union Switching \union SelfClose
            \union SendReturns \union CloseReturns

(* close() after setReadyState(CLOSING) and before its last wakeUpFromPoll(). *)
SendingClose == {"sendFrame", "append", "sending", "sendFailed", "switch", "callback",
                 "storeClosed", "requestFlush", "wakeUpSend"}
ClosePcs     == {"outside", "readState", "readClosed", "wakeUpClose", "setClosing",
                 "returned"} \union SendingClose

(* connectToUrl() holds _socketMutex from createSocket() to its return.     *)
SocketMutexFree == runPc \notin Connecting

(* setReadyState() holds _setReadyStateMutex while it calls the callback.   *)
StateMutexFree == /\ runPc \notin {"Close", "lost", "storeClosed"}
                  /\ closePc \notin {"callback", "storeClosed"}

(* A sendOnSocket() that fails holds _txbufMutex until setReadyState(CLOSED) *)
(* has returned.                                                            *)
TxbufMutexFree ==
  /\ runPc # "sendFailed"
  /\ ~(runPc \in Switching /\ closeReturn \in {"requestFlush", "flushSendFailed"})
  /\ closePc \notin {"sendFailed", "switch", "callback", "storeClosed"}

(* A step of one thread that changes nothing the other one can see. *)
RunGoes(pc)   == runPc' = pc /\ UNCHANGED <<flags, wire, rxbuf, locals, closePc>>
CloseGoes(pc) == closePc' = pc /\ UNCHANGED <<flags, wire, rxbuf, locals, runPc>>

(* The connection the WebSocket constructor makes. *)
Fresh == /\ readyState = "CLOSED"
         /\ requestInitCancellation = FALSE
         /\ socket = "none"
         /\ interrupts = {}
         /\ txbuf = FALSE
         /\ rxFrames = 0
         /\ rxTail = "clean"
         /\ pollResult = "Succeeded"
         /\ handshakes = 0
         /\ sendReturn = "dispatch"
         /\ closeReturn = "loop"

WsInit == Fresh /\ runPc = "outside" /\ closePc = "outside"

-----------------------------------------------------------------------------
(***************************************************************************)
(* run(): checkConnection() and connect().                                 *)
(***************************************************************************)

(* run() is entered with readyState CLOSED, so the first checkConnection()  *)
(* goes on to connect(): connectToUrl() takes _socketMutex and creates the  *)
(* socket object with an empty interrupt pipe.                             *)
RunBegins ==
  /\ runPc = "checkConnection"
  /\ readyState = "CLOSED"
  /\ runPc' = "clientHandshake"
  /\ socket' = "closed"
  /\ interrupts' = {}
  /\ handshakes' = 1
  /\ UNCHANGED <<flags, txbuf, rxbuf, pollResult, returns, closePc>>

(* createSocket() fails: _socket stays null. *)
CreateSocketFails == runPc = "checkConnection" /\ RunGoes("Error")

(* The first statement of clientHandshake(): a close() that has already set *)
(* the flag is forgotten.                                                   *)
ResetCancellation ==
  /\ runPc = "clientHandshake"
  /\ requestInitCancellation' = FALSE
  /\ runPc' = "handshaking"
  /\ UNCHANGED <<readyState, wire, rxbuf, locals, closePc>>

HandshakeCancelled ==
  runPc = "handshaking" /\ requestInitCancellation /\ RunGoes("Error")

(* Connection refused, the 60 s timeout, a response that is not a valid 101 *)
(* (the last redirection allowed included).                                 *)
HandshakeFails == runPc \in {"handshaking", "handshook"} /\ RunGoes("Error")

(* isCancellationRequested() has returned false for the last time: the     *)
(* response is in, and close() can no longer cancel.                        *)
HandshakeLastCheck ==
  /\ runPc = "handshaking"
  /\ ~requestInitCancellation
  /\ runPc' = "handshook"
  /\ socket' = "open"
  /\ UNCHANGED <<flags, interrupts, txbuf, rxbuf, locals, closePc>>

(* A 3xx response: a new socket object, and clientHandshake() again - and   *)
(* without an end, were it not for maxRedirections.                         *)
FollowsRedirection ==
  /\ runPc = "handshook"
  /\ handshakes' = handshakes + 1
  /\ runPc' = "clientHandshake"
  /\ socket' = "closed"
  /\ interrupts' = {}
  /\ UNCHANGED <<flags, txbuf, rxbuf, pollResult, returns, closePc>>

Redirected == handshakes < MaxRedirections /\ FollowsRedirection

(* setReadyState(OPEN), _socketMutex released (and i out of scope), Open     *)
(* callback entered.                                                        *)
HandshakeSucceeds ==
  /\ runPc = "handshook"
  /\ StateMutexFree
  /\ readyState' = "OPEN"
  /\ handshakes' = 0
  /\ runPc' = "Open"
  /\ UNCHANGED <<requestInitCancellation, wire, rxbuf, pollResult, returns, closePc>>

(* The user's handler returns from the Error callback; run() goes on to its *)
(* readyState test, as checkConnection() makes no second attempt.           *)
ErrorReturns == runPc = "Error" /\ RunGoes("loop")

-----------------------------------------------------------------------------
(***************************************************************************)
(* sendData(), on either thread: test of the state, appendToSendBuffer(),   *)
(* sendOnSocket(), and a wake-up if something is left to flush.             *)
(***************************************************************************)

(* What sendOnSocket() comes to: all is sent (or was, by the other thread), *)
(* a rest is kept, or send() fails and the socket is closed.                *)
AllSent   == (socket = "open" \/ ~txbuf) /\ txbuf' = FALSE /\ UNCHANGED socket
RestKept  == socket = "open" /\ txbuf /\ UNCHANGED <<txbuf, socket>>
SendFails == txbuf /\ socket' = "closed" /\ UNCHANGED txbuf

(* (A return leaves "dispatch" and "loop" behind, to have fewer states.)     *)
SendDataReturns == runPc' = sendReturn /\ sendReturn' = "dispatch"

SendDataTests ==
  /\ runPc = "sendData"
  /\ IF readyState = "CLOSED" THEN SendDataReturns
     ELSE runPc' = "append" /\ UNCHANGED sendReturn
  /\ UNCHANGED <<flags, wire, rxbuf, pollResult, handshakes, closeReturn, closePc>>

AppendsToSendBuffer ==
  /\ runPc = "append"
  /\ TxbufMutexFree
  /\ txbuf' = TRUE
  /\ runPc' = "sending"
  /\ UNCHANGED <<flags, socket, interrupts, rxbuf, locals, closePc>>

SendsOnSocket ==
  /\ runPc = "sending"
  /\ TxbufMutexFree
  /\ \/ (AllSent \/ RestKept) /\ runPc' = "requestFlush" /\ UNCHANGED closeReturn
     \/ SendFails /\ runPc' = "sendFailed" /\ closeReturn' = "requestFlush"
  /\ UNCHANGED <<flags, interrupts, rxbuf, pollResult, handshakes, sendReturn, closePc>>

SwitchReturns == runPc' = closeReturn /\ closeReturn' = "loop"

(* sendOnSocket()'s own test: a connection that is CLOSING is left alone. *)
SendFailedTests ==
  /\ runPc = "sendFailed"
  /\ IF readyState = "CLOSING" THEN SwitchReturns
     ELSE runPc' = "switch" /\ UNCHANGED closeReturn
  /\ UNCHANGED <<flags, wire, rxbuf, pollResult, handshakes, sendReturn, closePc>>

RequestsFlush ==
  /\ runPc = "requestFlush"
  /\ TxbufMutexFree
  /\ interrupts' = IF txbuf THEN interrupts \union {"SendRequest"} ELSE interrupts
  /\ SendDataReturns
  /\ UNCHANGED <<flags, socket, txbuf, rxbuf, pollResult, handshakes, closeReturn, closePc>>

(* WebSocket::sendMessage(), called by the Open handler: close() may already *)
(* have moved the connection to CLOSING, and then nothing is sent.          *)
SendText ==
  /\ runPc = "send"
  /\ readyState = "OPEN"
  /\ sendReturn' = "sent"
  /\ runPc' = "sendData"
  /\ UNCHANGED <<flags, wire, rxbuf, pollResult, handshakes, closeReturn, closePc>>

SendNotConnected == runPc = "send" /\ readyState # "OPEN" /\ RunGoes("sent")

-----------------------------------------------------------------------------
(***************************************************************************)
(* setReadyState(CLOSED) on the run thread: the mutex, the test, the Close  *)
(* callback, the store.                                                     *)
(***************************************************************************)
SwitchTests ==
  /\ runPc = "switch"
  /\ StateMutexFree
  /\ IF readyState = "CLOSED" THEN SwitchReturns
     ELSE runPc' = "Close" /\ UNCHANGED closeReturn
  /\ UNCHANGED <<flags, wire, rxbuf, pollResult, handshakes, sendReturn, closePc>>

StoresClosed ==
  /\ runPc = "storeClosed"
  /\ readyState' = "CLOSED"
  /\ SwitchReturns
  /\ UNCHANGED <<requestInitCancellation, wire, rxbuf, pollResult, handshakes, sendReturn,
                 closePc>>

(* closeSocketAndSwitchToClosedState() ends by clearing the flag. *)
ClearsCancellation ==
  /\ runPc \in {"resetToDispatch", "resetToLoop"}
  /\ requestInitCancellation' = FALSE
  /\ runPc' = IF runPc = "resetToLoop" THEN "loop" ELSE "dispatch"
  /\ UNCHANGED <<readyState, wire, rxbuf, locals, closePc>>

(* closeSocket() and entry into setReadyState(CLOSED). *)
SwitchesToClosed(to) ==
  /\ socket' = "closed"
  /\ closeReturn' = to
  /\ runPc' = "switch"

-----------------------------------------------------------------------------
(***************************************************************************)
(* run(): the poll loop.                                                   *)
(***************************************************************************)
RunReturns == runPc = "loop" /\ readyState = "CLOSED" /\ RunGoes("done")

(* poll() picks its timeout - none when OPEN, unless a cancellation was     *)
(* requested - and waits.  Without an fd isReadyToRead() fails at once and  *)
(* poll() merely closes the socket again.                                   *)
PollBegins ==
  /\ runPc = "loop"
  /\ readyState # "CLOSED"
  /\ pollResult' = "Succeeded"
  /\ runPc' = IF socket = "closed" THEN "polled"
              ELSE IF readyState = "OPEN" /\ ~requestInitCancellation
                   THEN "waiting" ELSE "waitingBriefly"
  /\ UNCHANGED <<flags, wire, rxbuf, handshakes, returns, closePc>>

PollTimesOut == runPc = "waitingBriefly" /\ interrupts = {} /\ RunGoes("polled")

PollInterrupted ==
  /\ runPc \in Waiting
  /\ \/ /\ "SendRequest" \in interrupts
        /\ interrupts' = interrupts \ {"SendRequest"}
        /\ runPc' = "flush"
        /\ UNCHANGED socket
     \/ /\ "CloseRequest" \in interrupts   \* closeSocket(), and only that
        /\ interrupts' = interrupts \ {"CloseRequest"}
        /\ socket' = "closed"
        /\ runPc' = "polled"
  /\ UNCHANGED <<flags, txbuf, rxbuf, locals, closePc>>

(* poll(2) itself fails, or reports an error without readable data: again   *)
(* closeSocket() and nothing else.                                          *)
PollFails ==
  /\ runPc \in Waiting
  /\ interrupts = {}
  /\ socket' = "closed"
  /\ runPc' = "polled"
  /\ UNCHANGED <<flags, interrupts, txbuf, rxbuf, locals, closePc>>

(* What a read may leave in _rxbuf (rxFrames is 0 before it): a frame that  *)
(* dispatch() refused stays in front, a partial one grows or is completed.  *)
(* Less than a frame header counts as nothing.                              *)
Received == IF rxTail = "bad" THEN UNCHANGED rxbuf
            ELSE /\ rxFrames' \in 0..MaxFrames
                 /\ rxTail' \in IF rxTail = "partial" /\ rxFrames' = 0
                                THEN {"partial"} ELSE Tails

PollReceives ==
  /\ runPc \in Waiting
  /\ interrupts = {}
  /\ socket = "open"
  /\ Received
  /\ runPc' = "polled"
  /\ UNCHANGED <<flags, wire, locals, closePc>>

(* recv() fails or the peer has closed the connection, possibly after the   *)
(* same call read some data.                                                *)
PollLosesConnection ==
  /\ runPc \in Waiting
  /\ interrupts = {}
  /\ Received
  /\ socket' = "closed"
  /\ pollResult' = "AbnormalClose"
  /\ runPc' = "dispatch"
  /\ UNCHANGED <<flags, interrupts, txbuf, handshakes, returns, closePc>>

(* flushSendBuffer(): given up when all is sent or on a cancellation. *)
FlushEnds ==
  /\ runPc = "flush"
  /\ TxbufMutexFree
  /\ ~txbuf \/ requestInitCancellation
  /\ RunGoes("polled")

FlushGoesOn ==
  /\ runPc = "flush"
  /\ TxbufMutexFree
  /\ txbuf /\ ~requestInitCancellation
  /\ RunGoes("flushing")

(* isReadyToWrite(10) reads the same interrupt pipe as poll(), and what it  *)
(* reads is lost.                                                           *)
FlushDropsInterrupt ==
  /\ runPc = "flushing"
  /\ socket = "open"
  /\ \E i \in interrupts : interrupts' = interrupts \ {i}
  /\ runPc' = "flush"
  /\ UNCHANGED <<flags, socket, txbuf, rxbuf, locals, closePc>>

FlushTimesOut ==
  runPc = "flushing" /\ socket = "open" /\ interrupts = {} /\ RunGoes("flush")

FlushReady ==
  runPc = "flushing" /\ socket = "open" /\ interrupts = {} /\ RunGoes("writing")

(* An error of the socket, or no fd any more. *)
FlushErrs ==
  /\ runPc = "flushing"
  /\ SwitchesToClosed("flushFailed")
  /\ UNCHANGED <<flags, interrupts, txbuf, rxbuf, pollResult, handshakes, sendReturn,
                 closePc>>

FlushFindsNoFd == socket = "closed" /\ FlushErrs

FlushWrites ==
  /\ runPc = "writing"
  /\ TxbufMutexFree
  /\ \/ (AllSent \/ RestKept) /\ runPc' = "flush" /\ UNCHANGED closeReturn
     \/ SendFails /\ runPc' = "sendFailed" /\ closeReturn' = "flushSendFailed"
  /\ UNCHANGED <<flags, interrupts, rxbuf, pollResult, handshakes, sendReturn, closePc>>

(* poll() returns CannotFlushSendBuffer, for dispatch() an abnormal closure. *)
CannotFlush ==
  /\ runPc \in {"flushFailed", "flushSendFailed"}
  /\ pollResult' = "AbnormalClose"
  /\ runPc' = "dispatch"
  /\ UNCHANGED <<flags, wire, rxbuf, handshakes, returns, closePc>>

(* Faulty: closes the socket, but leaves the state CLOSING. *)
ClosingDelayOnlyClosesSocket ==
  /\ runPc = "polled"
  /\ readyState = "CLOSING"
  /\ rxFrames' = 0 /\ rxTail' = "clean"
  /\ socket' = "closed"
  /\ runPc' = "dispatch"
  /\ UNCHANGED <<flags, interrupts, txbuf, locals, closePc>>

(* CLOSING for more than 300 ms: poll() ends the connection. *)
ClosingDelayExceeded ==
  /\ runPc = "polled"
  /\ readyState = "CLOSING"
  /\ rxFrames' = 0 /\ rxTail' = "clean"
  /\ SwitchesToClosed("dispatch")
  /\ UNCHANGED <<flags, interrupts, txbuf, pollResult, handshakes, sendReturn, closePc>>

PollReturns == runPc = "polled" /\ RunGoes("dispatch")

-----------------------------------------------------------------------------
(***************************************************************************)
(* dispatch(): the complete frames, then what follows them.                *)
(***************************************************************************)
DispatchMessage ==
  /\ runPc = "dispatch"
  /\ rxFrames > 0
  /\ rxFrames' = rxFrames - 1
  /\ runPc' = "Message"
  /\ UNCHANGED <<flags, wire, rxTail, locals, closePc>>

MessageReturns == runPc = "Message" /\ RunGoes("dispatch")

(* A PING is answered with a PONG. *)
DispatchPing ==
  /\ runPc = "dispatch"
  /\ rxFrames > 0
  /\ rxFrames' = rxFrames - 1
  /\ sendReturn' = "dispatch"
  /\ runPc' = "sendData"
  /\ UNCHANGED <<flags, wire, rxTail, pollResult, handshakes, closeReturn, closePc>>

(* The peer's CLOSE frame, on a connection that is not CLOSING - even one   *)
(* that is CLOSED: setReadyState(CLOSING) and a CLOSE frame back first.     *)
DispatchClose ==
  /\ runPc = "dispatch"
  /\ rxFrames > 0
  /\ readyState # "CLOSING"
  /\ rxFrames' = rxFrames - 1
  /\ sendReturn' = "closeFrameSent"
  /\ runPc' = "setClosing"
  /\ UNCHANGED <<flags, wire, rxTail, pollResult, handshakes, closeReturn, closePc>>

(* The answer to our own CLOSE. *)
DispatchCloseAnswer ==
  /\ runPc = "dispatch"
  /\ rxFrames > 0
  /\ readyState = "CLOSING"
  /\ rxFrames' = rxFrames - 1
  /\ SwitchesToClosed("resetToDispatch")
  /\ UNCHANGED <<flags, interrupts, txbuf, rxTail, pollResult, handshakes, sendReturn,
                 closePc>>

(* An answer to our own CLOSE with another code or reason is ignored. *)
DispatchOtherClose ==
  /\ runPc = "dispatch"
  /\ rxFrames > 0
  /\ readyState = "CLOSING"
  /\ rxFrames' = rxFrames - 1
  /\ UNCHANGED <<flags, wire, rxTail, locals, runPc, closePc>>

(* setReadyState(CLOSING), whatever the state has become since it was read, *)
(* then sendCloseFrame(): for DispatchClose and for the thread's own close(). *)
SetsClosing ==
  /\ runPc = "setClosing"
  /\ StateMutexFree
  /\ readyState' = "CLOSING"
  /\ runPc' = "sendData"
  /\ UNCHANGED <<requestInitCancellation, wire, rxbuf, locals, closePc>>

(* wakeUpFromPoll(), closeSocketAndSwitchToClosedState(). *)
CloseFrameSent ==
  /\ runPc = "closeFrameSent"
  /\ interrupts' = interrupts \union {"CloseRequest"}
  /\ SwitchesToClosed("resetToDispatch")
  /\ UNCHANGED <<flags, txbuf, rxbuf, pollResult, handshakes, sendReturn, closePc>>

(* A protocol violation, for which dispatch() itself calls close(): reserved *)
(* bits, a fragmented control frame or an oversized PING, which are never   *)
(* consumed, or an unknown opcode or a data frame out of sequence, which    *)
(* are.                                                                     *)
DispatchViolation ==
  /\ runPc = "dispatch"
  /\ rxFrames > 0 \/ rxTail = "bad"
  /\ requestInitCancellation' = TRUE
  /\ runPc' = "readState"
  /\ UNCHANGED <<readyState, wire, rxbuf, locals, closePc>>

(* close()'s two tests; not OPEN, it only interrupts the next poll(). *)
SelfCloseTests ==
  /\ \/ runPc = "readState" /\ readyState # "CLOSING" /\ runPc' = "readClosed"
     \/ runPc = "readClosed" /\ readyState # "CLOSED" /\ runPc' = "setClosing"
  /\ sendReturn' = "selfSent"
  /\ UNCHANGED <<flags, wire, rxbuf, pollResult, handshakes, closeReturn, closePc>>

SelfCloseInterrupts ==
  /\ \/ runPc = "readState" /\ readyState = "CLOSING"
     \/ runPc = "readClosed" /\ readyState = "CLOSED"
  /\ interrupts' = interrupts \union {"CloseRequest"}
  /\ runPc' = "selfClosed"
  /\ UNCHANGED <<flags, socket, txbuf, rxbuf, locals, closePc>>

SelfCloseSent ==
  /\ runPc = "selfSent"
  /\ interrupts' = interrupts \union {"SendRequest"}
  /\ runPc' = "selfClosed"
  /\ UNCHANGED <<flags, socket, txbuf, rxbuf, locals, closePc>>

(* Back in dispatch(): it returns without consuming a bad frame; any other  *)
(* is consumed, a data frame after it was handed on all the same.           *)
SelfCloseReturns ==
  /\ runPc = "selfClosed"
  /\ \/ rxFrames = 0 /\ runPc' = "loop" /\ UNCHANGED rxFrames
     \/ rxFrames > 0 /\ runPc' \in {"dispatch", "Message"} /\ rxFrames' = rxFrames - 1
  /\ UNCHANGED <<flags, wire, rxTail, locals, closePc>>

(* Part of a frame: dispatch() returns at once, whatever poll() reported. *)
DispatchPartialFrame ==
  /\ runPc = "dispatch"
  /\ rxFrames = 0 /\ rxTail = "partial"
  /\ RunGoes("loop")

DispatchEnds ==
  /\ runPc = "dispatch"
  /\ rxFrames = 0 /\ rxTail = "clean"
  /\ pollResult = "Succeeded"
  /\ RunGoes("loop")

(* An abnormal closure: two tests, for CLOSING and then for CLOSED. *)
DispatchAbnormalClose ==
  /\ runPc = "dispatch"
  /\ rxFrames = 0 /\ rxTail = "clean"
  /\ pollResult = "AbnormalClose"
  /\ IF readyState = "CLOSING"
     THEN SwitchesToClosed("loop") /\ UNCHANGED <<interrupts, txbuf>>
     ELSE runPc' = "abnormal" /\ UNCHANGED <<wire, closeReturn>>
  /\ UNCHANGED <<flags, rxbuf, pollResult, handshakes, sendReturn, closePc>>

AbnormalCloseOfOpen ==
  /\ runPc = "abnormal"
  /\ readyState # "CLOSED"
  /\ SwitchesToClosed("resetToLoop")
  /\ UNCHANGED <<flags, interrupts, txbuf, rxbuf, pollResult, handshakes, sendReturn,
                 closePc>>

AbnormalCloseOfClosed == runPc = "abnormal" /\ readyState = "CLOSED" /\ RunGoes("loop")

-----------------------------------------------------------------------------
(***************************************************************************)
(* close() on another thread than run()'s.                                 *)
(***************************************************************************)
CloseBegins ==
  /\ closePc = "outside"
  /\ requestInitCancellation' = TRUE
  /\ closePc' = "readState"
  /\ UNCHANGED <<readyState, wire, rxbuf, locals, runPc>>

(* CLOSING by now? and CLOSED? *)
CloseReadsState ==
  \/ /\ closePc = "readState"
     /\ CloseGoes(IF readyState = "CLOSING" THEN "wakeUpClose" ELSE "readClosed")
  \/ /\ closePc = "readClosed"
     /\ CloseGoes(IF readyState = "CLOSED" THEN "wakeUpClose" ELSE "setClosing")

(* Not OPEN: only wake the run thread up, once _socketMutex is free. *)
CloseWakesUp ==
  /\ closePc = "wakeUpClose"
  /\ SocketMutexFree
  /\ interrupts' = IF socket = "none" THEN interrupts
                   ELSE interrupts \union {"CloseRequest"}
  /\ closePc' = "returned"
  /\ UNCHANGED <<flags, socket, txbuf, rxbuf, locals, runPc>>

(* setReadyState(CLOSING), whatever the state has become since it was read. *)
CloseSetsClosing ==
  /\ closePc = "setClosing"
  /\ StateMutexFree
  /\ readyState' = "CLOSING"
  /\ closePc' = "sendFrame"
  /\ UNCHANGED <<requestInitCancellation, wire, rxbuf, locals, runPc>>

(* sendCloseFrame(): sendData() as above, on this thread. *)
CloseSendDataTests ==
  /\ closePc = "sendFrame"
  /\ CloseGoes(IF readyState = "CLOSED" THEN "wakeUpSend" ELSE "append")

CloseAppends ==
  /\ closePc = "append"
  /\ TxbufMutexFree
  /\ txbuf' = TRUE
  /\ closePc' = "sending"
  /\ UNCHANGED <<flags, socket, interrupts, rxbuf, locals, runPc>>

CloseSends ==
  /\ closePc = "sending"
  /\ TxbufMutexFree
  /\ \/ (AllSent \/ RestKept) /\ closePc' = "requestFlush"
     \/ SendFails /\ closePc' = "sendFailed"
  /\ UNCHANGED <<flags, interrupts, rxbuf, locals, runPc>>

(* sendOnSocket()'s test after a failed send, while _txbufMutex is held ... *)
CloseSendFailedTests ==
  /\ closePc = "sendFailed"
  /\ CloseGoes(IF readyState = "CLOSING" THEN "requestFlush" ELSE "switch")

(* ... and setReadyState(CLOSED) on this thread, with a test of its own: if *)
(* the run thread has made the connection CLOSING in between, the Close     *)
(* callback runs here.                                                      *)
CloseSwitchTests ==
  /\ closePc = "switch"
  /\ StateMutexFree
  /\ CloseGoes(IF readyState = "CLOSED" THEN "requestFlush" ELSE "callback")

CloseCallbackReturns == closePc = "callback" /\ CloseGoes("storeClosed")

CloseStoresClosed ==
  /\ closePc = "storeClosed"
  /\ readyState' = "CLOSED"
  /\ closePc' = "requestFlush"
  /\ UNCHANGED <<requestInitCancellation, wire, rxbuf, locals, runPc>>

CloseRequestsFlush ==
  /\ closePc = "requestFlush"
  /\ TxbufMutexFree
  /\ interrupts' = IF txbuf THEN interrupts \union {"SendRequest"} ELSE interrupts
  /\ closePc' = "wakeUpSend"
  /\ UNCHANGED <<flags, socket, txbuf, rxbuf, locals, runPc>>

(* Faulty: the run thread is left alone in poll(). *)
CloseWakesNobody == closePc = "wakeUpSend" /\ CloseGoes("returned")

CloseWakesUpSend ==
  /\ closePc = "wakeUpSend"
  /\ interrupts' = interrupts \union {"SendRequest"}
  /\ closePc' = "returned"
  /\ UNCHANGED <<flags, socket, txbuf, rxbuf, locals, runPc>>

-----------------------------------------------------------------------------
(***************************************************************************)
(* The connection on its own: handlers that return, an Open handler that    *)
(* may send, and a second thread that may call close() at any time.         *)
(***************************************************************************)
RunCalled == runPc = "outside" /\ RunGoes("checkConnection")

OpenSends == runPc = "Open" /\ RunGoes("send")

OpenReturns == runPc \in {"Open", "sent"} /\ RunGoes("loop")

(* The Close handler may have something to report. *)
CloseTests   == runPc = "Close" /\ RunGoes("lost")
CloseHandled == runPc \in {"Close", "lost"} /\ RunGoes("storeClosed")

CloseReturned == closePc = "returned" /\ CloseGoes("outside")

(* The run thread's own progress: everything that needs neither the network *)
(* nor the user's handlers.  The handshake always ends (60 s timeout).      *)
ConnectStep == \/ RunBegins \/ CreateSocketFails \/ ResetCancellation
               \/ HandshakeCancelled \/ HandshakeFails \/ HandshakeLastCheck
               \/ Redirected \/ HandshakeSucceeds

SendStep == \/ SendText \/ SendNotConnected \/ SendDataTests \/ AppendsToSendBuffer
            \/ SendsOnSocket \/ SendFailedTests \/ RequestsFlush

SwitchStep == SwitchTests \/ StoresClosed \/ ClearsCancellation

PollStep == \/ RunReturns \/ PollBegins \/ PollTimesOut \/ PollInterrupted
            \/ FlushEnds \/ FlushGoesOn \/ FlushDropsInterrupt \/ FlushTimesOut
            \/ FlushFindsNoFd \/ FlushWrites \/ CannotFlush
            \/ PollReturns \/ ClosingDelayExceeded

DispatchStep == \/ DispatchMessage \/ DispatchPing
                \/ DispatchClose \/ DispatchCloseAnswer \/ DispatchOtherClose
                \/ SetsClosing \/ CloseFrameSent
                \/ DispatchViolation \/ SelfCloseTests \/ SelfCloseInterrupts
                \/ SelfCloseSent \/ SelfCloseReturns
                \/ DispatchPartialFrame \/ DispatchEnds \/ DispatchAbnormalClose
                \/ AbnormalCloseOfOpen \/ AbnormalCloseOfClosed

(* What the network may do, or never do. *)
NetworkStep == PollReceives \/ PollLosesConnection \/ PollFails \/ FlushReady \/ FlushErrs

CloseStep == \/ CloseReadsState \/ CloseWakesUp \/ CloseSetsClosing
             \/ CloseSendDataTests \/ CloseAppends \/ CloseSends
             \/ CloseSendFailedTests \/ CloseSwitchTests \/ CloseCallbackReturns
             \/ CloseStoresClosed \/ CloseRequestsFlush \/ CloseWakesUpSend

HandlerStep == \/ OpenSends \/ OpenReturns \/ MessageReturns \/ ErrorReturns
               \/ CloseTests \/ CloseHandled

InternalStep == ConnectStep \/ SendStep \/ SwitchStep \/ PollStep \/ DispatchStep

RunStep == InternalStep \/ HandlerStep

WsNext == \/ RunCalled \/ RunStep \/ NetworkStep
          \/ CloseBegins \/ CloseStep \/ CloseReturned

(* Both threads run; 300 ms pass.  The network owes nothing. *)
WsFairness == /\ WF_wsVars(RunStep)
              /\ SF_wsVars(ClosingDelayExceeded)
              /\ WF_wsVars(CloseStep)

WsSpec == WsInit /\ [][WsNext]_wsVars /\ WsFairness

WsTypeOK ==
  /\ readyState \in {"CLOSED", "OPEN", "CLOSING"}
  /\ requestInitCancellation \in BOOLEAN
  /\ socket \in {"none", "closed", "open"}
  /\ interrupts \in SUBSET Interrupts
  /\ txbuf \in BOOLEAN
  /\ rxFrames \in 0..MaxFrames
  /\ rxTail \in Tails
  /\ pollResult \in {"Succeeded", "AbnormalClose"}
  /\ handshakes \in 0..MaxRedirections
  /\ runPc \in RunPcs
  /\ sendReturn \in SendReturns
  /\ closeReturn \in CloseReturns
  /\ closePc \in ClosePcs

-----------------------------------------------------------------------------
(* The Close callback runs on the thread inside run(), never on the one     *)
(* inside close(): "the socket's read loop runs on it (run() below), so the *)
(* message callback does too", says the comment above the client's          *)
(* per-session flags, which have no lock (sendOnSocket(), setReadyState()). *)
CallbacksOnRunThread == closePc # "callback"

(* A close() that finds the connection OPEN ends run(), whatever the peer   *)
(* answers and whichever thread notices first that the connection is gone - *)
(* provided its cancellation request has survived: if clientHandshake() has *)
(* wiped it, flushSendBuffer() may wait for a peer that never reads.        *)
CloseOfOpenEndsRun ==
  closePc = "setClosing" /\ requestInitCancellation ~> runPc = "done"

(* While close() has the connection CLOSING, run() stays able to notice:    *)
(* it is never in a poll without a timeout unless an interrupt is on its way *)
(* (poll(), close(), wakeUpFromPoll()).                                     *)
ClosingIsNoticed ==
  readyState = "CLOSING" /\ runPc = "waiting"
    => interrupts # {} \/ closePc \in SendingClose

(* dispatch() promises that an abnormal closure raised in poll(), if the    *)
(* received data does not close the connection first, closes it.            *)
AbnormalCloseEndsConnection ==
  pollResult = "AbnormalClose" /\ runPc = "dispatch" ~> readyState = "CLOSED"
=============================================================================
