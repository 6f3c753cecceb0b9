--------------------------- MODULE StreamReports ---------------------------
(***************************************************************************)
(* What AisStreamClient's user sees: a stream that is wanted or not, a      *)
(* supervisor that is alive or not, a Stop() in progress or not, and the    *)
(* last state passed to the state callback - the text of the GUI's status   *)
(* label.  No socket, no lock, no session.                                 *)
(***************************************************************************)
VARIABLES wanted, stopping, alive, report,
          decided   \* is a report still to come that was decided before Stop()?

vars == <<wanted, stopping, alive, decided, report>>

(* The reports a supervisor may make after each other.  A session starts    *)
(* with Connecting.  Nothing replaces the reason of a failed connect or of  *)
(* a rejection but the next session.  Running can follow ConnectionLost and *)
(* be followed by Connecting: the subscribe message could not be sent, which *)
(* the Open handler does not look at; and a rejection that was received     *)
(* before the loss was noticed is still reported after it.  Rejections and  *)
(* losses repeat: two error messages, two CLOSE frames.                     *)
Follows(r) ==
  CASE r \in {"none", "Stopped", "TokenMissing"}  -> {"Connecting"}
    [] r = "Connecting"     -> {"Running", "ConnectFailed", "ConnectionLost"}
    [] r = "Running"        -> {"ServerError", "ConnectionLost", "Connecting"}
    [] r = "ConnectionLost" -> {"Connecting", "Running", "ServerError", "ConnectionLost"}
    [] r = "ServerError"    -> {"Connecting", "ServerError"}
    [] r = "ConnectFailed"  -> {"Connecting"}

(* When messages of the service may reach the user: once the connection was *)
(* reported Running, and until the next attempt or the end; some are still  *)
(* buffered when a rejection or the loss has been reported.                 *)
MayDeliver == alive /\ ~decided /\ report \in {"Running", "ServerError", "ConnectionLost"}

Init == /\ wanted = FALSE
        /\ stopping = FALSE
        /\ alive = FALSE
        /\ decided = FALSE
        /\ report = "none"

(* Start(), or the second half of Restart(): never while an older supervisor *)
(* can still report.                                                        *)
Start == /\ ~wanted /\ ~stopping /\ ~alive
         /\ wanted' = TRUE /\ alive' = TRUE
         /\ UNCHANGED <<stopping, decided, report>>

StartRefused == /\ ~wanted /\ ~stopping /\ ~alive
                /\ report' = "TokenMissing"
                /\ UNCHANGED <<wanted, stopping, alive, decided>>

(* The supervisor may have tested m_streaming just before, and be about to  *)
(* report what it then decided to.                                          *)
StopCalled == /\ ~stopping
              /\ wanted' = FALSE /\ stopping' = TRUE
              /\ decided' \in {FALSE, alive}
              /\ UNCHANGED <<alive, report>>

(* "blocks until the supervisor thread has exited" *)
StopReturns == /\ stopping /\ ~alive
               /\ stopping' = FALSE
               /\ UNCHANGED <<wanted, alive, decided, report>>

(* While stopping, a new session or a loss is reported once at most, and    *)
(* then because it was decided before - and it is the next report.          *)
Decidable == {"Connecting", "ConnectionLost"}

Report == /\ alive
          /\ report' \in Follows(report)
          /\ report' \in Decidable => wanted \/ decided
          /\ decided => report' \in Decidable
          /\ decided' = FALSE
          /\ UNCHANGED <<wanted, stopping, alive>>

(* The last report of every supervisor. *)
Exit == /\ alive /\ ~wanted /\ ~decided
        /\ report' = "Stopped"
        /\ alive' = FALSE
        /\ UNCHANGED <<wanted, stopping, decided>>

Next == Start \/ StartRefused \/ StopCalled \/ StopReturns \/ Report \/ Exit

Spec == Init /\ [][Next]_vars
=============================================================================
