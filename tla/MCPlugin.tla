------------------------------ MODULE MCPlugin ------------------------------
(* The plugin for TLC.  Each run has the inputs its properties tell apart.  *)
EXTENDS Plugin

MCNone     == {}
MCOne      == 1
MCTwo      == 2
MCNoVessel == 0

(* With a box of one degree, a fix at 2 is inside the follow threshold of   *)
(* the start, one at 3 just beyond it, and both fixes together are a drift. *)
MCPositions    == {0, 2, 3}
MCTwoPositions == {0, 3}
MCOnePosition  == {0}

(* The box a dialog starts with, and the largest. *)
MCOneSize   == {1}
MCLargeSize == {20}

MCTokens  == {" ", "token"}
MCNoToken == {""}

MCMmsis      == {123456789, 987654321, 99999999}
MCOneMmsi    == {123456789}
MCNames      == {<<"">>, <<"a">>}
MCCommaNames == {<<"a", "b">>}

(* A rejection, and an event with a sentence, a sentence without its end, a *)
(* value that is no string and a message of another kind.                   *)
Rejection == [type |-> "error", nmea |-> <<>>]
Position  == [type |-> "event",
              nmea |-> <<[isString |-> TRUE,  aivdm |-> TRUE,  terminated |-> TRUE],
                         [isString |-> FALSE, aivdm |-> FALSE, terminated |-> FALSE],
                         [isString |-> TRUE,  aivdm |-> FALSE, terminated |-> TRUE],
                         [isString |-> TRUE,  aivdm |-> TRUE,  terminated |-> FALSE]>>]
Welcome   == [type |-> "other", nmea |-> <<>>]

MCRejection == {Rejection}
MCPayloads  == {Rejection, Position, Welcome}
=============================================================================
