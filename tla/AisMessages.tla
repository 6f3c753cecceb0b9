---------------------------- MODULE AisMessages ----------------------------
(***************************************************************************)
(* The two texts AisStreamClient exchanges with the AIS service: the        *)
(* subscribe message it builds and the JSON messages it gets back.          *)
(*                                                                         *)
(* Positions are latitudes in twentieths of a degree, box sizes are whole   *)
(* degrees (the slider's values), so the half side of a box is an integer.  *)
(* Longitudes are treated like latitudes by all of this code, but for the   *)
(* factor cos(latitude) of the follow threshold; positions lie near the     *)
(* equator, where it is 1.                                                  *)
(***************************************************************************)
EXTENDS Lists

(* kStandardMaxBoxSizeDegrees and kTokenMaxBoxSizeDegrees: what the         *)
(* authentication mode allows.                                              *)
MaxBoxSize(useToken) == IF useToken THEN 20 ELSE 10

(* Half the side of a box, in the unit of positions. *)
HalfSide(boxSize) == 10 * boxSize

(* BuildSubscribeMessage(): the search area cut down to what the mode       *)
(* allows, and the followed vessels if there are any and following is on    *)
(* (an empty list stands for a message without "mmsi").                     *)
BuildSubscribeMessage(position, boxSize, following, mmsiList, useToken) ==
  LET size == IF boxSize < MaxBoxSize(useToken) THEN boxSize
                                                ELSE MaxBoxSize(useToken)
  IN [bbox |-> <<position - HalfSide(size), position + HalfSide(size)>>,
      mmsi |-> IF following THEN mmsiList ELSE <<>>]

(* A payload as the JSON reader sees it: "garbage" does not parse; anything  *)
(* else is a JSON object whose "type", if there is one, is no array or       *)
(* object: "other" is a welcome or control message; an event carries a list *)
(* "nmea" (empty when the member is missing or no array) of values that may *)
(* be strings, may start with !AIVDM and may end with CR LF.  Left out is   *)
(* JSON of another shape, for which isMember() or asString() throws in      *)
(* HandleMessage() and the program ends.                                    *)
Nmea     == [isString : BOOLEAN, aivdm : BOOLEAN, terminated : BOOLEAN]
Sentence == [isString : {TRUE}, aivdm : {TRUE}, terminated : {TRUE}]
Payload  == [type : {"garbage", "other", "error", "event"}, nmea : Seq(Nmea)]

ProcessAisEventAsIs(ev) ==  \* faulty: sentences without their end are passed on so
  IF ev.type # "event" THEN <<>>
  ELSE SelectSeq(ev.nmea, LAMBDA s : s.isString /\ s.aivdm)

(* ProcessAisEvent(): the AIVDM strings in their order, each terminated. *)
ProcessAisEvent(ev) ==
  LET vdm == Kept(ev.nmea, {i \in DOMAIN ev.nmea :
                              ev.nmea[i].isString /\ ev.nmea[i].aivdm})
  IN IF ev.type # "event" THEN <<>>
     ELSE [i \in DOMAIN vdm |-> [vdm[i] EXCEPT !.terminated = TRUE]]

(* HandleMessage() returns TRUE for a type:"error" frame. *)
IsServerError(payload) == payload.type = "error"
=============================================================================
