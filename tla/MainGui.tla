------------------------------ MODULE MainGui ------------------------------
(***************************************************************************)
(* DialogMainGui: search area, follow mode, followed vessels, start and     *)
(* stop, and the queue of events through which the stream's thread reaches  *)
(* the GUI thread.                                                         *)
(*                                                                         *)
(* AisStreamClient is the stream of module StreamReports, which module      *)
(* AisStreamClient is checked to implement.  A handler runs on the GUI      *)
(* thread in one step, up to the Stop() in which it may block; gui says in  *)
(* which handler it does, and what is left to do there.  The supervisor's   *)
(* steps interleave with all of this.                                       *)
(*                                                                         *)
(* Not modelled: layout, the text field cleared by Add, the follow check    *)
(* box (set together with m_followBoatMode), longitudes (see AisMessages).  *)
(***************************************************************************)
EXTENDS Settings, AisMessages

CONSTANTS Positions,    \* latitudes of boat and cursor
          SliderValues, \* where the user drags the slider to
          Mmsis,        \* what the user enters in the list, right or wrong
          Names,        \* and the names
          Payloads,     \* what the service sends
          MaxVessels,   \* bound on the list
          MaxQueue      \* bound on the queue, but for the last reports

ASSUME MainGuiAssumption == /\ Positions \subseteq Int
                            /\ SliderValues \subseteq 0..20
                            /\ Payloads \subseteq Payload
                            /\ MaxVessels \in Nat
                            /\ MaxQueue \in Nat \ {0}

VARIABLES
  wanted, stopping, alive, decided, report,  \* the stream
  client,   \* AisStreamClient's m_useToken and m_token, and the subscribe
            \* message its supervisor was started with
  queue,    \* events queued with CallAfter()
  gui,      \* what the GUI thread is doing
  window,   \* the dialog: "none" before it is created, "hidden" or "shown"
  modal,    \* the modal dialog that is open: "none", "preferences" or "menu"
  dialog    \* DialogMainGui's members and widgets

streamVars == <<wanted, stopping, alive, decided, report>>
guiVars    == <<streamVars, client, queue, gui, window, modal, dialog>>

Stream == INSTANCE StreamReports

NoMessage == [bbox |-> <<0, 0>>, mmsi |-> <<>>]
NewClient == [useToken |-> FALSE, token |-> "", subscription |-> NoMessage]

StateEvent(r)    == [kind |-> "state", state |-> r]
SentenceEvent(s) == [kind |-> "sentence", sentence |-> s]

-----------------------------------------------------------------------------
(* GreatCircleDistanceNm() along a meridian, and 0.3 of half the box's side *)
(* (ComputeFollowThresholdNm), both in the unit of positions.               *)
Distance(p, q) == IF p < q THEN q - p ELSE p - q

FollowThreshold(boxSize) == (3 * HalfSide(boxSize)) \div 10

(* updateSearchBoxSize() on the dialog's members: the range depends on the  *)
(* token, and the size is clamped to it.                                    *)
ResizedUnclamped(d, degrees, s) ==  \* faulty: the size keeps its old limit
  LET maxValue == IF HasToken(s) THEN 20 ELSE 10
  IN [d EXCEPT !.sliderMax = maxValue, !.slider = degrees, !.searchBoxSize = degrees,
               !.dragging = FALSE]

Resized(d, degrees, s) ==
  LET maxValue == IF HasToken(s) THEN 20 ELSE 10
      size     == IF degrees < maxValue THEN degrees ELSE maxValue
  IN [d EXCEPT !.sliderMax = maxValue, !.slider = size, !.searchBoxSize = size,
               !.dragging = FALSE]

(* The dialog as its constructor leaves it. *)
NewDialog(s) ==
  Resized([search |-> 0, boat |-> 0,
           initialBoatPositionSet |-> FALSE, followBoatMode |-> TRUE,
           searchBoxSize |-> 1, slider |-> 1, sliderMax |-> 10, dragging |-> FALSE,
           rows |-> [i \in DOMAIN s.mmsiList |->
                       <<s.mmsiList[i], IF i =< Len(s.mmsiListNames)
                                        THEN s.mmsiListNames[i] ELSE <<"">> >>],
           streamState |-> "none"],
          s.lastSearchBoxSize, s)

GuiInit ==
  /\ Stream!Init
  /\ client = NewClient
  /\ queue = <<>>
  /\ gui = "unloaded"
  /\ window = "none"
  /\ modal = "none"
  /\ dialog = NewDialog(DefaultSettings)

-----------------------------------------------------------------------------
(* The GUI thread takes the next event of the user or of OpenCPN. *)
Ready == gui = "idle" /\ Len(queue) < MaxQueue

(* The user works in the dialog's window. *)
UserMay == Ready /\ window = "shown" /\ modal = "none" /\ ~dialog.dragging

(* AisStreamClient::Start(), with the dialog's current parameters. *)
StartClient(c) ==
  IF c.useToken /\ c.token = ""
  THEN /\ Stream!StartRefused
       /\ queue' = Append(queue, StateEvent("TokenMissing"))
       /\ client' = c
  ELSE /\ Stream!Start
       /\ client' = [c EXCEPT !.subscription =
                       BuildSubscribeMessage(dialog.search, dialog.searchBoxSize,
                                             settings.activateVesselsFollowing,
                                             settings.mmsiList, c.useToken)]
       /\ UNCHANGED queue

(* SetToken(), SetTokenEnabled().  The token is one that the conversion from *)
(* wxString to std::string keeps (one the locale cannot represent would come *)
(* out empty).                                                              *)
TokenOnlyEnabled(s) == [client EXCEPT !.useToken = HasToken(s)]  \* faulty

TokenSet(s) == [client EXCEPT !.token = s.openWatersToken, !.useToken = HasToken(s)]

(* RestartAisStream(), the end of most handlers: nothing unless streaming;  *)
(* otherwise Stop() begins here, and Start() follows it.                    *)
RestartAisStream ==
  IF wanted THEN Stream!StopCalled /\ gui' = "restarting"
            ELSE UNCHANGED <<streamVars, gui>>

(* What every handler that changes the search area has in common. *)
ChangesArea(d) ==
  /\ dialog' = d
  /\ RestartAisStream
  /\ UNCHANGED <<queue, window>>

MovesAreaSilently(p) ==  \* faulty: the stream keeps the old area
  /\ dialog' = [dialog EXCEPT !.followBoatMode = FALSE, !.search = p]
  /\ UNCHANGED <<streamVars, queue, gui, window>>

updateSearchZoneOnCoord(p) ==
  ChangesArea([dialog EXCEPT !.followBoatMode = FALSE, !.search = p])

activateFollowBoatMode ==
  ChangesArea([dialog EXCEPT !.followBoatMode = TRUE, !.search = dialog.boat])

(* A position fix.  The first one sets the search position in any case. *)
updateBoatPositionByDrift(p) ==  \* faulty: measures from the previous fix
  LET moved   == [dialog EXCEPT !.boat = p]
      first   == ~dialog.initialBoatPositionSet
      follows == /\ dialog.followBoatMode
                 /\ dialog.searchBoxSize # 0
                 /\ Distance(dialog.boat, p) >= FollowThreshold(dialog.searchBoxSize)
  IN IF first \/ follows
     THEN ChangesArea([moved EXCEPT !.initialBoatPositionSet = TRUE, !.search = p])
     ELSE dialog' = moved /\ UNCHANGED <<streamVars, queue, gui, window>>

updateBoatPosition(p) ==
  LET moved   == [dialog EXCEPT !.boat = p]
      first   == ~dialog.initialBoatPositionSet
      follows == /\ dialog.followBoatMode
                 /\ dialog.searchBoxSize # 0
                 /\ Distance(dialog.search, p) >= FollowThreshold(dialog.searchBoxSize)
  IN IF first \/ follows
     THEN ChangesArea([moved EXCEPT !.initialBoatPositionSet = TRUE, !.search = p])
     ELSE dialog' = moved /\ UNCHANGED <<streamVars, queue, gui, window>>

refreshTokenState(s) ==
  /\ client' = TokenSet(s)
  /\ ChangesArea(Resized(dialog, dialog.slider, s))

-----------------------------------------------------------------------------
(***************************************************************************)
(* Handlers of the dialog's widgets.                                       *)
(***************************************************************************)
OnButtonClick_startStream ==
  /\ UserMay
  /\ ~wanted
  /\ StartClient(TokenSet(settings))
  /\ UNCHANGED <<settingsVars, gui, window, modal, dialog>>

OnButtonClick_stopStream ==
  /\ UserMay
  /\ wanted
  /\ Stream!StopCalled
  /\ gui' = "stopping"
  /\ UNCHANGED <<settingsVars, client, queue, window, modal, dialog>>

OnCheckBox_FollowBoatMode ==
  /\ UserMay
  /\ IF dialog.followBoatMode
     THEN /\ dialog' = [dialog EXCEPT !.followBoatMode = FALSE]
          /\ UNCHANGED <<streamVars, queue, gui, window>>
     ELSE activateFollowBoatMode
  /\ UNCHANGED <<settingsVars, client, modal>>

(* The slider is moved with the mouse, to be released later, or with the    *)
(* keyboard or the wheel, after which nothing is released.  Its label       *)
(* always shows its value.                                                  *)
OnScroll_UpdateSearchBoxSize ==
  /\ Ready /\ window = "shown" /\ modal = "none"
  /\ \E v \in SliderValues, byMouse \in BOOLEAN :
       /\ v =< dialog.sliderMax
       /\ dialog.dragging => byMouse
       /\ dialog' = [dialog EXCEPT !.slider = v, !.dragging = byMouse]
  /\ UNCHANGED <<settingsVars, streamVars, client, queue, gui, window, modal>>

ThumbReleasedSilently == \* faulty: the stream keeps the old size
  /\ Ready /\ dialog.dragging
  /\ dialog' = Resized(dialog, dialog.slider, settings)
  /\ UNCHANGED <<settingsVars, streamVars, client, queue, gui, window, modal>>

OnScrollThumbRelease_UpdateSearchBoxSize ==
  /\ Ready /\ dialog.dragging
  /\ ChangesArea(Resized(dialog, dialog.slider, settings))
  /\ UNCHANGED <<settingsVars, client, modal>>

(* A change of the list of followed vessels, in the settings and in the     *)
(* widget; every such change but a new name restarts the stream.            *)
ChangesVessels(mmsiList, mmsiListNames, rows) ==
  /\ settings' = [settings EXCEPT !.mmsiList = mmsiList,
                                  !.mmsiListNames = mmsiListNames]
  /\ ChangesArea([dialog EXCEPT !.rows = rows])
  /\ UNCHANGED <<config, client, modal>>

(* A vessel that is in the list already is not added again. *)
OnButtonClick_AddMmsiToList ==
  /\ UserMay
  /\ Len(settings.mmsiList) < MaxVessels
  /\ \E mmsi \in Mmsis, name \in Names :
       /\ ValidMmsi(mmsi)    \* the range of the spin control
       /\ ~Contains(settings.mmsiList, mmsi)
       /\ ChangesVessels(Append(settings.mmsiList, mmsi),
                         Append(settings.mmsiListNames, name),
                         Append(dialog.rows, <<mmsi, name>>))

OnButtonClick_DeleteMmsiFromList ==
  /\ UserMay
  /\ \E row \in DOMAIN dialog.rows :
       ChangesVessels(RemoveAt(settings.mmsiList, row),
                      RemoveAt(settings.mmsiListNames, row),
                      RemoveAt(dialog.rows, row))

OnButtonClick_ClearMmsiList ==
  /\ UserMay
  /\ ChangesVessels(<<>>, <<>>, <<>>)

(* Column 0: the widget already shows what the user has typed.  A number    *)
(* out of range and a duplicate are replaced by the old value.              *)
EditMmsiUnrestored ==    \* faulty: leaves a refused value in the widget
  /\ UserMay
  /\ \E row \in DOMAIN dialog.rows, mmsi \in Mmsis :
       IF ValidMmsi(mmsi) /\ \A i \in DOMAIN settings.mmsiList \ {row} :
                               settings.mmsiList[i] # mmsi
       THEN ChangesVessels(ReplaceAt(settings.mmsiList, row, mmsi),
                           settings.mmsiListNames,
                           [dialog.rows EXCEPT ![row][1] = mmsi])
       ELSE /\ dialog' = [dialog EXCEPT !.rows[row][1] = mmsi]
            /\ UNCHANGED <<settingsVars, streamVars, client, queue, gui, window, modal>>

EditMmsi ==
  /\ UserMay
  /\ \E row \in DOMAIN dialog.rows, mmsi \in Mmsis :
       IF ValidMmsi(mmsi) /\ \A i \in DOMAIN settings.mmsiList \ {row} :
                               settings.mmsiList[i] # mmsi
       THEN ChangesVessels(ReplaceAt(settings.mmsiList, row, mmsi),
                           settings.mmsiListNames,
                           [dialog.rows EXCEPT ![row][1] = mmsi])
       ELSE /\ dialog' = [dialog EXCEPT !.rows[row][1] = settings.mmsiList[row]]
            /\ UNCHANGED <<settingsVars, streamVars, client, queue, gui, window, modal>>

(* Column 1. *)
EditName ==
  /\ UserMay
  /\ \E row \in DOMAIN dialog.rows, name \in Names :
       /\ settings' = [settings EXCEPT !.mmsiListNames[row] = name]
       /\ dialog' = [dialog EXCEPT !.rows[row][2] = name]
  /\ UNCHANGED <<config, streamVars, client, queue, gui, window, modal>>

activateVesselFollowingOnCheckBox ==
  /\ UserMay
  /\ settings' = [settings EXCEPT !.activateVesselsFollowing = ~@]
  /\ ChangesArea(dialog)
  /\ UNCHANGED <<config, client, modal>>

UserStep == \/ OnButtonClick_startStream \/ OnButtonClick_stopStream
            \/ OnCheckBox_FollowBoatMode
            \/ OnScroll_UpdateSearchBoxSize \/ OnScrollThumbRelease_UpdateSearchBoxSize
            \/ OnButtonClick_AddMmsiToList \/ OnButtonClick_DeleteMmsiFromList
            \/ OnButtonClick_ClearMmsiList \/ EditMmsi \/ EditName
            \/ activateVesselFollowingOnCheckBox

-----------------------------------------------------------------------------
(***************************************************************************)
(* The GUI thread comes back from Stop().                                  *)
(***************************************************************************)
StopReturnedForgetful ==  \* faulty: Restart() does not go on to Start()
  /\ gui \in {"stopping", "restarting"}
  /\ Stream!StopReturns
  /\ gui' = "idle"
  /\ UNCHANGED <<settingsVars, client, queue, window, modal, dialog>>

StopReturned ==
  /\ gui \in {"stopping", "restarting"}
  /\ Stream!StopReturns
  /\ gui' = IF gui = "stopping" THEN "idle" ELSE "starting"
  /\ UNCHANGED <<settingsVars, client, queue, window, modal, dialog>>

RestartStarts ==
  /\ gui = "starting"
  /\ StartClient(client)
  /\ gui' = "idle"
  /\ UNCHANGED <<settingsVars, window, modal, dialog>>

ProcessEventOfWanted ==  \* faulty: drops the reports of a stream that is stopped
  /\ gui = "idle"
  /\ queue # <<>>
  /\ queue' = Tail(queue)
  /\ dialog' = IF Head(queue).kind = "state" /\ wanted
               THEN [dialog EXCEPT !.streamState = Head(queue).state]
               ELSE dialog
  /\ UNCHANGED <<settingsVars, streamVars, client, gui, window, modal>>

(* The next queued event: OnAisStreamStateChanged() shows a state; a        *)
(* sentence goes to OpenCPN (sendNmeaSentence), which leaves no trace here. *)
ProcessEvent ==
  /\ gui = "idle"
  /\ queue # <<>>
  /\ queue' = Tail(queue)
  /\ dialog' = IF Head(queue).kind = "state"
               THEN [dialog EXCEPT !.streamState = Head(queue).state]
               ELSE dialog
  /\ UNCHANGED <<settingsVars, streamVars, client, gui, window, modal>>

-----------------------------------------------------------------------------
(***************************************************************************)
(* The stream's thread.  Its callbacks only queue events.                  *)
(***************************************************************************)
SupervisorReports ==
  /\ Len(queue) < MaxQueue \/ decided
  /\ Stream!Report
  /\ report' # "ServerError"
  /\ queue' = Append(queue, StateEvent(report'))
  /\ UNCHANGED <<settingsVars, client, gui, window, modal, dialog>>

(* A message: a rejection is reported, an event's sentences are handed on. *)
MessageArrives ==
  /\ Len(queue) < MaxQueue
  /\ Stream!MayDeliver
  /\ \E payload \in Payloads :
       IF IsServerError(payload)
       THEN /\ Stream!Report /\ report' = "ServerError"
            /\ queue' = Append(queue, StateEvent("ServerError"))
       ELSE LET sentences == ProcessAisEvent(payload)
            IN /\ queue' = queue \o [i \in DOMAIN sentences |->
                                       SentenceEvent(sentences[i])]
               /\ UNCHANGED streamVars
  /\ UNCHANGED <<settingsVars, client, gui, window, modal, dialog>>

ExitsOvertaking ==       \* faulty: the last report overtakes the queue
  /\ Stream!Exit
  /\ queue' = <<StateEvent("Stopped")>> \o queue
  /\ UNCHANGED <<settingsVars, client, gui, window, modal, dialog>>

SupervisorExits ==
  /\ Stream!Exit
  /\ queue' = Append(queue, StateEvent("Stopped"))
  /\ UNCHANGED <<settingsVars, client, gui, window, modal, dialog>>

GuiThread        == StopReturned \/ RestartStarts \/ ProcessEvent
SupervisorThread == SupervisorReports \/ MessageArrives \/ SupervisorExits
=============================================================================
