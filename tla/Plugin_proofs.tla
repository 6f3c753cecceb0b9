--------------------------- MODULE Plugin_proofs ---------------------------
(***************************************************************************)
(* Theorems about Plugin for every set of positions, slider values,         *)
(* vessels, names, payloads and tokens, and every bound.                    *)
(***************************************************************************)
EXTENDS Plugin, TLAPS

(* The handlers that only ever touch the stream by restarting it. *)
Handler ==
  \/ /\ \/ OnCheckBox_FollowBoatMode
        \/ OnScroll_UpdateSearchBoxSize \/ OnScrollThumbRelease_UpdateSearchBoxSize
        \/ OnButtonClick_AddMmsiToList \/ OnButtonClick_DeleteMmsiFromList
        \/ OnButtonClick_ClearMmsiList \/ EditMmsi \/ EditName
        \/ activateVesselFollowingOnCheckBox
     /\ UNCHANGED <<toolbar, m_boat>>
  \/ OpensModal \/ OnApply \/ OnOK \/ OnCancel \/ UpdateToCursor \/ UpdateToBoat
  \/ SetPositionFix

(* What they do to the stream, the queue and the window. *)
RestartsAtMost ==
  /\ gui = "idle"
  /\ \/ UNCHANGED <<streamVars, gui>>
     \/ wanted /\ Stream!StopCalled /\ gui' = "restarting"
  /\ UNCHANGED <<queue, window, toolbar>>

(* Each of them ends in RestartAisStream(), or leaves the stream alone.      *)
LEMMA HandlerRestarts ==
  ASSUME Handler
  PROVE  RestartsAtMost
<1> USE DEF RestartsAtMost, ChangesArea, RestartAisStream, Ready, UserMay, streamVars
<1>1. CASE OnCheckBox_FollowBoatMode /\ UNCHANGED <<toolbar, m_boat>>
  BY <1>1 DEF OnCheckBox_FollowBoatMode, activateFollowBoatMode
<1>2. CASE OnScroll_UpdateSearchBoxSize /\ UNCHANGED <<toolbar, m_boat>>
  BY <1>2 DEF OnScroll_UpdateSearchBoxSize
<1>3. CASE OnScrollThumbRelease_UpdateSearchBoxSize /\ UNCHANGED <<toolbar, m_boat>>
  BY <1>3 DEF OnScrollThumbRelease_UpdateSearchBoxSize
<1>4. CASE OnButtonClick_AddMmsiToList /\ UNCHANGED <<toolbar, m_boat>>
  BY <1>4 DEF OnButtonClick_AddMmsiToList, ChangesVessels
<1>5. CASE OnButtonClick_DeleteMmsiFromList /\ UNCHANGED <<toolbar, m_boat>>
  BY <1>5 DEF OnButtonClick_DeleteMmsiFromList, ChangesVessels
<1>6. CASE OnButtonClick_ClearMmsiList /\ UNCHANGED <<toolbar, m_boat>>
  BY <1>6 DEF OnButtonClick_ClearMmsiList, ChangesVessels
<1>7. CASE EditMmsi /\ UNCHANGED <<toolbar, m_boat>>
  BY <1>7 DEF EditMmsi, ChangesVessels
<1>8. CASE EditName /\ UNCHANGED <<toolbar, m_boat>>
  BY <1>8 DEF EditName
<1>9. CASE activateVesselFollowingOnCheckBox /\ UNCHANGED <<toolbar, m_boat>>
  BY <1>9 DEF activateVesselFollowingOnCheckBox
<1>10. CASE OpensModal      BY <1>10 DEF OpensModal
<1>11. CASE OnApply         BY <1>11 DEF OnApply
<1>12. CASE OnOK            BY <1>12 DEF OnOK, refreshTokenState
<1>13. CASE OnCancel        BY <1>13 DEF OnCancel
<1>14. CASE UpdateToCursor  BY <1>14 DEF UpdateToCursor, updateSearchZoneOnCoord
<1>15. CASE UpdateToBoat    BY <1>15 DEF UpdateToBoat, activateFollowBoatMode
<1>16. CASE SetPositionFix  BY <1>16 DEF SetPositionFix, updateBoatPosition
<1> QED BY <1>1, <1>2, <1>3, <1>4, <1>5, <1>6, <1>7, <1>8, <1>9, <1>10, <1>11,
           <1>12, <1>13, <1>14, <1>15, <1>16 DEF Handler

-----------------------------------------------------------------------------
(***************************************************************************)
(* The inductive invariant about the window, the stream and the toolbar.    *)
(***************************************************************************)

(* Where the GUI thread is decides whether there is a dialog, and whether   *)
(* its stream is wanted.                                                   *)
WindowInv ==
  /\ StreamNeedsDialog
  /\ gui = "unloaded" => window = "none"
  /\ gui \notin {"unloaded", "idle"} => window # "none"
  /\ gui \in {"unloaded", "idle", "starting"} => ~stopping
  /\ gui \in {"stopping", "restarting", "starting", "hiding", "closing",
               "deinitClosing", "deleting"} => ~wanted

(* In the middle of a handler the button is already what it will be. *)
ToolbarInv ==
  /\ ToolbarShowsStream
  /\ DOMAIN toolbar = {"isToolbarActive", "highlighted", "menu"}
  /\ gui = "stopping" => window = "shown" /\ toolbar.highlighted
  /\ gui \in {"restarting", "starting"} => toolbar.highlighted
  /\ gui \in {"hiding", "closing", "unloaded"} => ~toolbar.highlighted

(* A restart finds token mode and token as they were set together. *)
TokenInv ==
  /\ TokenIsNeverMissing
  /\ DOMAIN client = {"useToken", "token", "subscription"}
  /\ report \in {"none", "Stopped", "Connecting", "Running", "ConnectFailed",
                 "ServerError", "ConnectionLost"}

(* The fields of the two records that the handlers change one by one. *)
FieldsInv ==
  /\ DOMAIN dialog = {"search", "boat", "initialBoatPositionSet", "followBoatMode",
                      "searchBoxSize", "slider", "sliderMax", "dragging", "rows",
                      "streamState"}
  /\ \A s \in {settings, config} :
       DOMAIN s = {"keepWindowActive", "lastSearchBoxSize", "openWatersToken",
                   "activateVesselsFollowing", "mmsiList", "mmsiListNames"}

PluginInv == WindowInv /\ ToolbarInv /\ TokenInv /\ FieldsInv /\ SubscriptionMatchesDialog

(* The stream and its dialog, from handler to handler: a stream is started   *)
(* from the window only, and the dialog goes only after a Stop().           *)
LEMMA WindowStep ==
  ASSUME WindowInv, Next
  PROVE  WindowInv'
<1> USE DEF WindowInv, StreamNeedsDialog, streamVars, settingsVars
<1>1. CASE Handler
  <2>1. RestartsAtMost
    BY <1>1, HandlerRestarts
  <2>2. CASE UNCHANGED <<wanted, stopping, alive, gui>>
    BY <2>1, <2>2 DEF RestartsAtMost
  <2>3. CASE wanted /\ Stream!StopCalled /\ gui' = "restarting"
    BY <2>1, <2>3 DEF RestartsAtMost, Stream!StopCalled
  <2> QED BY <2>1, <2>2, <2>3 DEF RestartsAtMost
<1>2. CASE OnButtonClick_startStream
  BY <1>2 DEF OnButtonClick_startStream, StartClient, Stream!Start, Stream!StartRefused,
              UserMay, Ready
<1>3. CASE OnButtonClick_stopStream
  BY <1>3 DEF OnButtonClick_stopStream, Stream!StopCalled, UserMay
<1>4. CASE StopReturned
  BY <1>4 DEF StopReturned, Stream!StopReturns
<1>5. CASE RestartStarts
  BY <1>5 DEF RestartStarts, StartClient, Stream!Start, Stream!StartRefused
<1>6. CASE ProcessEvent
  BY <1>6 DEF ProcessEvent
<1>7. CASE SupervisorReports
  BY <1>7 DEF SupervisorReports, Stream!Report
<1>8. CASE MessageArrives
  <2>1. alive /\ UNCHANGED <<wanted, stopping, alive>>
    BY <1>8 DEF MessageArrives, Stream!MayDeliver, Stream!Report
  <2> QED BY <1>8, <2>1 DEF MessageArrives
<1>9. CASE SupervisorExits
  BY <1>9 DEF SupervisorExits, Stream!Exit
<1>10. CASE ToolbarShows
  BY <1>10 DEF ToolbarShows, Ready
<1>11. CASE ToolbarHides
  BY <1>11 DEF ToolbarHides, MustStop, Stream!StopCalled, Ready
<1>12. CASE OnClose
  BY <1>12 DEF OnClose, OnGuiClosed, MustStop, Stream!StopCalled, UserMay, Ready
<1>13. CASE StoppedOnLeaving
  BY <1>13 DEF StoppedOnLeaving, Stream!StopReturns
<1>14. CASE PluginInit
  BY <1>14 DEF PluginInit
<1>15. CASE DeInit
  BY <1>15 DEF DeInit, OnGuiClosed, MustStop, Stream!StopCalled, Ready
<1>16. CASE DestructorStops
  BY <1>16 DEF DestructorStops, Stream!StopCalled
<1>17. CASE DialogDeleted
  BY <1>17 DEF DialogDeleted, Deletes
<1> QED BY <1>1, <1>2, <1>3, <1>4, <1>5, <1>6, <1>7, <1>8, <1>9, <1>10, <1>11,
           <1>12, <1>13, <1>14, <1>15, <1>16, <1>17
        DEF Next, Dialog, UserStep, GuiThread, SupervisorThread, Window, Lifecycle,
            Modals, Handler

(* Nobody starts the stream without a token in token mode, so nobody ever   *)
(* reports that it is missing.                                              *)
LEMMA TokenSetTogether ==
  ASSUME NEW s, DOMAIN client = {"useToken", "token", "subscription"}
  PROVE  /\ TokenSet(s).useToken => TokenSet(s).token # ""
         /\ DOMAIN TokenSet(s) = {"useToken", "token", "subscription"}
BY DEF TokenSet, HasToken, Trimmed

(* What a handler leaves of the client: everything, or what refreshTokenState *)
(* and a new dialog make of it.                                             *)
LEMMA HandlerKeepsClient ==
  ASSUME Handler
  PROVE  client' = client \/ \E s : client' = TokenSet(s)
<1> USE DEF ChangesArea
<1>1. CASE OnCheckBox_FollowBoatMode
  BY <1>1 DEF OnCheckBox_FollowBoatMode
<1>2. CASE OnScroll_UpdateSearchBoxSize
  BY <1>2 DEF OnScroll_UpdateSearchBoxSize
<1>3. CASE OnScrollThumbRelease_UpdateSearchBoxSize
  BY <1>3 DEF OnScrollThumbRelease_UpdateSearchBoxSize
<1>4. CASE OnButtonClick_AddMmsiToList
  BY <1>4 DEF OnButtonClick_AddMmsiToList, ChangesVessels
<1>5. CASE OnButtonClick_DeleteMmsiFromList
  BY <1>5 DEF OnButtonClick_DeleteMmsiFromList, ChangesVessels
<1>6. CASE OnButtonClick_ClearMmsiList
  BY <1>6 DEF OnButtonClick_ClearMmsiList, ChangesVessels
<1>7. CASE EditMmsi
  BY <1>7 DEF EditMmsi, ChangesVessels
<1>8. CASE EditName
  BY <1>8 DEF EditName
<1>9. CASE activateVesselFollowingOnCheckBox
  BY <1>9 DEF activateVesselFollowingOnCheckBox
<1>10. CASE OpensModal      BY <1>10 DEF OpensModal
<1>11. CASE OnApply         BY <1>11 DEF OnApply
<1>12. CASE OnOK            BY <1>12 DEF OnOK, refreshTokenState
<1>13. CASE OnCancel        BY <1>13 DEF OnCancel
<1>14. CASE UpdateToCursor  BY <1>14 DEF UpdateToCursor
<1>15. CASE UpdateToBoat    BY <1>15 DEF UpdateToBoat
<1>16. CASE SetPositionFix  BY <1>16 DEF SetPositionFix
<1> QED BY <1>1, <1>2, <1>3, <1>4, <1>5, <1>6, <1>7, <1>8, <1>9, <1>10, <1>11,
           <1>12, <1>13, <1>14, <1>15, <1>16 DEF Handler

(* Start() is not refused, and leaves client a client. *)
LEMMA StartStarts ==
  ASSUME NEW c, DOMAIN c = {"useToken", "token", "subscription"},
         c.useToken => c.token # "",
         StartClient(c)
  PROVE  /\ Stream!Start
         /\ UNCHANGED queue
         /\ DOMAIN client' = {"useToken", "token", "subscription"}
         /\ client'.useToken = c.useToken
         /\ client'.token = c.token
         /\ client'.subscription =
              BuildSubscribeMessage(dialog.search, dialog.searchBoxSize,
                                    settings.activateVesselsFollowing,
                                    settings.mmsiList, c.useToken)
BY DEF StartClient

(* A new dialog's client is not in token mode.                              *)
LEMMA FreshClient ==
  /\ DOMAIN NewClient = {"useToken", "token", "subscription"}
  /\ NewClient.useToken = FALSE
BY DEF NewClient

(* Token and mode change together, so no report says that one is missing.   *)
LEMMA TokenStep ==
  ASSUME TokenInv, Next
  PROVE  TokenInv'
<1> USE DEF TokenInv, TokenIsNeverMissing, streamVars, settingsVars
<1>1. CASE Handler
  <2>1. UNCHANGED report
    BY <1>1, HandlerRestarts DEF RestartsAtMost, Stream!StopCalled
  <2>2. client' = client \/ \E s : client' = TokenSet(s)
    BY <1>1, HandlerKeepsClient
  <2> QED BY <2>1, <2>2, TokenSetTogether
<1>2. CASE OnButtonClick_startStream
  <2>1. StartClient(TokenSet(settings))
    BY <1>2 DEF OnButtonClick_startStream
  <2>2. /\ DOMAIN TokenSet(settings) = {"useToken", "token", "subscription"}
        /\ TokenSet(settings).useToken => TokenSet(settings).token # ""
    BY TokenSetTogether
  <2> QED BY <2>1, <2>2, StartStarts DEF Stream!Start
<1>3. CASE OnButtonClick_stopStream
  BY <1>3 DEF OnButtonClick_stopStream, Stream!StopCalled
<1>4. CASE StopReturned
  BY <1>4 DEF StopReturned, Stream!StopReturns
<1>5. CASE RestartStarts
  <2>1. StartClient(client)
    BY <1>5 DEF RestartStarts
  <2> QED BY <2>1, StartStarts DEF Stream!Start
<1>6. CASE ProcessEvent
  BY <1>6 DEF ProcessEvent
<1>7. CASE SupervisorReports
  <2>1. report' \in {"Connecting", "Running", "ConnectFailed", "ServerError", "ConnectionLost"}
    BY <1>7 DEF SupervisorReports, Stream!Report, Stream!Follows
  <2> QED BY <1>7, <2>1 DEF SupervisorReports
<1>8. CASE MessageArrives
  BY <1>8 DEF MessageArrives
<1>9. CASE SupervisorExits
  BY <1>9 DEF SupervisorExits, Stream!Exit
<1>10. CASE ToolbarShows
  <2>1. (client' = client \/ client' = NewClient) /\ UNCHANGED report
    BY <1>10 DEF ToolbarShows
  <2> QED BY <2>1, FreshClient
<1>11. CASE ToolbarHides
  BY <1>11 DEF ToolbarHides, Stream!StopCalled
<1>12. CASE OnClose
  BY <1>12 DEF OnClose, OnGuiClosed, Stream!StopCalled
<1>13. CASE StoppedOnLeaving
  BY <1>13 DEF StoppedOnLeaving, Stream!StopReturns
<1>14. CASE PluginInit
  BY <1>14 DEF PluginInit
<1>15. CASE DeInit
  BY <1>15 DEF DeInit, OnGuiClosed, Stream!StopCalled
<1>16. CASE DestructorStops
  BY <1>16 DEF DestructorStops, Stream!StopCalled
<1>17. CASE DialogDeleted
  <2>1. client' = NewClient /\ report' = "none"
    BY <1>17 DEF DialogDeleted, Deletes
  <2> QED BY <2>1, FreshClient
<1> QED BY <1>1, <1>2, <1>3, <1>4, <1>5, <1>6, <1>7, <1>8, <1>9, <1>10, <1>11,
           <1>12, <1>13, <1>14, <1>15, <1>16, <1>17
        DEF Next, Dialog, UserStep, GuiThread, SupervisorThread, Window, Lifecycle,
            Modals, Handler

(* What the button shows when the window goes.                              *)
LEMMA ToolbarLeaving ==
  /\ ToolbarLeft.highlighted = (wanted /\ settings.keepWindowActive)
  /\ DOMAIN ToolbarLeft = {"isToolbarActive", "highlighted", "menu"}
BY DEF ToolbarLeft

(* The button, from handler to handler.  Only a start makes a stream wanted, *)
(* and it is never refused.                                                *)
LEMMA ToolbarStep ==
  ASSUME ToolbarInv, WindowInv, TokenInv, Next
  PROVE  ToolbarInv'
<1> USE DEF ToolbarInv, ToolbarShowsStream, streamVars, settingsVars
<1>1. CASE Handler
  <2>1. RestartsAtMost
    BY <1>1, HandlerRestarts
  <2>2. CASE UNCHANGED <<wanted, stopping, alive, gui>>
    BY <2>1, <2>2 DEF RestartsAtMost
  <2>3. CASE wanted /\ Stream!StopCalled /\ gui' = "restarting"
    BY <2>1, <2>3 DEF RestartsAtMost, Stream!StopCalled
  <2> QED BY <2>1, <2>2, <2>3 DEF RestartsAtMost
<1>2. CASE OnButtonClick_startStream /\ UNCHANGED toolbar
  BY <1>2 DEF OnButtonClick_startStream, UserMay, Ready
<1>3. CASE OnButtonClick_stopStream /\ UNCHANGED toolbar
  BY <1>3 DEF OnButtonClick_stopStream, Stream!StopCalled, UserMay, Ready
<1>4. CASE StopReturned /\ UNCHANGED toolbar
  BY <1>4 DEF StopReturned, Stream!StopReturns
<1>5. CASE RestartStarts /\ UNCHANGED toolbar
  <2>1. StartClient(client)
    BY <1>5 DEF RestartStarts
  <2>2. wanted'
    BY <2>1, StartStarts DEF Stream!Start, TokenInv, TokenIsNeverMissing
  <2> QED BY <1>5, <2>2 DEF RestartStarts
<1>6. CASE ProcessEvent /\ UNCHANGED toolbar
  BY <1>6 DEF ProcessEvent
<1>7. CASE SupervisorReports /\ UNCHANGED toolbar
  BY <1>7 DEF SupervisorReports, Stream!Report
<1>8. CASE MessageArrives /\ UNCHANGED toolbar
  BY <1>8 DEF MessageArrives, Stream!Report
<1>9. CASE SupervisorExits /\ UNCHANGED toolbar
  BY <1>9 DEF SupervisorExits, Stream!Exit
<1>10. CASE ToolbarShows
  BY <1>10 DEF ToolbarShows, Ready
<1>11. CASE ToolbarHides
  BY <1>11, ToolbarLeaving DEF ToolbarHides, MustStop, Stream!StopCalled, Ready
<1>12. CASE OnClose
  BY <1>12, ToolbarLeaving
     DEF OnClose, OnGuiClosed, MustStop, Stream!StopCalled, UserMay, Ready
<1>13. CASE StoppedOnLeaving
  BY <1>13 DEF StoppedOnLeaving, Stream!StopReturns, WindowInv
<1>14. CASE PluginInit
  BY <1>14 DEF PluginInit, WindowInv, StreamNeedsDialog
<1>15. CASE DeInit
  BY <1>15, ToolbarLeaving
     DEF DeInit, OnGuiClosed, MustStop, Stream!StopCalled, Ready, WindowInv,
         StreamNeedsDialog
<1>16. CASE DestructorStops
  BY <1>16 DEF DestructorStops, Stream!StopCalled
<1>17. CASE DialogDeleted
  BY <1>17 DEF DialogDeleted, Deletes
<1> QED BY <1>1, <1>2, <1>3, <1>4, <1>5, <1>6, <1>7, <1>8, <1>9, <1>10, <1>11,
           <1>12, <1>13, <1>14, <1>15, <1>16, <1>17
        DEF Next, Dialog, UserStep, GuiThread, SupervisorThread, Window, Lifecycle,
            Modals, Handler

-----------------------------------------------------------------------------
(***************************************************************************)
(* The subscription.                                                       *)
(***************************************************************************)

(* The constructor makes a dialog with all its members.                     *)
LEMMA NewDialogFields ==
  ASSUME NEW s
  PROVE  DOMAIN NewDialog(s) =
           {"search", "boat", "initialBoatPositionSet", "followBoatMode",
            "searchBoxSize", "slider", "sliderMax", "dragging", "rows", "streamState"}
BY DEF NewDialog, Resized

(* No step takes a field from a record or adds one. *)
LEMMA FieldsStep ==
  ASSUME FieldsInv, Next
  PROVE  FieldsInv'
<1> USE DEF FieldsInv, settingsVars
<1>1. CASE OnCheckBox_FollowBoatMode
  BY <1>1 DEF OnCheckBox_FollowBoatMode, activateFollowBoatMode, ChangesArea
<1>2. CASE OnScroll_UpdateSearchBoxSize
  BY <1>2 DEF OnScroll_UpdateSearchBoxSize
<1>3. CASE OnScrollThumbRelease_UpdateSearchBoxSize
  BY <1>3 DEF OnScrollThumbRelease_UpdateSearchBoxSize, ChangesArea, Resized
<1>4. CASE OnButtonClick_AddMmsiToList
  BY <1>4 DEF OnButtonClick_AddMmsiToList, ChangesVessels, ChangesArea
<1>5. CASE OnButtonClick_DeleteMmsiFromList
  BY <1>5 DEF OnButtonClick_DeleteMmsiFromList, ChangesVessels, ChangesArea
<1>6. CASE OnButtonClick_ClearMmsiList
  BY <1>6 DEF OnButtonClick_ClearMmsiList, ChangesVessels, ChangesArea
<1>7. CASE EditMmsi
  BY <1>7 DEF EditMmsi, ChangesVessels, ChangesArea
<1>8. CASE EditName
  BY <1>8 DEF EditName
<1>9. CASE activateVesselFollowingOnCheckBox
  BY <1>9 DEF activateVesselFollowingOnCheckBox, ChangesArea
<1>10. CASE OpensModal      BY <1>10 DEF OpensModal
<1>11. CASE OnApply         BY <1>11 DEF OnApply, UpdatedSettings
<1>12. CASE OnOK
  BY <1>12 DEF OnOK, UpdatedSettings, WithBoxSize, SaveSettings, SavedConfig,
               refreshTokenState, ChangesArea, Resized
<1>13. CASE OnCancel        BY <1>13 DEF OnCancel
<1>14. CASE UpdateToCursor
  BY <1>14 DEF UpdateToCursor, updateSearchZoneOnCoord, ChangesArea
<1>15. CASE UpdateToBoat
  BY <1>15 DEF UpdateToBoat, activateFollowBoatMode, ChangesArea
<1>16. CASE SetPositionFix
  BY <1>16 DEF SetPositionFix, updateBoatPosition, ChangesArea
<1>17. CASE OnButtonClick_startStream \/ OnButtonClick_stopStream
  BY <1>17 DEF OnButtonClick_startStream, OnButtonClick_stopStream
<1>18. CASE StopReturned \/ RestartStarts \/ ProcessEvent
  BY <1>18 DEF StopReturned, RestartStarts, ProcessEvent
<1>19. CASE SupervisorThread
  BY <1>19 DEF SupervisorThread, SupervisorReports, MessageArrives, SupervisorExits
<1>20. CASE ToolbarShows
  BY <1>20, NewDialogFields DEF ToolbarShows
<1>21. CASE ToolbarHides \/ OnClose \/ StoppedOnLeaving
  BY <1>21 DEF ToolbarHides, OnClose, OnGuiClosed, StoppedOnLeaving
<1>22. CASE PluginInit
  BY <1>22 DEF PluginInit, LoadedSettings
<1>23. CASE DeInit
  BY <1>23 DEF DeInit, OnGuiClosed, SaveSettings, SavedConfig, WithBoxSize
<1>24. CASE DestructorStops
  BY <1>24 DEF DestructorStops
<1>25. CASE DialogDeleted
  BY <1>25, NewDialogFields DEF DialogDeleted, Deletes
<1> QED BY <1>1, <1>2, <1>3, <1>4, <1>5, <1>6, <1>7, <1>8, <1>9, <1>10, <1>11,
           <1>12, <1>13, <1>14, <1>15, <1>16, <1>17, <1>18, <1>19, <1>20, <1>21,
           <1>22, <1>23, <1>24, <1>25
        DEF Next, Dialog, UserStep, GuiThread, Window, Lifecycle, Modals

(* What the subscribe message is made from. *)
Subscribed == <<dialog.search, dialog.searchBoxSize, settings.activateVesselsFollowing,
                settings.mmsiList, client.useToken, client.subscription>>

(* A handler that leaves the stream as it is, while it is wanted, leaves    *)
(* all of that as it is.                                                   *)
LEMMA HandlerKeepsSubscription ==
  ASSUME FieldsInv, WindowInv, Handler, wanted, wanted'
  PROVE  UNCHANGED Subscribed
<1>1. \A d : ~ChangesArea(d)
  BY DEF ChangesArea, RestartAisStream, Stream!StopCalled
<1>2. window # "none"
  BY DEF WindowInv, StreamNeedsDialog
<1> USE <1>1 DEF Subscribed, FieldsInv, settingsVars
<1>3. CASE OnCheckBox_FollowBoatMode
  BY <1>3 DEF OnCheckBox_FollowBoatMode, activateFollowBoatMode
<1>4. CASE OnScroll_UpdateSearchBoxSize
  BY <1>4 DEF OnScroll_UpdateSearchBoxSize
<1>5. CASE OnScrollThumbRelease_UpdateSearchBoxSize
  BY <1>5 DEF OnScrollThumbRelease_UpdateSearchBoxSize
<1>6. CASE OnButtonClick_AddMmsiToList
  BY <1>6 DEF OnButtonClick_AddMmsiToList, ChangesVessels
<1>7. CASE OnButtonClick_DeleteMmsiFromList
  BY <1>7 DEF OnButtonClick_DeleteMmsiFromList, ChangesVessels
<1>8. CASE OnButtonClick_ClearMmsiList
  BY <1>8 DEF OnButtonClick_ClearMmsiList, ChangesVessels
<1>9. CASE EditMmsi
  BY <1>9 DEF EditMmsi, ChangesVessels
<1>10. CASE EditName
  BY <1>10 DEF EditName
<1>11. CASE activateVesselFollowingOnCheckBox
  BY <1>11 DEF activateVesselFollowingOnCheckBox
<1>12. CASE OpensModal      BY <1>12 DEF OpensModal
<1>13. CASE OnApply         BY <1>13 DEF OnApply, UpdatedSettings
<1>14. CASE OnOK            BY <1>2, <1>14 DEF OnOK, refreshTokenState
<1>15. CASE OnCancel        BY <1>15 DEF OnCancel
<1>16. CASE UpdateToCursor  BY <1>16 DEF UpdateToCursor, updateSearchZoneOnCoord
<1>17. CASE UpdateToBoat    BY <1>17 DEF UpdateToBoat, activateFollowBoatMode
<1>18. CASE SetPositionFix
  BY <1>2, <1>18 DEF SetPositionFix, updateBoatPosition
<1> QED BY <1>3, <1>4, <1>5, <1>6, <1>7, <1>8, <1>9, <1>10, <1>11, <1>12, <1>13,
           <1>14, <1>15, <1>16, <1>17, <1>18 DEF Handler

(* A step that leaves the stream wanted has either just started it or        *)
(* changed nothing of what it was subscribed with.                          *)
LEMMA SubscriptionStep ==
  ASSUME PluginInv, Next
  PROVE  SubscriptionMatchesDialog'
<1> USE DEF PluginInv, SubscriptionMatchesDialog, streamVars, settingsVars
<1>1. CASE Handler
  <2>1. wanted' => wanted
    BY <1>1, HandlerRestarts DEF RestartsAtMost, Stream!StopCalled
  <2>2. wanted' => UNCHANGED Subscribed
    BY <1>1, <2>1, HandlerKeepsSubscription
  <2> QED BY <2>1, <2>2 DEF Subscribed
<1>2. CASE OnButtonClick_startStream
  <2>1. StartClient(TokenSet(settings)) /\ UNCHANGED <<settings, dialog>>
    BY <1>2 DEF OnButtonClick_startStream
  <2>2. /\ DOMAIN TokenSet(settings) = {"useToken", "token", "subscription"}
        /\ TokenSet(settings).useToken => TokenSet(settings).token # ""
    BY TokenSetTogether DEF TokenInv
  <2> QED BY <2>1, <2>2, StartStarts
<1>3. CASE OnButtonClick_stopStream
  BY <1>3 DEF OnButtonClick_stopStream, Stream!StopCalled
<1>4. CASE StopReturned
  BY <1>4 DEF StopReturned, Stream!StopReturns
<1>5. CASE RestartStarts
  <2>1. StartClient(client) /\ UNCHANGED <<settings, dialog>>
    BY <1>5 DEF RestartStarts
  <2> QED BY <2>1, StartStarts DEF TokenInv, TokenIsNeverMissing
<1>6. CASE ProcessEvent
  BY <1>6 DEF ProcessEvent, FieldsInv
<1>7. CASE SupervisorReports
  BY <1>7 DEF SupervisorReports, Stream!Report
<1>8. CASE MessageArrives
  BY <1>8 DEF MessageArrives, Stream!Report
<1>9. CASE SupervisorExits
  BY <1>9 DEF SupervisorExits, Stream!Exit
<1>10. CASE ToolbarShows
  BY <1>10 DEF ToolbarShows, WindowInv, StreamNeedsDialog
<1>11. CASE ToolbarHides
  BY <1>11 DEF ToolbarHides, Stream!StopCalled
<1>12. CASE OnClose
  BY <1>12 DEF OnClose, OnGuiClosed, Stream!StopCalled
<1>13. CASE StoppedOnLeaving
  BY <1>13 DEF StoppedOnLeaving, Stream!StopReturns
<1>14. CASE PluginInit
  BY <1>14 DEF PluginInit, WindowInv, StreamNeedsDialog
<1>15. CASE DeInit
  BY <1>15 DEF DeInit, OnGuiClosed, Stream!StopCalled, WithBoxSize, FieldsInv
<1>16. CASE DestructorStops
  BY <1>16 DEF DestructorStops, Stream!StopCalled
<1>17. CASE DialogDeleted
  BY <1>17 DEF DialogDeleted, Deletes
<1> QED BY <1>1, <1>2, <1>3, <1>4, <1>5, <1>6, <1>7, <1>8, <1>9, <1>10, <1>11,
           <1>12, <1>13, <1>14, <1>15, <1>16, <1>17
        DEF Next, Dialog, UserStep, GuiThread, SupervisorThread, Window, Lifecycle,
            Modals, Handler

-----------------------------------------------------------------------------
(* Before Init() there is no dialog and no stream.                          *)
LEMMA PluginInitially == Init => PluginInv
<1> SUFFICES ASSUME Init PROVE PluginInv
  OBVIOUS
<1>1. WindowInv
  BY DEF Init, GuiInit, Stream!Init, WindowInv, StreamNeedsDialog
<1>2. ToolbarInv
  BY DEF Init, GuiInit, ToolbarInv, ToolbarShowsStream
<1>3. TokenInv
  BY FreshClient DEF Init, GuiInit, Stream!Init, TokenInv, TokenIsNeverMissing
<1>4. FieldsInv
  BY NewDialogFields
     DEF Init, GuiInit, SettingsInit, FieldsInv, DefaultSettings, SavedConfig
<1>5. SubscriptionMatchesDialog
  BY DEF Init, GuiInit, Stream!Init, SubscriptionMatchesDialog
<1> QED BY <1>1, <1>2, <1>3, <1>4, <1>5 DEF PluginInv

(* The invariant of the plugin: dialog, stream, toolbar, token and           *)
(* subscription agree, whatever the constants.                              *)
THEOREM PluginInvariance == Spec => []PluginInv
<1>1. PluginInv /\ [Next]_vars => PluginInv'
  <2> SUFFICES ASSUME PluginInv, [Next]_vars PROVE PluginInv'
    OBVIOUS
  <2>1. CASE Next
    BY <2>1, WindowStep, ToolbarStep, TokenStep, FieldsStep, SubscriptionStep DEF PluginInv
  <2>2. CASE UNCHANGED vars
    BY <2>2 DEF PluginInv, vars, guiVars, streamVars, settingsVars, WindowInv,
                StreamNeedsDialog, ToolbarInv, ToolbarShowsStream, TokenInv,
                TokenIsNeverMissing, FieldsInv, SubscriptionMatchesDialog
  <2> QED BY <2>1, <2>2
<1> QED BY <1>1, PluginInitially, PTL DEF Spec

(* A stream that is wanted asks for what dialog and settings show: every    *)
(* handler that changes one of them restarts it, and every start is         *)
(* accepted (RestartAisStream()).                                           *)
THEOREM SubscriptionMatches == Spec => []SubscriptionMatchesDialog
BY PluginInvariance, PTL DEF PluginInv

(* Without the dialog no supervisor, no wanted stream and no queued event   *)
(* is left (~DialogMainGui()).                                              *)
THEOREM StreamEndsWithDialog == Spec => []StreamNeedsDialog
BY PluginInvariance, PTL DEF PluginInv, WindowInv

(* The button is highlighted exactly while the window is shown or data is   *)
(* streaming (OnToolbarToolCallback(), OnGuiClosed()).                      *)
THEOREM ToolbarTellsStream == Spec => []ToolbarShowsStream
BY PluginInvariance, PTL DEF PluginInv, ToolbarInv

(* No start is refused for a missing token (SetToken(), SetTokenEnabled()). *)
THEOREM TokenIsThere == Spec => []TokenIsNeverMissing
BY PluginInvariance, PTL DEF PluginInv, TokenInv

-----------------------------------------------------------------------------
(***************************************************************************)
(* The boat and the area.                                                  *)
(***************************************************************************)

(* Positions and sizes are numbers; the dialog's boat is the plugin's as    *)
(* soon as a fix has reached the dialog, and a new dialog has seen none.    *)
AreaInv ==
  /\ dialog.search \in Int
  /\ dialog.boat \in Int
  /\ dialog.searchBoxSize \in Nat
  /\ dialog.slider \in Nat
  /\ dialog.sliderMax \in Nat
  /\ BoxWithinRange
  /\ settings.lastSearchBoxSize \in Nat
  /\ config.lastSearchBoxSize \in Nat
  /\ dialog.initialBoatPositionSet => dialog.boat \in m_boat
  /\ window = "none" => ~dialog.initialBoatPositionSet /\ dialog.boat = 0

(* updateSearchBoxSize() keeps size and slider in the range it sets, and     *)
(* touches neither area nor boat.                                           *)
LEMMA ResizedSize ==
  ASSUME NEW d, NEW degrees \in Nat, NEW s,
         DOMAIN d = {"search", "boat", "initialBoatPositionSet", "followBoatMode",
                     "searchBoxSize", "slider", "sliderMax", "dragging", "rows",
                     "streamState"}
  PROVE  LET r == Resized(d, degrees, s)
         IN /\ r.search = d.search
            /\ r.boat = d.boat
            /\ r.searchBoxSize \in Nat
            /\ r.slider \in Nat
            /\ r.sliderMax \in Nat
            /\ r.searchBoxSize =< r.sliderMax /\ r.slider =< r.sliderMax
            /\ r.initialBoatPositionSet = d.initialBoatPositionSet
BY DEF Resized

(* A new dialog has seen no fix, and its size, whatever was saved, fits.     *)
LEMMA NewDialogArea ==
  ASSUME NEW s, s.lastSearchBoxSize \in Nat
  PROVE  /\ NewDialog(s).search = 0
         /\ NewDialog(s).boat = 0
         /\ NewDialog(s).searchBoxSize \in Nat
         /\ NewDialog(s).slider \in Nat
         /\ NewDialog(s).sliderMax \in Nat
         /\ NewDialog(s).searchBoxSize =< NewDialog(s).sliderMax
         /\ NewDialog(s).slider =< NewDialog(s).sliderMax
         /\ ~NewDialog(s).initialBoatPositionSet
BY DEF NewDialog, Resized

(* Only SetPositionFix changes the boat, the dialog's with the plugin's; a   *)
(* new dialog, or a new plugin without dialog, forgets it.                  *)
LEMMA AreaStep ==
  ASSUME FieldsInv, WindowInv, AreaInv, Next
  PROVE  AreaInv'
<1> USE MainGuiAssumption
        DEF MainGuiAssumption, FieldsInv, AreaInv, BoxWithinRange, settingsVars
<1>1. CASE OnCheckBox_FollowBoatMode /\ UNCHANGED m_boat
  BY <1>1 DEF OnCheckBox_FollowBoatMode, activateFollowBoatMode, ChangesArea
<1>2. CASE OnScroll_UpdateSearchBoxSize /\ UNCHANGED m_boat
  BY <1>2 DEF OnScroll_UpdateSearchBoxSize
<1>3. CASE OnScrollThumbRelease_UpdateSearchBoxSize /\ UNCHANGED m_boat
  BY <1>3, ResizedSize DEF OnScrollThumbRelease_UpdateSearchBoxSize, ChangesArea
<1>4. CASE OnButtonClick_AddMmsiToList /\ UNCHANGED m_boat
  BY <1>4 DEF OnButtonClick_AddMmsiToList, ChangesVessels, ChangesArea
<1>5. CASE OnButtonClick_DeleteMmsiFromList /\ UNCHANGED m_boat
  BY <1>5 DEF OnButtonClick_DeleteMmsiFromList, ChangesVessels, ChangesArea
<1>6. CASE OnButtonClick_ClearMmsiList /\ UNCHANGED m_boat
  BY <1>6 DEF OnButtonClick_ClearMmsiList, ChangesVessels, ChangesArea
<1>7. CASE EditMmsi /\ UNCHANGED m_boat
  BY <1>7 DEF EditMmsi, ChangesVessels, ChangesArea
<1>8. CASE EditName /\ UNCHANGED m_boat
  BY <1>8 DEF EditName
<1>9. CASE activateVesselFollowingOnCheckBox /\ UNCHANGED m_boat
  BY <1>9 DEF activateVesselFollowingOnCheckBox, ChangesArea
<1>10. CASE OpensModal      BY <1>10 DEF OpensModal
<1>11. CASE OnApply         BY <1>11 DEF OnApply, UpdatedSettings
<1>12. CASE OnOK
  BY <1>12, ResizedSize
     DEF OnOK, UpdatedSettings, WithBoxSize, SaveSettings, SavedConfig,
         refreshTokenState, ChangesArea
<1>13. CASE OnCancel        BY <1>13 DEF OnCancel
<1>14. CASE UpdateToCursor
  BY <1>14 DEF UpdateToCursor, updateSearchZoneOnCoord, ChangesArea
<1>15. CASE UpdateToBoat
  BY <1>15 DEF UpdateToBoat, activateFollowBoatMode, ChangesArea
<1>16. CASE SetPositionFix
  BY <1>16 DEF SetPositionFix, updateBoatPosition, ChangesArea
<1>17. CASE (OnButtonClick_startStream \/ OnButtonClick_stopStream) /\ UNCHANGED m_boat
  BY <1>17 DEF OnButtonClick_startStream, OnButtonClick_stopStream
<1>18. CASE (StopReturned \/ RestartStarts \/ ProcessEvent) /\ UNCHANGED m_boat
  BY <1>18 DEF StopReturned, RestartStarts, ProcessEvent
<1>19. CASE SupervisorThread /\ UNCHANGED m_boat
  BY <1>19 DEF SupervisorThread, SupervisorReports, MessageArrives, SupervisorExits
<1>20. CASE ToolbarShows
  BY <1>20, NewDialogArea DEF ToolbarShows
<1>21. CASE ToolbarHides \/ OnClose \/ StoppedOnLeaving
  BY <1>21 DEF ToolbarHides, OnClose, OnGuiClosed, StoppedOnLeaving, UserMay, Ready,
               WindowInv
<1>22. CASE PluginInit
  BY <1>22 DEF PluginInit, LoadedSettings, WindowInv
<1>23. CASE DeInit
  BY <1>23 DEF DeInit, OnGuiClosed, SaveSettings, SavedConfig, WithBoxSize
<1>24. CASE DestructorStops
  BY <1>24 DEF DestructorStops
<1>25. CASE DialogDeleted
  <2>1. DefaultSettings.lastSearchBoxSize \in Nat
    BY DEF DefaultSettings
  <2> QED BY <1>25, <2>1, NewDialogArea DEF DialogDeleted, Deletes
<1> QED BY <1>1, <1>2, <1>3, <1>4, <1>5, <1>6, <1>7, <1>8, <1>9, <1>10, <1>11,
           <1>12, <1>13, <1>14, <1>15, <1>16, <1>17, <1>18, <1>19, <1>20, <1>21,
           <1>22, <1>23, <1>24, <1>25
        DEF Next, Dialog, UserStep, GuiThread, Window, Lifecycle, Modals

(* The invariant of area, boat and slider.                                  *)
LEMMA AreaInvariance == Spec => []AreaInv
<1>1. Init => AreaInv
  <2> SUFFICES ASSUME Init PROVE AreaInv
    OBVIOUS
  <2>1. /\ DefaultSettings.lastSearchBoxSize \in Nat
        /\ SavedConfig(DefaultSettings).lastSearchBoxSize \in Nat
    BY DEF DefaultSettings, SavedConfig
  <2> QED BY <2>1, NewDialogArea DEF Init, GuiInit, SettingsInit, AreaInv, BoxWithinRange
<1>2. PluginInv /\ AreaInv /\ [Next]_vars => AreaInv'
  <2> SUFFICES ASSUME PluginInv, AreaInv, [Next]_vars PROVE AreaInv'
    OBVIOUS
  <2>1. CASE Next
    BY <2>1, AreaStep DEF PluginInv
  <2>2. CASE UNCHANGED vars
    BY <2>2 DEF AreaInv, BoxWithinRange, vars, guiVars, settingsVars
  <2> QED BY <2>1, <2>2
<1> QED BY <1>1, <1>2, PluginInvariance, PTL DEF Spec

(* In a dialog that stays, other handlers leave the boat where it is and     *)
(* turn follow mode at most off.                                            *)
LEMMA OtherSteps ==
  ASSUME FieldsInv, [Next]_vars, window' # "none",
         ~OnCheckBox_FollowBoatMode, ~UpdateToBoat, ~SetPositionFix, ~ToolbarShows
  PROVE  /\ dialog'.boat = dialog.boat
         /\ dialog'.followBoatMode => dialog.followBoatMode
<1> USE DEF FieldsInv, settingsVars
<1>2. CASE OnScroll_UpdateSearchBoxSize
  BY <1>2 DEF OnScroll_UpdateSearchBoxSize
<1>3. CASE OnScrollThumbRelease_UpdateSearchBoxSize
  BY <1>3 DEF OnScrollThumbRelease_UpdateSearchBoxSize, ChangesArea, Resized
<1>4. CASE OnButtonClick_AddMmsiToList
  BY <1>4 DEF OnButtonClick_AddMmsiToList, ChangesVessels, ChangesArea
<1>5. CASE OnButtonClick_DeleteMmsiFromList
  BY <1>5 DEF OnButtonClick_DeleteMmsiFromList, ChangesVessels, ChangesArea
<1>6. CASE OnButtonClick_ClearMmsiList
  BY <1>6 DEF OnButtonClick_ClearMmsiList, ChangesVessels, ChangesArea
<1>7. CASE EditMmsi
  BY <1>7 DEF EditMmsi, ChangesVessels, ChangesArea
<1>8. CASE EditName
  BY <1>8 DEF EditName
<1>9. CASE activateVesselFollowingOnCheckBox
  BY <1>9 DEF activateVesselFollowingOnCheckBox, ChangesArea
<1>10. CASE OpensModal      BY <1>10 DEF OpensModal
<1>11. CASE OnApply         BY <1>11 DEF OnApply
<1>12. CASE OnOK
  BY <1>12 DEF OnOK, refreshTokenState, ChangesArea, Resized
<1>13. CASE OnCancel        BY <1>13 DEF OnCancel
<1>14. CASE UpdateToCursor
  BY <1>14 DEF UpdateToCursor, updateSearchZoneOnCoord, ChangesArea
<1>17. CASE OnButtonClick_startStream \/ OnButtonClick_stopStream
  BY <1>17 DEF OnButtonClick_startStream, OnButtonClick_stopStream
<1>18. CASE StopReturned \/ RestartStarts \/ ProcessEvent
  BY <1>18 DEF StopReturned, RestartStarts, ProcessEvent
<1>19. CASE SupervisorThread
  BY <1>19 DEF SupervisorThread, SupervisorReports, MessageArrives, SupervisorExits
<1>21. CASE ToolbarHides \/ OnClose \/ StoppedOnLeaving
  BY <1>21 DEF ToolbarHides, OnClose, OnGuiClosed, StoppedOnLeaving
<1>22. CASE PluginInit
  BY <1>22 DEF PluginInit
<1>23. CASE DeInit
  BY <1>23 DEF DeInit, OnGuiClosed
<1>24. CASE DestructorStops
  BY <1>24 DEF DestructorStops
<1>25. CASE DialogDeleted
  BY <1>25 DEF DialogDeleted, Deletes
<1>26. CASE UNCHANGED vars
  BY <1>26 DEF vars, guiVars
<1> QED BY <1>2, <1>3, <1>4, <1>5, <1>6, <1>7, <1>8, <1>9, <1>10, <1>11,
           <1>12, <1>13, <1>14, <1>17, <1>18, <1>19, <1>21,
           <1>22, <1>23, <1>24, <1>25, <1>26
        DEF Next, Dialog, UserStep, GuiThread, Window, Lifecycle, Modals

(* Follow mode turned on centres the area on the plugin's last fix, once    *)
(* the dialog has seen one (activateFollowBoatMode()).                      *)
THEOREM OnBoatCenters == Spec => OnBoatCentersOnBoat
<1>1. ASSUME PluginInv, AreaInv, [Next]_vars
      PROVE  [~dialog.followBoatMode /\ dialog'.followBoatMode /\ window' # "none"
              /\ dialog.initialBoatPositionSet => dialog'.search \in m_boat]_vars
  <2> SUFFICES ASSUME ~dialog.followBoatMode, dialog'.followBoatMode,
                      window' # "none", dialog.initialBoatPositionSet
               PROVE  dialog'.search \in m_boat
    OBVIOUS
  <2> USE <1>1 DEF PluginInv, FieldsInv, AreaInv
  <2>1. CASE OnCheckBox_FollowBoatMode
    BY <2>1 DEF OnCheckBox_FollowBoatMode, activateFollowBoatMode, ChangesArea
  <2>2. CASE UpdateToBoat
    BY <2>2 DEF UpdateToBoat, activateFollowBoatMode, ChangesArea
  <2>3. CASE SetPositionFix
    BY <2>3 DEF SetPositionFix, updateBoatPosition, ChangesArea
  <2>4. CASE ToolbarShows
    BY <2>4 DEF ToolbarShows
  <2> QED BY <2>1, <2>2, <2>3, <2>4, OtherSteps
<1> QED BY <1>1, PluginInvariance, AreaInvariance, PTL DEF Spec, OnBoatCentersOnBoat

(* 0.3 of half a box of b degrees is 3b twentieths of a degree.             *)
LEMMA Threshold ==
  ASSUME NEW b \in Nat, b # 0
  PROVE  FollowThreshold(b) = 3 * b /\ FollowThreshold(b) > 0
BY DEF FollowThreshold, HalfSide

(* In follow mode every fix leaves the boat within the threshold of the      *)
(* area's centre, for boxes of every size but 0, and only a fix beyond the  *)
(* threshold, or the first, costs a restart (updateBoatPosition()).         *)
THEOREM FollowKeepsBoat == Spec => FollowKeepsBoatInArea
<1>1. ASSUME PluginInv, AreaInv, [Next]_vars
      PROVE  [dialog'.boat # dialog.boat /\ dialog'.followBoatMode
              /\ dialog.searchBoxSize # 0 /\ window' # "none" =>
                /\ Distance(dialog'.search, dialog'.boat)
                      < FollowThreshold(dialog.searchBoxSize)
                /\ stopping' /\ dialog.initialBoatPositionSet =>
                     Distance(dialog.search, dialog'.boat)
                       >= FollowThreshold(dialog.searchBoxSize)]_vars
  <2> SUFFICES ASSUME dialog'.boat # dialog.boat, dialog'.followBoatMode,
                      dialog.searchBoxSize # 0, window' # "none"
               PROVE  /\ Distance(dialog'.search, dialog'.boat)
                            < FollowThreshold(dialog.searchBoxSize)
                      /\ stopping' /\ dialog.initialBoatPositionSet =>
                           Distance(dialog.search, dialog'.boat)
                             >= FollowThreshold(dialog.searchBoxSize)
    OBVIOUS
  <2> USE <1>1 DEF PluginInv, FieldsInv, AreaInv
  <2>1. CASE OnCheckBox_FollowBoatMode
    BY <2>1 DEF OnCheckBox_FollowBoatMode, activateFollowBoatMode, ChangesArea
  <2>2. CASE UpdateToBoat
    BY <2>2 DEF UpdateToBoat, activateFollowBoatMode, ChangesArea
  <2>3. CASE SetPositionFix
    <3>1. window # "none"
      BY <2>3 DEF SetPositionFix
    <3>2. PICK p \in Positions : updateBoatPosition(p)
      BY <2>3, <3>1 DEF SetPositionFix
    <3>3. p \in Int /\ Distance(p, p) = 0
      BY <3>2, MainGuiAssumption DEF MainGuiAssumption, Distance
    <3>4. dialog'.boat = p
      BY <3>2 DEF updateBoatPosition, ChangesArea
    <3>5. /\ FollowThreshold(dialog.searchBoxSize) > 0
          /\ FollowThreshold(dialog.searchBoxSize) \in Int
      BY Threshold
    <3>6. Distance(dialog.search, p) \in Int
      BY <3>3 DEF Distance
    <3>7. ~stopping
      BY <2>3 DEF SetPositionFix, Ready, WindowInv
    <3>8. CASE dialog'.search = p
      <4>1. stopping' /\ dialog.initialBoatPositionSet =>
              Distance(dialog.search, p) >= FollowThreshold(dialog.searchBoxSize)
        BY <3>2, <3>7 DEF updateBoatPosition, streamVars
      <4> QED BY <4>1, <3>8, <3>3, <3>4, <3>5
    <3>9. CASE dialog'.search # p
      <4>1. /\ UNCHANGED streamVars
            /\ dialog'.search = dialog.search
            /\ Distance(dialog.search, p) < FollowThreshold(dialog.searchBoxSize)
        <5>1. dialog' = [dialog EXCEPT !.boat = p] /\ UNCHANGED streamVars
          BY <3>2, <3>9 DEF updateBoatPosition, ChangesArea
        <5>2. dialog.followBoatMode /\ dialog'.search = dialog.search
          BY <5>1
        <5>3. ~(Distance(dialog.search, p) >= FollowThreshold(dialog.searchBoxSize))
          BY <3>2, <3>9, <5>2 DEF updateBoatPosition, ChangesArea
        <5> QED BY <5>1, <5>2, <5>3, <3>5, <3>6
      <4> QED BY <4>1, <3>4, <3>7 DEF streamVars
    <3> QED BY <3>8, <3>9
  <2>4. CASE ToolbarShows
    BY <2>4, NewDialogArea DEF ToolbarShows
  <2> QED BY <2>1, <2>2, <2>3, <2>4, OtherSteps
<1> QED BY <1>1, PluginInvariance, AreaInvariance, PTL DEF Spec, FollowKeepsBoatInArea

(* Size and slider stay in the slider's range, whatever was saved and       *)
(* however the token changes (updateSearchBoxSize()).                       *)
THEOREM BoxStaysWithinRange == Spec => []BoxWithinRange
BY AreaInvariance, PTL DEF AreaInv

(* However the window goes, the stream goes with it unless it is to be kept *)
(* (OnToolbarToolCallback(), OnGuiClosed()).                                *)
THEOREM ClosingStops == Spec => ClosingStopsStream
<1>1. ASSUME PluginInv, [Next]_vars
      PROVE  [window = "shown" /\ window' # "shown" /\ wanted'
                => settings.keepWindowActive]_vars
  <2> SUFFICES ASSUME window = "shown", window' # "shown", wanted'
               PROVE  settings.keepWindowActive
    OBVIOUS
  <2> USE <1>1 DEF PluginInv, WindowInv, streamVars
  <2>1. CASE ToolbarHides
    BY <2>1 DEF ToolbarHides, MustStop, Stream!StopCalled
  <2>2. CASE OnClose
    BY <2>2 DEF OnClose, OnGuiClosed, MustStop, Stream!StopCalled
  <2>3. CASE StoppedOnLeaving
    BY <2>3 DEF StoppedOnLeaving, Stream!StopReturns
  <2>4. CASE DeInit
    BY <2>4 DEF DeInit, OnGuiClosed, MustStop, Stream!StopCalled
  <2>5. CASE DialogDeleted
    BY <2>5 DEF DialogDeleted, Deletes
  <2>6. CASE UNCHANGED window
    BY <2>6
  <2>7. Handler => UNCHANGED window
    BY HandlerRestarts DEF RestartsAtMost
  <2> QED BY <2>1, <2>2, <2>3, <2>4, <2>5, <2>6, <2>7
          DEF Next, Dialog, UserStep, GuiThread, SupervisorThread, Window, Lifecycle,
              Modals, Handler, vars, guiVars, OnButtonClick_startStream,
              OnButtonClick_stopStream, StopReturned, RestartStarts, ProcessEvent,
              SupervisorReports, MessageArrives, SupervisorExits, ToolbarShows,
              PluginInit, DestructorStops
<1> QED BY <1>1, PluginInvariance, PTL DEF Spec, ClosingStopsStream
=============================================================================
