------------------------------- MODULE Plugin -------------------------------
(***************************************************************************)
(* The OpenCPN plugin: Init() and DeInit(), the toolbar button, the window, *)
(* the context menu entry, preferences and position fixes, composed with    *)
(* the dialog of module MainGui.                                            *)
(*                                                                         *)
(* OpenCPN calls all of this on the GUI thread.  A modal dialog runs its own *)
(* event loop: position fixes and queued events are handled meanwhile, the  *)
(* toolbar, the menu and the other windows are not usable.  The cursor      *)
(* position is the one of the last SetCursorLatLon(): any position.         *)
(***************************************************************************)
EXTENDS MainGui

CONSTANT Tokens  \* what the user types into the token field

VARIABLES
  toolbar,  \* isToolbarActive; is the button highlighted; is the context
            \* menu entry visible
  m_boat    \* the last position fix: {p}, or {} before the first

vars == <<guiVars, settingsVars, toolbar, m_boat>>

Init ==
  /\ GuiInit
  /\ SettingsInit
  /\ toolbar = [isToolbarActive |-> FALSE, highlighted |-> FALSE, menu |-> FALSE]
  /\ m_boat = {}

(* SaveSettings() reads the box size from the dialog, if there is one. *)
SaveSettings(s) ==
  config' = SavedConfig(IF window = "none" THEN s
                        ELSE [s EXCEPT !.lastSearchBoxSize = dialog.searchBoxSize])

(* g_lastSearchBoxSize after SaveSettings(). *)
WithBoxSize(s) == IF window = "none" THEN s
                  ELSE [s EXCEPT !.lastSearchBoxSize = dialog.searchBoxSize]

(* create_pi() and Init(): a new plugin object and the saved settings. *)
PluginInit ==
  /\ gui = "unloaded"
  /\ settings' = LoadedSettings(config)
  /\ gui' = "idle"
  /\ m_boat' = {}
  /\ UNCHANGED <<config, streamVars, client, queue, window, modal, dialog, toolbar>>

-----------------------------------------------------------------------------
(***************************************************************************)
(* The window.                                                             *)
(***************************************************************************)

(* The toolbar button, when the window is hidden or does not exist yet. *)
ToolbarShows ==
  /\ Ready /\ modal = "none"
  /\ ~toolbar.isToolbarActive
  /\ window' = "shown"
  /\ IF window = "none" THEN dialog' = NewDialog(settings) /\ client' = NewClient
                        ELSE UNCHANGED <<dialog, client>>
  /\ toolbar' = [isToolbarActive |-> TRUE, highlighted |-> TRUE, menu |-> TRUE]
  /\ UNCHANGED <<settingsVars, streamVars, queue, gui, modal, m_boat>>

(* The button and the menu entry while the window goes: the highlight stays *)
(* on a stream that goes on; without g_keepWindowActive the entry goes too, *)
(* but after StopAisStream(), which may block.                              *)
ToolbarLeftLit ==        \* faulty: lit although the stream is stopped next
  [isToolbarActive |-> FALSE,
   highlighted |-> wanted,
   menu |-> toolbar.menu /\ (wanted \/ settings.keepWindowActive)]

ToolbarLeft ==
  [isToolbarActive |-> FALSE,
   highlighted |-> wanted /\ settings.keepWindowActive,
   menu |-> toolbar.menu /\ (wanted \/ settings.keepWindowActive)]

MustStop == wanted /\ ~settings.keepWindowActive

(* ... and when it is shown.  The window is hidden first. *)
ToolbarHidesSilently ==  \* faulty: does not stop the stream
  /\ Ready /\ modal = "none"
  /\ toolbar.isToolbarActive
  /\ window' = "hidden"
  /\ toolbar' = ToolbarLeft
  /\ UNCHANGED <<settingsVars, streamVars, client, queue, gui, modal, dialog, m_boat>>

ToolbarHides ==
  /\ Ready /\ modal = "none"
  /\ toolbar.isToolbarActive
  /\ window' = "hidden"
  /\ toolbar' = ToolbarLeft
  /\ IF MustStop THEN Stream!StopCalled /\ gui' = "hiding"
                 ELSE UNCHANGED <<streamVars, gui>>
  /\ UNCHANGED <<settingsVars, client, queue, modal, dialog, m_boat>>

(* OnGuiClosed(): the window is hidden last. *)
OnGuiClosed(stopping_, closed) ==
  /\ toolbar' = ToolbarLeft
  /\ IF MustStop
     THEN Stream!StopCalled /\ gui' = stopping_ /\ UNCHANGED window
     ELSE gui' = closed /\ window' = "hidden" /\ UNCHANGED streamVars
  /\ UNCHANGED <<client, queue, modal, dialog, m_boat>>

OnClose ==
  /\ UserMay
  /\ OnGuiClosed("closing", "idle")
  /\ UNCHANGED settingsVars

(* The rest of ToolbarHides, OnClose and DeInit after Stop(). *)
StoppedOnLeaving ==
  /\ gui \in {"hiding", "closing", "deinitClosing"}
  /\ Stream!StopReturns
  /\ gui' = IF gui = "deinitClosing" THEN "destroying" ELSE "idle"
  /\ window' = "hidden"
  /\ toolbar' = [toolbar EXCEPT !.menu = FALSE]
  /\ UNCHANGED <<settingsVars, client, queue, modal, dialog, m_boat>>

-----------------------------------------------------------------------------
(***************************************************************************)
(* DeInit(): save, close the window, delete the dialog.  Its destructor,    *)
(* and then the client's, stop the stream whatever the settings; the queued *)
(* events die with the dialog.                                              *)
(***************************************************************************)
DeInit ==
  /\ Ready /\ modal = "none"
  /\ SaveSettings(settings)
  /\ settings' = WithBoxSize(settings)
  /\ IF window = "none"
     THEN gui' = "unloaded" /\ UNCHANGED <<streamVars, client, queue, window, modal,
                                           dialog, toolbar, m_boat>>
     ELSE OnGuiClosed("deinitClosing", "destroying")

DestructorStops ==
  /\ gui = "destroying"
  /\ Stream!StopCalled
  /\ gui' = "deleting"
  /\ UNCHANGED <<settingsVars, client, queue, window, modal, dialog, toolbar, m_boat>>

Deletes ==
  /\ gui = "deleting"
  /\ wanted' = FALSE /\ stopping' = FALSE /\ decided' = FALSE /\ report' = "none"
  /\ UNCHANGED alive
  /\ client' = NewClient
  /\ queue' = <<>>
  /\ gui' = "unloaded"
  /\ window' = "none"
  /\ dialog' = NewDialog(DefaultSettings)
  /\ toolbar' = [isToolbarActive |-> FALSE, highlighted |-> FALSE, menu |-> FALSE]
  /\ UNCHANGED <<settingsVars, modal, m_boat>>

(* ~DialogMainGui() has waited for the supervisor. *)
DialogDeleted == ~alive /\ Deletes

-----------------------------------------------------------------------------
(***************************************************************************)
(* Preferences and context menu: modal dialogs.                            *)
(***************************************************************************)
OpensModal ==
  /\ Ready /\ modal = "none"
  /\ ~dialog.dragging
  /\ \/ modal' = "preferences"
     \/ toolbar.menu /\ window # "none" /\ modal' = "menu"
  /\ UNCHANGED <<settingsVars, streamVars, client, queue, gui, window, dialog, toolbar,
                 m_boat>>

OnApply ==
  /\ Ready /\ modal = "preferences"
  /\ \E keep \in BOOLEAN, token \in Tokens : settings' = UpdatedSettings(keep, token)
  /\ UNCHANGED <<config, streamVars, client, queue, gui, window, modal, dialog, toolbar,
                 m_boat>>

(* OK: as Apply; then save, and refresh token and slider of the dialog. *)
OnOK ==
  /\ Ready /\ modal = "preferences"
  /\ \E keep \in BOOLEAN, token \in Tokens :
       LET s == UpdatedSettings(keep, token)
       IN /\ settings' = WithBoxSize(s)
          /\ SaveSettings(s)
          /\ IF window = "none"
             THEN UNCHANGED <<streamVars, client, queue, gui, window, dialog>>
             ELSE refreshTokenState(s)
  /\ modal' = "none"
  /\ UNCHANGED <<toolbar, m_boat>>

(* Preferences or the menu dialog closed without a choice. *)
OnCancel ==
  /\ Ready /\ modal # "none"
  /\ modal' = "none"
  /\ UNCHANGED <<settingsVars, streamVars, client, queue, gui, window, dialog, toolbar,
                 m_boat>>

(* The menu dialog's two buttons. *)
UpdateToCursor ==
  /\ Ready /\ modal = "menu"
  /\ modal' = "none"
  /\ \E p \in Positions : updateSearchZoneOnCoord(p)
  /\ UNCHANGED <<settingsVars, client, toolbar, m_boat>>

UpdateToBoat ==
  /\ Ready /\ modal = "menu"
  /\ modal' = "none"
  /\ activateFollowBoatMode
  /\ UNCHANGED <<settingsVars, client, toolbar, m_boat>>

FixesOnlyTheShown ==     \* faulty: a hidden dialog does not hear of fixes
  /\ Ready
  /\ \E p \in Positions :
       /\ m_boat' = {p}
       /\ IF window # "shown" THEN UNCHANGED <<streamVars, queue, gui, window, dialog>>
                              ELSE updateBoatPosition(p)
  /\ UNCHANGED <<settingsVars, client, modal, toolbar>>

(* The dialog, if there is one, hears of every fix. *)
SetPositionFix ==
  /\ Ready
  /\ \E p \in Positions :
       /\ m_boat' = {p}
       /\ IF window = "none" THEN UNCHANGED <<streamVars, queue, gui, window, dialog>>
                             ELSE updateBoatPosition(p)
  /\ UNCHANGED <<settingsVars, client, modal, toolbar>>

-----------------------------------------------------------------------------
Dialog == /\ UserStep \/ GuiThread \/ SupervisorThread
          /\ UNCHANGED <<toolbar, m_boat>>

Window == ToolbarShows \/ ToolbarHides \/ OnClose \/ StoppedOnLeaving

Lifecycle == PluginInit \/ DeInit \/ DestructorStops \/ DialogDeleted

Modals == OpensModal \/ OnApply \/ OnOK \/ OnCancel \/ UpdateToCursor \/ UpdateToBoat

Next == Dialog \/ Window \/ Lifecycle \/ Modals \/ SetPositionFix

(* The GUI thread goes on in the handler it is in and handles its queue.    *)
(* Nobody else owes anything - not even a supervisor that is to end: Stop()  *)
(* may wait for it for ever (run stop_returns of AisStreamClient).          *)
Fairness ==
  /\ WF_vars(GuiThread /\ UNCHANGED <<toolbar, m_boat>>)
  /\ WF_vars(StoppedOnLeaving)
  /\ WF_vars(DestructorStops \/ DialogDeleted)

Spec == Init /\ [][Next]_vars /\ Fairness

-----------------------------------------------------------------------------
(* The states the label shows: TokenMissing is never reported. *)
States == {"Stopped", "Connecting", "Running", "ConnectFailed", "ServerError",
           "ConnectionLost"}

Event == [kind : {"state"}, state : States]
           \union [kind : {"sentence"}, sentence : Sentence]

DialogTypeOK ==
  /\ dialog.search \in Positions \union {0}
  /\ dialog.boat \in Positions \union {0}
  /\ dialog.searchBoxSize \in 0..20
  /\ dialog.slider \in 0..20
  /\ dialog.sliderMax \in {10, 20}
  /\ dialog.streamState \in States \union {"none"}

TypeOK ==
  /\ DialogTypeOK
  /\ queue \in Seq(Event)
  /\ gui \in {"unloaded", "idle", "stopping", "restarting", "starting", "hiding",
              "closing", "deinitClosing", "destroying", "deleting"}
  /\ window \in {"none", "hidden", "shown"}
  /\ modal \in {"none", "preferences", "menu"}

-----------------------------------------------------------------------------
(* The size in use and the slider never exceed the slider's range, when a    *)
(* token comes or goes, a dialog is created from an old configuration, or a *)
(* keyboard move is applied late (updateSearchBoxSize(), LoadSettings()).   *)
BoxWithinRange ==
  dialog.searchBoxSize =< dialog.sliderMax /\ dialog.slider =< dialog.sliderMax

(* A stream that is wanted was subscribed with what the dialog and the list *)
(* of vessels say now, whichever handler changed them last: every change    *)
(* restarts it (RestartAisStream(), Restart()).                             *)
SubscriptionMatchesDialog ==
  wanted => client.subscription =
              BuildSubscribeMessage(dialog.search, dialog.searchBoxSize,
                                    settings.activateVesselsFollowing,
                                    settings.mmsiList, client.useToken)

(* Without the dialog there is no supervisor that could call back into it   *)
(* and no event that could run against it (~DialogMainGui(), DeInit()).     *)
StreamNeedsDialog == window = "none" => ~wanted /\ ~alive /\ queue = <<>>

(* Once all queued state events are handled, the label shows what the       *)
(* client reported last, in whichever order they were queued from the two   *)
(* threads (SetStateCallback(), OnAisStreamStateChanged()).                 *)
LabelTellsLastReport ==
  LET states == {i \in DOMAIN queue : queue[i].kind = "state"}
  IN IF states = {} THEN report = dialog.streamState
     ELSE \E i \in states : /\ \A j \in states : j =< i
                           /\ report = queue[i].state

(* The dialog never asks for token mode without a token, so that neither a  *)
(* start nor the second half of a restart is refused (HasToken(),           *)
(* StartAisStream(), refreshTokenState()).                                  *)
TokenIsNeverMissing ==
  /\ client.useToken => client.token # ""
  /\ report # "TokenMissing"

(* The toolbar button is highlighted exactly while the window is shown or   *)
(* data is streaming, through closing, hiding and preferences in any order  *)
(* (OnToolbarToolCallback(), OnGuiClosed()).                                *)
ToolbarShowsStream ==
  gui = "idle" => (toolbar.highlighted <=> window = "shown" \/ wanted)

(* Rows of the widget and entries of the two lists correspond, so that a    *)
(* row's number may index them, and no vessel is listed twice.              *)
RowsMatchVessels ==
  window # "none" =>
    /\ dialog.rows = [i \in DOMAIN settings.mmsiList |->
                       <<settings.mmsiList[i], settings.mmsiListNames[i]>>]
    /\ Len(settings.mmsiListNames) = Len(settings.mmsiList)
    /\ \A i, j \in DOMAIN settings.mmsiList :
         i # j => settings.mmsiList[i] # settings.mmsiList[j]

(* However the window goes, the stream goes with it unless it is to be kept *)
(* (g_keepWindowActive as it is at that moment).                            *)
ClosingStopsStream ==
  [][window = "shown" /\ window' # "shown" /\ wanted' => settings.keepWindowActive]_vars

(* In follow mode every fix leaves the boat within the threshold of the     *)
(* area's centre (unless the area is empty), and only a fix beyond the      *)
(* threshold, or the first, costs a restart (updateBoatPosition()).         *)
FollowKeepsBoatInArea ==
  [][dialog'.boat # dialog.boat /\ dialog'.followBoatMode
     /\ dialog.searchBoxSize # 0 /\ window' # "none" =>
       /\ Distance(dialog'.search, dialog'.boat) < FollowThreshold(dialog.searchBoxSize)
       /\ stopping' /\ dialog.initialBoatPositionSet =>
            Distance(dialog.search, dialog'.boat) >= FollowThreshold(dialog.searchBoxSize)
    ]_vars

(* Follow mode turned on, in the dialog or from the chart, centres the area *)
(* on the plugin's last fix, once the dialog has seen one, hidden or shown  *)
(* (activateFollowBoatMode(), SetPositionFix()).                            *)
OnBoatCentersOnBoat ==
  [][~dialog.followBoatMode /\ dialog'.followBoatMode /\ window' # "none"
     /\ dialog.initialBoatPositionSet => dialog'.search \in m_boat]_vars

(* Settings survive DeInit() and the next Init(): what was saved is what is *)
(* loaded (SaveSettings(), LoadSettings()).                                 *)
SettingsSurviveReload ==
  [][gui = "unloaded" /\ gui' = "idle" => settings' = settings]_vars

(* When the supervisor has ended, no sentence comes after those already     *)
(* queued, the queue runs empty and the label says Stopped - unless the     *)
(* user starts again or the plugin goes.                                    *)
StoppedStreamFallsSilent ==
  report = "Stopped" /\ ~alive
    ~> \/ queue = <<>> /\ dialog.streamState = "Stopped"
       \/ alive \/ window = "none"

(* Once the supervisor it waits for has ended, a restart makes the stream   *)
(* wanted again, whatever is queued, and is not refused (Restart()).  That   *)
(* it does end is not promised here: see RestartEnds of AisStreamClient.    *)
RestartResumes == gui = "restarting" /\ ~alive ~> wanted

-----------------------------------------------------------------------------
(* The manual: "When a manual position is selected, the search area remains *)
(* fixed until changed".  The code does not keep this: the first fix moves  *)
(* an area the user has chosen (away from where the dialog starts) with     *)
(* follow mode off (updateBoatPosition()).                                  *)
ManualPositionStays ==
  [][m_boat' # m_boat /\ ~dialog.followBoatMode /\ dialog.search # 0
       => dialog'.search = dialog.search]_vars
=============================================================================
