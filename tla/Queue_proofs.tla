---------------------------- MODULE Queue_proofs ----------------------------
(***************************************************************************)
(* Theorems about the events the stream's thread queues for the GUI thread: *)
(* the types of Plugin's variables, for every payload the service may send, *)
(* the label, which tells the client's last report once the queue is        *)
(* handled; and the contract under which the plugin uses its client.        *)
(***************************************************************************)
EXTENDS Plugin_proofs, Lists_proofs

-----------------------------------------------------------------------------
(***************************************************************************)
(* What a step does to queue, report and label.                            *)
(***************************************************************************)
LabelKept == dialog'.streamState = dialog.streamState

(* Nothing. *)
QueueKept == UNCHANGED <<queue, report>> /\ LabelKept

(* The GUI thread handles the first event. *)
EventHandled ==
  /\ queue # <<>>
  /\ queue' = Tail(queue)
  /\ report' = report
  /\ dialog'.streamState = IF Head(queue).kind = "state" THEN Head(queue).state
                                                         ELSE dialog.streamState

(* A report, of whichever thread. *)
StateQueued ==
  /\ report' \in States
  /\ queue' = Append(queue, StateEvent(report'))
  /\ LabelKept

(* The sentences of a message. *)
EventsOf(payload) ==
  [i \in DOMAIN ProcessAisEvent(payload) |-> SentenceEvent(ProcessAisEvent(payload)[i])]

SentencesQueued ==
  /\ \E payload \in Payloads : queue' = queue \o EventsOf(payload)
  /\ report' = report
  /\ LabelKept

(* The dialog is deleted, and its queue with it. *)
QueueDropped == queue' = <<>> /\ report' = "none" /\ dialog'.streamState = "none"

(* The label changes only with ProcessEvent: no handler writes it.           *)
LEMMA HandlerKeepsLabel ==
  ASSUME FieldsInv, Handler
  PROVE  LabelKept
<1> USE DEF FieldsInv, LabelKept, ChangesArea
<1>1. CASE OnCheckBox_FollowBoatMode
  BY <1>1 DEF OnCheckBox_FollowBoatMode, activateFollowBoatMode
<1>2. CASE OnScroll_UpdateSearchBoxSize
  BY <1>2 DEF OnScroll_UpdateSearchBoxSize
<1>3. CASE OnScrollThumbRelease_UpdateSearchBoxSize
  BY <1>3 DEF OnScrollThumbRelease_UpdateSearchBoxSize, Resized
<1>4. CASE OnButtonClick_AddMmsiToList
  BY <1>4 DEF OnButtonClick_AddMmsiToList, ChangesVessels
<1>5. CASE OnButtonClick_DeleteMmsiFromList
  BY <1>5 DEF OnButtonClick_DeleteMmsiFromList, ChangesVessels
<1>6. CASE OnButtonClick_ClearMmsiList
  BY <1>6 DEF OnButtonClick_ClearMmsiList, ChangesVessels
<1>7. CASE EditMmsi
  BY <1>7 DEF EditMmsi, ChangesVessels
<1>8. CASE EditName
  BY <1>8 DEF EditName
<1>9. CASE activateVesselFollowingOnCheckBox
  BY <1>9 DEF activateVesselFollowingOnCheckBox
<1>10. CASE OpensModal      BY <1>10 DEF OpensModal
<1>11. CASE OnApply         BY <1>11 DEF OnApply
<1>12. CASE OnOK            BY <1>12 DEF OnOK, refreshTokenState, Resized
<1>13. CASE OnCancel        BY <1>13 DEF OnCancel
<1>14. CASE UpdateToCursor  BY <1>14 DEF UpdateToCursor, updateSearchZoneOnCoord
<1>15. CASE UpdateToBoat    BY <1>15 DEF UpdateToBoat, activateFollowBoatMode
<1>16. CASE SetPositionFix  BY <1>16 DEF SetPositionFix, updateBoatPosition
<1> QED BY <1>1, <1>2, <1>3, <1>4, <1>5, <1>6, <1>7, <1>8, <1>9, <1>10, <1>11,
           <1>12, <1>13, <1>14, <1>15, <1>16 DEF Handler

(* The constructor leaves the label without a state.                        *)
LEMMA NewDialogLabel ==
  ASSUME NEW s
  PROVE  NewDialog(s).streamState = "none"
BY DEF NewDialog, Resized

(* Without the dialog the label is as a new dialog's. *)
NoDialogNoLabel == window = "none" => dialog.streamState = "none"

(* Every step does one of these things to the queue: every change of the     *)
(* report comes with an event that says so.                                 *)
LEMMA QueueSteps ==
  ASSUME PluginInv, NoDialogNoLabel, Next
  PROVE  QueueKept \/ EventHandled \/ StateQueued \/ SentencesQueued \/ QueueDropped
<1> USE DEF PluginInv, streamVars, LabelKept
<1>1. CASE Handler
  <2>1. UNCHANGED <<queue, report>>
    BY <1>1, HandlerRestarts DEF RestartsAtMost, Stream!StopCalled
  <2> QED BY <1>1, <2>1, HandlerKeepsLabel DEF QueueKept
<1>2. CASE OnButtonClick_startStream
  <2>1. StartClient(TokenSet(settings)) /\ UNCHANGED dialog
    BY <1>2 DEF OnButtonClick_startStream
  <2>2. /\ DOMAIN TokenSet(settings) = {"useToken", "token", "subscription"}
        /\ TokenSet(settings).useToken => TokenSet(settings).token # ""
    BY TokenSetTogether DEF TokenInv
  <2> QED BY <2>1, <2>2, StartStarts DEF Stream!Start, QueueKept
<1>3. CASE OnButtonClick_stopStream
  BY <1>3 DEF OnButtonClick_stopStream, Stream!StopCalled, QueueKept
<1>4. CASE StopReturned
  BY <1>4 DEF StopReturned, Stream!StopReturns, QueueKept
<1>5. CASE RestartStarts
  <2>1. StartClient(client) /\ UNCHANGED dialog
    BY <1>5 DEF RestartStarts
  <2> QED BY <2>1, StartStarts DEF Stream!Start, QueueKept, TokenInv, TokenIsNeverMissing
<1>6. CASE ProcessEvent
  BY <1>6 DEF ProcessEvent, EventHandled, FieldsInv
<1>7. CASE SupervisorReports
  <2>1. report' \in States
    BY <1>7 DEF SupervisorReports, Stream!Report, Stream!Follows, States, TokenInv
  <2> QED BY <1>7, <2>1 DEF SupervisorReports, StateQueued
<1>8. CASE MessageArrives
  <2>1. PICK payload \in Payloads :
          IF IsServerError(payload)
          THEN report' = "ServerError" /\ queue' = Append(queue, StateEvent("ServerError"))
          ELSE queue' = queue \o EventsOf(payload) /\ UNCHANGED report
    BY <1>8 DEF MessageArrives, EventsOf
  <2>2. UNCHANGED dialog
    BY <1>8 DEF MessageArrives
  <2> QED BY <2>1, <2>2 DEF StateQueued, SentencesQueued, States
<1>9. CASE SupervisorExits
  BY <1>9 DEF SupervisorExits, Stream!Exit, StateQueued, States
<1>10. CASE ToolbarShows
  BY <1>10, NewDialogLabel DEF ToolbarShows, NoDialogNoLabel, QueueKept
<1>11. CASE ToolbarHides
  BY <1>11 DEF ToolbarHides, Stream!StopCalled, QueueKept
<1>12. CASE OnClose
  BY <1>12 DEF OnClose, OnGuiClosed, Stream!StopCalled, QueueKept
<1>13. CASE StoppedOnLeaving
  BY <1>13 DEF StoppedOnLeaving, Stream!StopReturns, QueueKept
<1>14. CASE PluginInit
  BY <1>14 DEF PluginInit, QueueKept
<1>15. CASE DeInit
  BY <1>15 DEF DeInit, OnGuiClosed, Stream!StopCalled, QueueKept
<1>16. CASE DestructorStops
  BY <1>16 DEF DestructorStops, Stream!StopCalled, QueueKept
<1>17. CASE DialogDeleted
  BY <1>17, NewDialogLabel DEF DialogDeleted, Deletes, QueueDropped
<1> QED BY <1>1, <1>2, <1>3, <1>4, <1>5, <1>6, <1>7, <1>8, <1>9, <1>10, <1>11,
           <1>12, <1>13, <1>14, <1>15, <1>16, <1>17
        DEF Next, Dialog, UserStep, GuiThread, SupervisorThread, Window, Lifecycle,
            Modals, Handler

-----------------------------------------------------------------------------
(***************************************************************************)
(* The events.                                                             *)
(***************************************************************************)

(* ProcessAisEvent() hands on AIVDM strings only, each with its end,         *)
(* whatever values the service has put into "nmea".                         *)
LEMMA OnlySentences ==
  ASSUME NEW ev \in Payload
  PROVE  ProcessAisEvent(ev) \in Seq(Sentence)
<1> DEFINE K == {i \in DOMAIN ev.nmea : ev.nmea[i].isString /\ ev.nmea[i].aivdm}
           vdm == Kept(ev.nmea, K)
           out == [i \in DOMAIN vdm |-> [vdm[i] EXCEPT !.terminated = TRUE]]
<1>1. ev.nmea \in Seq(Nmea)
  BY DEF Payload
<1>2. IsList(ev.nmea) /\ K \in SUBSET (1..Len(ev.nmea))
  BY <1>1, SeqIsList, LenProperties
<1>3. /\ Cardinality(K) \in Nat
      /\ DOMAIN vdm = 1..Cardinality(K)
      /\ \A i \in 1..Cardinality(K) :
           Ascending(K)[i] \in K /\ vdm[i] = ev.nmea[Ascending(K)[i]]
  <2> HIDE DEF K
  <2>1. /\ Cardinality(K) \in Nat
        /\ \A i \in 1..Cardinality(K) :
             Ascending(K)[i] \in K /\ vdm[i] = ev.nmea[Ascending(K)[i]]
    BY <1>2, KeptList
  <2>2. DOMAIN vdm = 1..Cardinality(K)
    BY DEF Kept
  <2> QED BY <2>1, <2>2
<1>4. \A i \in K : ev.nmea[i] \in Nmea /\ ev.nmea[i].isString /\ ev.nmea[i].aivdm
  <2>1. \A i \in 1..Len(ev.nmea) : ev.nmea[i] \in Nmea
    BY <1>1, LenProperties
  <2> QED BY <2>1, <1>2
<1>5. \A s \in Nmea : s.isString /\ s.aivdm => [s EXCEPT !.terminated = TRUE] \in Sentence
  BY DEF Nmea, Sentence
<1>6. out \in Seq(Sentence)
  <2> HIDE DEF K, vdm
  <2>1. \A i \in 1..Cardinality(K) : [vdm[i] EXCEPT !.terminated = TRUE] \in Sentence
    BY <1>3, <1>4, <1>5
  <2>2. out \in [1..Cardinality(K) -> Sentence]
    BY <1>3, <2>1
  <2> HIDE DEF out
  <2> QED BY <1>3, <2>2, SeqDef
<1>7. <<>> \in Seq(Sentence)
  OBVIOUS
<1>8. ProcessAisEvent(ev) = IF ev.type # "event" THEN <<>> ELSE out
  BY DEF ProcessAisEvent
<1> QED BY <1>6, <1>7, <1>8

(* What a message queues is a list of sentence events.                      *)
LEMMA SentenceEvents ==
  ASSUME NEW payload \in Payloads
  PROVE  /\ EventsOf(payload) \in Seq(Event)
         /\ \A i \in 1..Len(EventsOf(payload)) : EventsOf(payload)[i].kind = "sentence"
<1> DEFINE s == ProcessAisEvent(payload)
<1>1. s \in Seq(Sentence)
  BY MainGuiAssumption, OnlySentences DEF MainGuiAssumption
<1> HIDE DEF s
<1>2. \A i \in 1..Len(s) : s[i] \in Sentence
  BY <1>1, LenProperties
<1>3. DOMAIN s = 1..Len(s) /\ Len(s) \in Nat
  BY <1>1, LenProperties
<1>4. EventsOf(payload) = [i \in 1..Len(s) |-> SentenceEvent(s[i])]
  BY <1>3 DEF EventsOf, s
<1>5. \A i \in 1..Len(s) : SentenceEvent(s[i]) \in Event /\ SentenceEvent(s[i]).kind = "sentence"
  BY <1>2 DEF SentenceEvent, Event
<1>6. EventsOf(payload) \in [1..Len(s) -> Event]
  BY <1>4, <1>5
<1>7. EventsOf(payload) \in Seq(Event)
  BY <1>3, <1>6, SeqDef
<1>8. Len(EventsOf(payload)) = Len(s)
  BY <1>3, <1>4, FunctionIsList
<1> QED BY <1>4, <1>5, <1>7, <1>8

-----------------------------------------------------------------------------
(***************************************************************************)
(* The label.                                                              *)
(***************************************************************************)
EventsInv == queue \in Seq(Event)

(* What the label shows once the queue q is handled, from what it shows now. *)
EndsAs(q, shown, state) ==
  LET states == {i \in DOMAIN q : q[i].kind = "state"}
  IN IF states = {} THEN state = shown
     ELSE \E i \in states : (\A j \in states : j =< i) /\ state = q[i].state

(* A new state event has the last word.                                     *)
LEMMA EndsWithNew ==
  ASSUME NEW q \in Seq(Event), NEW state \in States, NEW shown
  PROVE  /\ Append(q, StateEvent(state)) \in Seq(Event)
         /\ EndsAs(Append(q, StateEvent(state)), shown, state)
<1> DEFINE e == StateEvent(state)
           t == Append(q, e)
<1>1. e \in Event /\ e.kind = "state" /\ e.state = state
  BY DEF StateEvent, Event
<1> HIDE DEF e
<1>2. t \in Seq(Event) /\ Len(q) \in Nat /\ Len(t) = Len(q) + 1 /\ t[Len(q) + 1] = e
  BY <1>1, AppendProperties, LenProperties
<1> HIDE DEF t
<1>3. DOMAIN t = 1..Len(q) + 1
  BY <1>2, LenProperties
<1>4. EndsAs(t, shown, state)
  <2> DEFINE states == {i \in DOMAIN t : t[i].kind = "state"}
  <2>1. Len(q) + 1 \in states
    BY <1>1, <1>2, <1>3
  <2>2. \A j \in states : j =< Len(q) + 1
    BY <1>2, <1>3
  <2> QED BY <2>1, <2>2, <1>1, <1>2 DEF EndsAs
<1> QED BY <1>2, <1>4 DEF t, e

(* Sentences leave the last word to the state event that had it.            *)
LEMMA EndsWithSentences ==
  ASSUME NEW q \in Seq(Event), NEW s \in Seq(Event),
         \A i \in 1..Len(s) : s[i].kind = "sentence",
         NEW shown, NEW state, EndsAs(q, shown, state)
  PROVE  /\ q \o s \in Seq(Event)
         /\ EndsAs(q \o s, shown, state)
<1> DEFINE t == q \o s
           old == {i \in DOMAIN q : q[i].kind = "state"}
           new == {i \in DOMAIN t : t[i].kind = "state"}
<1>1. /\ Len(q) \in Nat /\ Len(s) \in Nat /\ DOMAIN q = 1..Len(q)
  BY LenProperties
<1>2. /\ t \in Seq(Event) /\ Len(t) = Len(q) + Len(s)
      /\ \A i \in 1..Len(q) + Len(s) : t[i] = IF i =< Len(q) THEN q[i] ELSE s[i - Len(q)]
  BY ConcatProperties
<1> HIDE DEF t
<1>3. DOMAIN t = 1..Len(q) + Len(s)
  BY <1>2, LenProperties
<1>4. \A i \in 1..Len(q) + Len(s) : i > Len(q) => t[i].kind # "state"
  <2> TAKE i \in 1..Len(q) + Len(s)
  <2> HAVE i > Len(q)
  <2>1. i - Len(q) \in 1..Len(s) /\ t[i] = s[i - Len(q)]
    BY <1>1, <1>2
  <2>2. s[i - Len(q)].kind = "sentence"
    BY <2>1
  <2> QED BY <2>1, <2>2
<1>5. \A i \in 1..Len(q) : i \in 1..Len(q) + Len(s) /\ t[i] = q[i]
  BY <1>1, <1>2
<1>6. new = old
  BY <1>1, <1>3, <1>4, <1>5
<1>7. \A i \in old : t[i] = q[i]
  BY <1>1, <1>5
<1>8. EndsAs(t, shown, state)
  <2> HIDE DEF old
  <2>1. EndsAs(t, shown, state) <=>
          IF new = {} THEN state = shown
          ELSE \E i \in new : (\A j \in new : j =< i) /\ state = t[i].state
    BY DEF EndsAs
  <2>2. IF old = {} THEN state = shown
        ELSE \E i \in old : (\A j \in old : j =< i) /\ state = q[i].state
    BY DEF EndsAs, old
  <2> HIDE DEF new
  <2> QED BY <2>1, <2>2, <1>6, <1>7
<1> QED BY <1>2, <1>8 DEF t

(* Handling the first event changes nothing of how the queue ends.          *)
LEMMA EndsWithTail ==
  ASSUME NEW q \in Seq(Event), q # <<>>,
         NEW shown, NEW state, EndsAs(q, shown, state)
  PROVE  /\ Tail(q) \in Seq(Event)
         /\ Head(q) \in Event
         /\ EndsAs(Tail(q), IF Head(q).kind = "state" THEN Head(q).state ELSE shown, state)
<1> DEFINE t == Tail(q)
           old == {i \in DOMAIN q : q[i].kind = "state"}
           new == {i \in DOMAIN t : t[i].kind = "state"}
           next == IF Head(q).kind = "state" THEN Head(q).state ELSE shown
<1>1. /\ Len(q) \in Nat /\ DOMAIN q = 1..Len(q)
  BY LenProperties
<1>2. /\ t \in Seq(Event) /\ Len(t) = Len(q) - 1 /\ Len(q) # 0
      /\ Head(q) \in Event /\ Head(q) = q[1]
      /\ \A i \in 1..Len(q) - 1 : t[i] = q[i + 1]
  BY HeadTailProperties, LenProperties, EmptySeq
<1> HIDE DEF t
<1>3. DOMAIN t = 1..Len(q) - 1
  BY <1>2, LenProperties
<1>4. \A i \in new : i + 1 \in old /\ t[i] = q[i + 1] /\ i \in Nat
  BY <1>1, <1>2, <1>3
<1>5. \A i \in old : i # 1 => i - 1 \in new /\ t[i - 1] = q[i] /\ i \in Nat
  <2> TAKE i \in old
  <2> HAVE i # 1
  <2>1. i - 1 \in 1..Len(q) - 1 /\ (i - 1) + 1 = i
    BY <1>1
  <2> QED BY <2>1, <1>2, <1>3
<1>6. 1 \in old <=> Head(q).kind = "state"
  BY <1>1, <1>2
<1>7. EndsAs(t, next, state) <=>
        IF new = {} THEN state = next
        ELSE \E i \in new : (\A j \in new : j =< i) /\ state = t[i].state
  BY DEF EndsAs
<1>8. IF old = {} THEN state = shown
      ELSE \E i \in old : (\A j \in old : j =< i) /\ state = q[i].state
  BY DEF EndsAs
<1>9. \A i \in old : i \in Nat
  BY <1>1
<1>10. CASE old = {}
  <2>1. new = {}
    BY <1>4, <1>10
  <2>2. next = shown
    BY <1>6, <1>10
  <2> QED BY <2>1, <2>2, <1>2, <1>7, <1>8, <1>10 DEF t
<1>11. CASE old # {}
  <2> HIDE DEF old, new
  <2>1. PICK i \in old : (\A j \in old : j =< i) /\ state = q[i].state
    BY <1>8, <1>11
  <2>2. CASE i = 1
    <3>1. new = {}
      <4> SUFFICES ASSUME NEW j \in new PROVE FALSE
        OBVIOUS
      <4>1. j + 1 =< 1 /\ j \in Nat /\ j + 1 \in old
        BY <1>4, <2>1, <2>2
      <4>2. j \in DOMAIN t
        BY DEF new
      <4> QED BY <4>1, <4>2, <1>3, <1>1
    <3>2. state = next
      BY <1>2, <1>6, <2>1, <2>2
    <3> QED BY <3>1, <3>2, <1>2, <1>7 DEF t
  <2>3. CASE i # 1
    <3>1. i - 1 \in new /\ state = t[i - 1].state
      BY <1>5, <2>1, <2>3
    <3>2. \A j \in new : j =< i - 1
      <4> TAKE j \in new
      <4>1. j + 1 =< i /\ j \in Nat /\ i \in Nat
        BY <1>4, <1>9, <2>1
      <4> QED BY <4>1
    <3>3. EndsAs(t, next, state)
      BY <3>1, <3>2, <1>7
    <3> QED BY <3>3, <1>2 DEF t
  <2> QED BY <2>2, <2>3
<1> QED BY <1>10, <1>11

(* Only ~DialogMainGui() ends a dialog. *)
LEMMA DialogEnds ==
  ASSUME Next, window # "none", window' = "none"
  PROVE  DialogDeleted
<1>1. Handler => UNCHANGED window
  BY HandlerRestarts DEF RestartsAtMost
<1>2. CASE UNCHANGED window
  BY <1>2
<1>3. CASE Window
  BY <1>3 DEF Window, ToolbarShows, ToolbarHides, OnClose, OnGuiClosed, StoppedOnLeaving
<1>4. CASE Lifecycle
  BY <1>4 DEF Lifecycle, PluginInit, DeInit, OnGuiClosed, DestructorStops
<1> QED BY <1>1, <1>2, <1>3, <1>4
        DEF Next, Dialog, UserStep, GuiThread, SupervisorThread, Modals, Handler,
            OnButtonClick_startStream, OnButtonClick_stopStream, StopReturned,
            RestartStarts, ProcessEvent, SupervisorReports, MessageArrives,
            SupervisorExits

(* The label, with what it needs: without the dialog no state is shown.      *)
LabelInv ==
  /\ LabelTellsLastReport
  /\ NoDialogNoLabel
  /\ EventsInv
  /\ dialog.streamState \in States \union {"none"}

(* Every step's event, and the event the GUI thread handles, keep the label  *)
(* on the way to the last report.                                           *)
LEMMA LabelStep ==
  ASSUME PluginInv, LabelInv, Next
  PROVE  LabelInv'
<1> USE DEF LabelInv, EventsInv
<1>1. EndsAs(queue, dialog.streamState, report)
  BY DEF LabelTellsLastReport, EndsAs
<1>2. SUFFICES /\ EndsAs(queue', dialog'.streamState, report')
               /\ NoDialogNoLabel'
               /\ queue' \in Seq(Event)
               /\ dialog'.streamState \in States \union {"none"}
  BY DEF LabelTellsLastReport, EndsAs
<1>3. QueueKept \/ EventHandled \/ StateQueued \/ SentencesQueued \/ QueueDropped
  BY QueueSteps
<1>4. NoDialogNoLabel'
  <2> SUFFICES ASSUME window' = "none" PROVE dialog'.streamState = "none"
    BY DEF NoDialogNoLabel
  <2>1. CASE window # "none"
    BY <2>1, DialogEnds, NewDialogLabel DEF DialogDeleted, Deletes
  <2>2. CASE window = "none"
    <3>1. queue = <<>> /\ dialog.streamState = "none"
      BY <2>2 DEF PluginInv, WindowInv, StreamNeedsDialog, NoDialogNoLabel
    <3> QED BY <1>3, <3>1 DEF QueueKept, EventHandled, StateQueued, SentencesQueued,
                              QueueDropped, LabelKept
  <2> QED BY <2>1, <2>2
<1>5. CASE QueueKept
  BY <1>1, <1>4, <1>5 DEF QueueKept, LabelKept
<1>6. CASE EventHandled
  <2>1. /\ Tail(queue) \in Seq(Event)
        /\ Head(queue) \in Event
        /\ EndsAs(Tail(queue), dialog'.streamState, report)
    BY <1>1, <1>6, EndsWithTail DEF EventHandled
  <2>2. \A e \in Event : e.kind = "state" => e.state \in States
    BY DEF Event
  <2> QED BY <1>4, <1>6, <2>1, <2>2 DEF EventHandled
<1>7. CASE StateQueued
  BY <1>4, <1>7, EndsWithNew DEF StateQueued, LabelKept
<1>8. CASE SentencesQueued
  <2>1. PICK payload \in Payloads : queue' = queue \o EventsOf(payload)
    BY <1>8 DEF SentencesQueued
  <2>2. /\ EventsOf(payload) \in Seq(Event)
        /\ \A i \in 1..Len(EventsOf(payload)) : EventsOf(payload)[i].kind = "sentence"
    BY SentenceEvents
  <2>3. /\ queue \o EventsOf(payload) \in Seq(Event)
        /\ EndsAs(queue \o EventsOf(payload), dialog.streamState, report)
    BY <1>1, <2>2, EndsWithSentences
  <2> QED BY <1>4, <1>8, <2>1, <2>3 DEF SentencesQueued, LabelKept
<1>9. CASE QueueDropped
  <2>1. <<>> \in Seq(Event) /\ EndsAs(<<>>, "none", "none")
    BY DEF EndsAs
  <2> QED BY <1>4, <1>9, <2>1 DEF QueueDropped
<1> QED BY <1>3, <1>5, <1>6, <1>7, <1>8, <1>9

(* Before Init() the label is empty, and so is the queue.                   *)
LEMMA LabelInitially == Init => LabelInv
<1> SUFFICES ASSUME Init PROVE LabelInv
  OBVIOUS
<1>1. queue = <<>> /\ dialog.streamState = "none" /\ report = "none"
  BY NewDialogLabel DEF Init, GuiInit, Stream!Init
<1> QED BY <1>1 DEF LabelInv, LabelTellsLastReport, NoDialogNoLabel, EventsInv

(* The invariant of queue and label, whatever the service sends.            *)
THEOREM LabelInvariance == Spec => []LabelInv
<1>1. PluginInv /\ LabelInv /\ [Next]_vars => LabelInv'
  <2> SUFFICES ASSUME PluginInv, LabelInv, [Next]_vars PROVE LabelInv'
    OBVIOUS
  <2>1. CASE Next
    BY <2>1, LabelStep
  <2>2. CASE UNCHANGED vars
    BY <2>2 DEF LabelInv, LabelTellsLastReport, NoDialogNoLabel, EventsInv, vars, guiVars,
                streamVars
  <2> QED BY <2>1, <2>2
<1> QED BY <1>1, LabelInitially, PluginInvariance, PTL DEF Spec

(* Once the queued events are handled, the label shows what the client      *)
(* reported last, from whichever thread (SetStateCallback(),                *)
(* OnAisStreamStateChanged()).                                              *)
THEOREM LabelTells == Spec => []LabelTellsLastReport
BY LabelInvariance, PTL DEF LabelInv

-----------------------------------------------------------------------------
(***************************************************************************)
(* Types.                                                                  *)
(***************************************************************************)

(* The dialog's numbers, and the sizes a new dialog may start with. *)
SizesInv ==
  /\ dialog.search \in Positions \union {0}
  /\ dialog.boat \in Positions \union {0}
  /\ dialog.searchBoxSize \in 0..20
  /\ dialog.slider \in 0..20
  /\ dialog.sliderMax \in {10, 20}
  /\ settings.lastSearchBoxSize \in 0..20
  /\ config.lastSearchBoxSize \in 0..20

ControlInv ==
  /\ gui \in {"unloaded", "idle", "stopping", "restarting", "starting", "hiding",
              "closing", "deinitClosing", "destroying", "deleting"}
  /\ window \in {"none", "hidden", "shown"}
  /\ modal \in {"none", "preferences", "menu"}

(* updateSearchBoxSize() leaves the sizes in the range the token allows, and *)
(* a new dialog, whatever size was saved, is somewhere and of some size.    *)
LEMMA ResizedTypes ==
  ASSUME NEW d, NEW degrees \in 0..20, NEW s,
         DOMAIN d = {"search", "boat", "initialBoatPositionSet", "followBoatMode",
                     "searchBoxSize", "slider", "sliderMax", "dragging", "rows",
                     "streamState"}
  PROVE  LET r == Resized(d, degrees, s)
         IN /\ r.search = d.search
            /\ r.boat = d.boat
            /\ r.searchBoxSize \in 0..20
            /\ r.slider \in 0..20
            /\ r.sliderMax \in {10, 20}
BY DEF Resized

(* A new dialog is at 0, in a size a slider shows. *)
LEMMA NewDialogTypes ==
  ASSUME NEW s, s.lastSearchBoxSize \in 0..20
  PROVE  /\ NewDialog(s).search = 0
         /\ NewDialog(s).boat = 0
         /\ NewDialog(s).searchBoxSize \in 0..20
         /\ NewDialog(s).slider \in 0..20
         /\ NewDialog(s).sliderMax \in {10, 20}
BY DEF NewDialog, Resized

(* Positions come from fixes and the cursor, sizes from the slider and the   *)
(* configuration, which gets them from the slider.                          *)
LEMMA SizesStep ==
  ASSUME FieldsInv, SizesInv, Next
  PROVE  SizesInv'
<1> USE MainGuiAssumption DEF MainGuiAssumption, FieldsInv, SizesInv, settingsVars
<1>1. CASE OnCheckBox_FollowBoatMode
  BY <1>1 DEF OnCheckBox_FollowBoatMode, activateFollowBoatMode, ChangesArea
<1>2. CASE OnScroll_UpdateSearchBoxSize
  BY <1>2 DEF OnScroll_UpdateSearchBoxSize
<1>3. CASE OnScrollThumbRelease_UpdateSearchBoxSize
  BY <1>3, ResizedTypes DEF OnScrollThumbRelease_UpdateSearchBoxSize, ChangesArea
<1>4. CASE OnButtonClick_AddMmsiToList
  BY <1>4 DEF OnButtonClick_AddMmsiToList, ChangesVessels, ChangesArea
<1>5. CASE OnButtonClick_DeleteMmsiFromList
  BY <1>5 DEF OnButtonClick_DeleteMmsiFromList, ChangesVessels, ChangesArea
<1>6. CASE OnButtonClick_ClearMmsiList
  BY <1>6 DEF OnButtonClick_ClearMmsiList, ChangesVessels, ChangesArea
<1>7. CASE EditMmsi
  BY <1>7 DEF EditMmsi, ChangesVessels, ChangesArea
<1>8. CASE EditName
  BY <1>8 DEF EditName
<1>9. CASE activateVesselFollowingOnCheckBox
  BY <1>9 DEF activateVesselFollowingOnCheckBox, ChangesArea
<1>10. CASE OpensModal      BY <1>10 DEF OpensModal
<1>11. CASE OnApply         BY <1>11 DEF OnApply, UpdatedSettings
<1>12. CASE OnOK
  BY <1>12, ResizedTypes
     DEF OnOK, UpdatedSettings, WithBoxSize, SaveSettings, SavedConfig,
         refreshTokenState, ChangesArea
<1>13. CASE OnCancel        BY <1>13 DEF OnCancel
<1>14. CASE UpdateToCursor
  BY <1>14 DEF UpdateToCursor, updateSearchZoneOnCoord, ChangesArea
<1>15. CASE UpdateToBoat
  BY <1>15 DEF UpdateToBoat, activateFollowBoatMode, ChangesArea
<1>16. CASE SetPositionFix
  <2>1. CASE window = "none"
    BY <1>16, <2>1 DEF SetPositionFix
  <2>2. CASE window # "none"
    <3>1. PICK p \in Positions : updateBoatPosition(p)
      BY <1>16, <2>2 DEF SetPositionFix
    <3>2. UNCHANGED settingsVars
      BY <1>16 DEF SetPositionFix
    <3>3. \/ dialog' = [dialog EXCEPT !.boat = p]
          \/ dialog' = [[dialog EXCEPT !.boat = p] EXCEPT !.initialBoatPositionSet = TRUE,
                                                         !.search = p]
      BY <3>1 DEF updateBoatPosition, ChangesArea
    <3> QED BY <3>2, <3>3
  <2> QED BY <2>1, <2>2
<1>17. CASE OnButtonClick_startStream \/ OnButtonClick_stopStream
  BY <1>17 DEF OnButtonClick_startStream, OnButtonClick_stopStream
<1>18. CASE StopReturned \/ RestartStarts \/ ProcessEvent
  BY <1>18 DEF StopReturned, RestartStarts, ProcessEvent
<1>19. CASE SupervisorThread
  BY <1>19 DEF SupervisorThread, SupervisorReports, MessageArrives, SupervisorExits
<1>20. CASE ToolbarShows
  BY <1>20, NewDialogTypes DEF ToolbarShows
<1>21. CASE ToolbarHides \/ OnClose \/ StoppedOnLeaving
  BY <1>21 DEF ToolbarHides, OnClose, OnGuiClosed, StoppedOnLeaving
<1>22. CASE PluginInit
  BY <1>22 DEF PluginInit, LoadedSettings
<1>23. CASE DeInit
  BY <1>23 DEF DeInit, OnGuiClosed, SaveSettings, SavedConfig, WithBoxSize
<1>24. CASE DestructorStops
  BY <1>24 DEF DestructorStops
<1>25. CASE DialogDeleted
  <2>1. DefaultSettings.lastSearchBoxSize \in 0..20
    BY DEF DefaultSettings
  <2> QED BY <1>25, <2>1, NewDialogTypes DEF DialogDeleted, Deletes
<1> QED BY <1>1, <1>2, <1>3, <1>4, <1>5, <1>6, <1>7, <1>8, <1>9, <1>10, <1>11,
           <1>12, <1>13, <1>14, <1>15, <1>16, <1>17, <1>18, <1>19, <1>20, <1>21,
           <1>22, <1>23, <1>24, <1>25
        DEF Next, Dialog, UserStep, GuiThread, Window, Lifecycle, Modals

(* The GUI thread is in one of its handlers, and so are the windows.        *)
LEMMA ControlStep ==
  ASSUME ControlInv, Next
  PROVE  ControlInv'
<1> USE DEF ControlInv, ChangesArea, RestartAisStream
<1>1. gui' \in {"unloaded", "idle", "stopping", "restarting", "starting", "hiding",
                "closing", "deinitClosing", "destroying", "deleting"}
  <2>1. CASE Handler
    BY <2>1, HandlerRestarts DEF RestartsAtMost
  <2>2. CASE Dialog /\ ~Handler
    BY <2>2 DEF Dialog, Handler, UserStep, GuiThread, SupervisorThread,
                OnButtonClick_startStream, OnButtonClick_stopStream, StopReturned,
                RestartStarts, ProcessEvent, SupervisorReports, MessageArrives,
                SupervisorExits
  <2>3. CASE Window
    BY <2>3 DEF Window, ToolbarShows, ToolbarHides, OnClose, OnGuiClosed,
                StoppedOnLeaving
  <2>4. CASE Lifecycle
    BY <2>4 DEF Lifecycle, PluginInit, DeInit, OnGuiClosed, DestructorStops,
                DialogDeleted, Deletes
  <2> QED BY <2>1, <2>2, <2>3, <2>4 DEF Next, Modals, Handler
<1>2. window' \in {"none", "hidden", "shown"}
  <2>1. CASE Handler
    BY <2>1, HandlerRestarts DEF RestartsAtMost
  <2>2. CASE Dialog /\ ~Handler
    BY <2>2 DEF Dialog, Handler, UserStep, GuiThread, SupervisorThread,
                OnButtonClick_startStream, OnButtonClick_stopStream, StopReturned,
                RestartStarts, ProcessEvent, SupervisorReports, MessageArrives,
                SupervisorExits
  <2>3. CASE Window
    BY <2>3 DEF Window, ToolbarShows, ToolbarHides, OnClose, OnGuiClosed,
                StoppedOnLeaving
  <2>4. CASE Lifecycle
    BY <2>4 DEF Lifecycle, PluginInit, DeInit, OnGuiClosed, DestructorStops,
                DialogDeleted, Deletes
  <2> QED BY <2>1, <2>2, <2>3, <2>4 DEF Next, Modals, Handler
<1>3. modal' \in {"none", "preferences", "menu"}
  <2>1. CASE Dialog
    BY <2>1 DEF Dialog, UserStep, GuiThread, SupervisorThread,
                OnButtonClick_startStream, OnButtonClick_stopStream, StopReturned,
                RestartStarts, ProcessEvent, SupervisorReports, MessageArrives,
                SupervisorExits, OnCheckBox_FollowBoatMode,
                OnScroll_UpdateSearchBoxSize,
                OnScrollThumbRelease_UpdateSearchBoxSize, OnButtonClick_AddMmsiToList,
                OnButtonClick_DeleteMmsiFromList, OnButtonClick_ClearMmsiList, EditMmsi,
                EditName, activateVesselFollowingOnCheckBox, ChangesVessels
  <2>2. CASE Window
    BY <2>2 DEF Window, ToolbarShows, ToolbarHides, OnClose, OnGuiClosed,
                StoppedOnLeaving
  <2>3. CASE Lifecycle
    BY <2>3 DEF Lifecycle, PluginInit, DeInit, OnGuiClosed, DestructorStops,
                DialogDeleted, Deletes
  <2>4. CASE Modals \/ SetPositionFix
    BY <2>4 DEF Modals, OpensModal, OnApply, OnOK, OnCancel, UpdateToCursor,
                UpdateToBoat, SetPositionFix
  <2> QED BY <2>1, <2>2, <2>3, <2>4 DEF Next
<1> QED BY <1>1, <1>2, <1>3

(* The types, for every payload, position and slider value: the queue holds  *)
(* only states the label knows and complete AIVDM sentences.                *)
THEOREM PluginTypeCorrect == Spec => []TypeOK
<1>1. Init => SizesInv /\ ControlInv
  <2> SUFFICES ASSUME Init PROVE SizesInv /\ ControlInv
    OBVIOUS
  <2>1. /\ DefaultSettings.lastSearchBoxSize \in 0..20
        /\ SavedConfig(DefaultSettings).lastSearchBoxSize \in 0..20
    BY DEF DefaultSettings, SavedConfig
  <2> QED BY <2>1, NewDialogTypes DEF Init, GuiInit, SettingsInit, SizesInv, ControlInv
<1>2. PluginInv /\ SizesInv /\ ControlInv /\ [Next]_vars => (SizesInv /\ ControlInv)'
  <2> SUFFICES ASSUME PluginInv, SizesInv, ControlInv, [Next]_vars
               PROVE  SizesInv' /\ ControlInv'
    OBVIOUS
  <2>1. CASE Next
    BY <2>1, SizesStep, ControlStep DEF PluginInv
  <2>2. CASE UNCHANGED vars
    BY <2>2 DEF SizesInv, ControlInv, vars, guiVars, settingsVars
  <2> QED BY <2>1, <2>2
<1>3. SizesInv /\ ControlInv /\ LabelInv => TypeOK
  BY DEF SizesInv, ControlInv, LabelInv, EventsInv, TypeOK, DialogTypeOK
<1> QED BY <1>1, <1>2, <1>3, PluginInvariance, LabelInvariance, PTL DEF Spec

-----------------------------------------------------------------------------
(***************************************************************************)
(* The plugin's side of the contract.                                      *)
(***************************************************************************)
UsesClient == Stream!Next \/ UNCHANGED streamVars

(* The dialog's client is replaced when its supervisor is gone.             *)
ReplacesClient == ~alive /\ Stream!Init'

(* A message is reported as a rejection, or not at all.                     *)
LEMMA MessageUsesClient ==
  ASSUME MessageArrives
  PROVE  UsesClient
BY DEF MessageArrives, UsesClient, Stream!Next

(* Handlers, the window and both threads keep to the contract.              *)
LEMMA EveryStepUsesClient ==
  ASSUME PluginInv, Next
  PROVE  UsesClient \/ ReplacesClient
<1> USE DEF UsesClient, streamVars, settingsVars, PluginInv
<1>1. CASE Handler
  <2>1. RestartsAtMost
    BY <1>1, HandlerRestarts
  <2> QED BY <2>1 DEF RestartsAtMost, Stream!Next
<1>2. CASE OnButtonClick_startStream
  <2>1. StartClient(TokenSet(settings))
    BY <1>2 DEF OnButtonClick_startStream
  <2>2. Stream!Start
    BY <2>1, TokenSetTogether, StartStarts DEF TokenInv
  <2> QED BY <2>2 DEF Stream!Next
<1>3. CASE RestartStarts
  <2>1. StartClient(client)
    BY <1>3 DEF RestartStarts
  <2>2. Stream!Start
    BY <2>1, StartStarts DEF TokenInv, TokenIsNeverMissing
  <2> QED BY <2>2 DEF Stream!Next
<1>4. CASE OnButtonClick_stopStream
  BY <1>4 DEF OnButtonClick_stopStream, Stream!Next
<1>5. CASE StopReturned
  BY <1>5 DEF StopReturned, Stream!Next
<1>6. CASE ProcessEvent
  BY <1>6 DEF ProcessEvent
<1>7. CASE SupervisorReports
  BY <1>7 DEF SupervisorReports, Stream!Next
<1>8. CASE MessageArrives
  BY <1>8, MessageUsesClient
<1>9. CASE SupervisorExits
  BY <1>9 DEF SupervisorExits, Stream!Next
<1>10. CASE Window
  BY <1>10 DEF Window, ToolbarShows, ToolbarHides, OnClose, OnGuiClosed,
               StoppedOnLeaving, Stream!Next
<1>11. CASE PluginInit \/ DeInit \/ DestructorStops
  BY <1>11 DEF PluginInit, DeInit, OnGuiClosed, DestructorStops, Stream!Next
<1>12. CASE DialogDeleted
  BY <1>12 DEF DialogDeleted, Deletes, ReplacesClient, Stream!Init
<1> QED BY <1>1, <1>2, <1>3, <1>4, <1>5, <1>6, <1>7, <1>8, <1>9, <1>10, <1>11, <1>12
        DEF Next, Dialog, UserStep, GuiThread, SupervisorThread, Lifecycle, Modals,
            Handler

(* Plugin and dialog see of their client what StreamReports promises, and    *)
(* call it when it allows it: no start before the last supervisor is gone   *)
(* (RestartAisStream()), no second stop, no rejection out of the blue.  A   *)
(* client is not replaced before its supervisor is gone (~DialogMainGui()). *)
THEOREM ClientUsedByContract ==
  Spec => Stream!Init /\ [][Stream!Next \/ ReplacesClient]_streamVars
<1>1. Init => Stream!Init
  BY DEF Init, GuiInit
<1>2. PluginInv /\ [Next]_vars => [Stream!Next \/ ReplacesClient]_streamVars
  <2> SUFFICES ASSUME PluginInv, [Next]_vars
               PROVE  [Stream!Next \/ ReplacesClient]_streamVars
    OBVIOUS
  <2>1. CASE Next
    BY <2>1, EveryStepUsesClient DEF UsesClient
  <2>2. CASE UNCHANGED vars
    BY <2>2 DEF vars, guiVars, streamVars
  <2> QED BY <2>1, <2>2
<1> QED BY <1>1, <1>2, PluginInvariance, PTL DEF Spec
=============================================================================
