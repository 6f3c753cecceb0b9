--------------------------- MODULE Vessels_proofs ---------------------------
(***************************************************************************)
(* Theorems about the followed vessels: the two lists of the settings, the  *)
(* rows of the dialog's widget and what the configuration keeps of them,    *)
(* for every number of vessels and every names.                             *)
(***************************************************************************)
EXTENDS Plugin_proofs, Lists_proofs

-----------------------------------------------------------------------------
(***************************************************************************)
(* The rows that show a list of vessels and a list of names, and what a     *)
(* change of both lists does to them.                                       *)
(***************************************************************************)
Rows(m, n) == [i \in 1..Len(m) |-> <<m[i], n[i]>>]

(* There is a row for each vessel. *)
LEMMA RowsList ==
  ASSUME NEW m, IsList(m), NEW n
  PROVE  /\ IsList(Rows(m, n)) /\ Len(Rows(m, n)) = Len(m)
         /\ DOMAIN Rows(m, n) = 1..Len(m)
         /\ \A i \in 1..Len(m) : Rows(m, n)[i] = <<m[i], n[i]>>
<1>1. Len(m) \in Nat  BY DEF IsList
<1>2. Rows(m, n) = [i \in 1..Len(m) |-> Rows(m, n)[i]]  BY DEF Rows
<1>3. IsList(Rows(m, n)) /\ Len(Rows(m, n)) = Len(m)
  BY <1>1, <1>2, FunctionIsList
<1> QED BY <1>3 DEF Rows

(* A vessel is added (OnButtonClick_AddMmsiToList()). *)
LEMMA RowsAppend ==
  ASSUME NEW m, IsList(m), NEW n, IsList(n), Len(n) = Len(m), NEW e, NEW x
  PROVE  Append(Rows(m, n), <<e, x>>) = Rows(Append(m, e), Append(n, x))
<1> DEFINE a == Append(Rows(m, n), <<e, x>>)
           b == Rows(Append(m, e), Append(n, x))
<1>1. Len(m) \in Nat  BY DEF IsList
<1>2. /\ IsList(a) /\ Len(a) = Len(m) + 1
      /\ \A i \in 1..Len(m) : a[i] = <<m[i], n[i]>>
      /\ a[Len(m) + 1] = <<e, x>>
  BY RowsList, AppendList
<1>3. /\ IsList(Append(m, e)) /\ Len(Append(m, e)) = Len(m) + 1
      /\ \A i \in 1..Len(m) : Append(m, e)[i] = m[i]
      /\ Append(m, e)[Len(m) + 1] = e
      /\ \A i \in 1..Len(m) : Append(n, x)[i] = n[i]
      /\ Append(n, x)[Len(m) + 1] = x
  BY AppendList
<1>4. /\ IsList(b) /\ Len(b) = Len(m) + 1
      /\ \A i \in 1..Len(m) + 1 : b[i] = <<Append(m, e)[i], Append(n, x)[i]>>
  <2> DEFINE c == Append(m, e)
             d == Append(n, x)
  <2>1. IsList(c) /\ Len(c) = Len(m) + 1
    BY <1>3
  <2> HIDE DEF c, d
  <2>2. /\ IsList(Rows(c, d)) /\ Len(Rows(c, d)) = Len(m) + 1
        /\ \A i \in 1..Len(m) + 1 : Rows(c, d)[i] = <<c[i], d[i]>>
    BY <2>1, RowsList
  <2> QED BY <2>2 DEF c, d
<1> HIDE DEF a, b
<1>5. \A i \in 1..Len(m) + 1 : i \in 1..Len(m) \/ i = Len(m) + 1
  BY <1>1
<1>6. \A i \in 1..Len(m) + 1 : a[i] = b[i]
  BY <1>1, <1>2, <1>3, <1>4, <1>5
<1>7. a = b
  BY <1>2, <1>4, <1>6, ListEqual
<1> QED BY <1>7 DEF a, b

(* A row is deleted (OnButtonClick_DeleteMmsiFromList()). *)
LEMMA RowsRemoveAt ==
  ASSUME NEW m, IsList(m), NEW n, IsList(n), Len(n) = Len(m), NEW r \in 1..Len(m)
  PROVE  RemoveAt(Rows(m, n), r) = Rows(RemoveAt(m, r), RemoveAt(n, r))
<1> DEFINE a == RemoveAt(Rows(m, n), r)
           b == Rows(RemoveAt(m, r), RemoveAt(n, r))
<1>1. Len(m) \in Nat /\ r \in Nat  BY DEF IsList
<1>2. /\ IsList(a) /\ Len(a) = Len(m) - 1
      /\ \A i \in 1..Len(m) - 1 : a[i] = IF i < r THEN Rows(m, n)[i] ELSE Rows(m, n)[i + 1]
  BY RowsList, RemoveAtList
<1>3. /\ IsList(RemoveAt(m, r)) /\ Len(RemoveAt(m, r)) = Len(m) - 1
      /\ \A i \in 1..Len(m) - 1 : RemoveAt(m, r)[i] = IF i < r THEN m[i] ELSE m[i + 1]
      /\ \A i \in 1..Len(m) - 1 : RemoveAt(n, r)[i] = IF i < r THEN n[i] ELSE n[i + 1]
  BY RemoveAtList
<1>4. /\ IsList(b) /\ Len(b) = Len(m) - 1
      /\ \A i \in 1..Len(m) - 1 : b[i] = <<RemoveAt(m, r)[i], RemoveAt(n, r)[i]>>
  BY <1>3, RowsList
<1> HIDE DEF a, b
<1>5. ASSUME NEW i \in 1..Len(m) - 1 PROVE a[i] = b[i]
  <2>1. i \in 1..Len(m) /\ i + 1 \in 1..Len(m)
    BY <1>1
  <2>2. /\ Rows(m, n)[i] = <<m[i], n[i]>>
        /\ Rows(m, n)[i + 1] = <<m[i + 1], n[i + 1]>>
    BY <2>1, RowsList
  <2> QED BY <1>2, <1>3, <1>4, <2>2
<1>6. a = b
  BY <1>2, <1>4, <1>5, ListEqual
<1> QED BY <1>6 DEF a, b

(* The cells of a row are written one by one. *)
LEMMA Cells ==
  ASSUME NEW x, NEW y, NEW e
  PROVE  /\ [<<x, y>> EXCEPT ![1] = e] = <<e, y>>
         /\ [<<x, y>> EXCEPT ![2] = e] = <<x, e>>
         /\ <<x, y>>[1] = x
OBVIOUS

(* The number in a row is edited. *)
LEMMA RowsReplaceAt ==
  ASSUME NEW m, IsList(m), NEW n, NEW r \in 1..Len(m), NEW e
  PROVE  [Rows(m, n) EXCEPT ![r][1] = e] = Rows(ReplaceAt(m, r, e), n)
<1> DEFINE a == [Rows(m, n) EXCEPT ![r][1] = e]
           b == Rows(ReplaceAt(m, r, e), n)
<1> DEFINE q == Rows(m, n)
<1>1. /\ DOMAIN a = 1..Len(m) /\ a = [i \in 1..Len(m) |-> a[i]]
      /\ a[r] = [<<m[r], n[r]>> EXCEPT ![1] = e]
      /\ \A i \in 1..Len(m) : i # r => a[i] = <<m[i], n[i]>>
  <2>1. DOMAIN q = 1..Len(m) /\ \A i \in 1..Len(m) : q[i] = <<m[i], n[i]>>
    BY RowsList
  <2> HIDE DEF q
  <2>2. a = [i \in DOMAIN q |-> IF i = r THEN [q[r] EXCEPT ![1] = e] ELSE q[i]]
    BY DEF q
  <2> QED BY <2>1, <2>2
<1>2. /\ IsList(ReplaceAt(m, r, e)) /\ Len(ReplaceAt(m, r, e)) = Len(m)
      /\ \A i \in 1..Len(m) : ReplaceAt(m, r, e)[i] = IF i = r THEN e ELSE m[i]
  BY ReplaceAtList
<1>3. b = [i \in 1..Len(m) |-> <<ReplaceAt(m, r, e)[i], n[i]>>]
  BY <1>2 DEF Rows
<1> HIDE DEF a
<1>4. \A i \in 1..Len(m) : a[i] = <<ReplaceAt(m, r, e)[i], n[i]>>
  <2>1. a[r] = <<e, n[r]>>
    BY <1>1, Cells
  <2> QED BY <1>1, <1>2, <2>1
<1>5. a = [i \in 1..Len(m) |-> a[i]]
  BY <1>1
<1> HIDE DEF b
<1>6. a = b
  BY <1>3, <1>4, <1>5
<1> QED BY <1>6 DEF a, b

(* The name in a row is edited. *)
LEMMA RowsRename ==
  ASSUME NEW m, IsList(m), NEW n, IsList(n), Len(n) = Len(m), NEW r \in 1..Len(m), NEW x
  PROVE  [Rows(m, n) EXCEPT ![r][2] = x] = Rows(m, ReplaceAt(n, r, x))
<1> DEFINE a == [Rows(m, n) EXCEPT ![r][2] = x]
           k == ReplaceAt(n, r, x)
           b == Rows(m, k)
<1> DEFINE q == Rows(m, n)
<1>1. /\ DOMAIN a = 1..Len(m) /\ a = [i \in 1..Len(m) |-> a[i]]
      /\ a[r] = [<<m[r], n[r]>> EXCEPT ![2] = x]
      /\ \A i \in 1..Len(m) : i # r => a[i] = <<m[i], n[i]>>
  <2>1. DOMAIN q = 1..Len(m) /\ \A i \in 1..Len(m) : q[i] = <<m[i], n[i]>>
    BY RowsList
  <2> HIDE DEF q
  <2>2. a = [i \in DOMAIN q |-> IF i = r THEN [q[r] EXCEPT ![2] = x] ELSE q[i]]
    BY DEF q
  <2> QED BY <2>1, <2>2
<1>2. \A i \in 1..Len(m) : k[i] = IF i = r THEN x ELSE n[i]
  BY ReplaceAtList
<1> HIDE DEF a, k
<1>3. b = [i \in 1..Len(m) |-> <<m[i], k[i]>>]
  BY DEF Rows
<1>4. \A i \in 1..Len(m) : a[i] = <<m[i], k[i]>>
  <2>1. a[r] = <<m[r], x>>
    BY <1>1, Cells
  <2> QED BY <1>1, <1>2, <2>1
<1>5. a = b
  BY <1>1, <1>3, <1>4
<1> QED BY <1>5 DEF a, b, k

-----------------------------------------------------------------------------
(***************************************************************************)
(* The invariant.                                                          *)
(***************************************************************************)
Valid(m) == \A i \in DOMAIN m : ValidMmsi(m[i])

(* Two lists of the same length, of distinct numbers that could be loaded. *)
ListsInv(m, n) ==
  /\ IsList(m) /\ IsList(n) /\ Len(n) = Len(m)
  /\ Distinct(m) /\ Valid(m)

(* The configuration has no list of names, but their text. *)
SavedListInv(m) == IsList(m) /\ Distinct(m) /\ Valid(m)

VesselsInv ==
  /\ ListsInv(settings.mmsiList, settings.mmsiListNames)
  /\ SavedListInv(config.mmsiList)
  /\ window # "none" =>
       dialog.rows = Rows(settings.mmsiList, settings.mmsiListNames)
  /\ window = "none" => ~toolbar.isToolbarActive

(* The actions that change one of the lists, the rows or what is saved. *)
ChangesLists ==
  \/ OnButtonClick_AddMmsiToList \/ OnButtonClick_DeleteMmsiFromList
  \/ OnButtonClick_ClearMmsiList \/ EditMmsi \/ EditName
  \/ PluginInit \/ ToolbarShows \/ DialogDeleted \/ OnOK \/ DeInit

(* A new vessel that is in the list of neither number. *)
LEMMA ListsAppend ==
  ASSUME NEW m, NEW n, ListsInv(m, n), NEW e, ValidMmsi(e), ~Contains(m, e), NEW x
  PROVE  ListsInv(Append(m, e), Append(n, x))
<1> DEFINE a == Append(m, e)
           b == Append(n, x)
<1>1. IsList(m) /\ IsList(n) /\ Len(n) = Len(m) /\ Distinct(m) /\ Valid(m)
  BY DEF ListsInv
<1>2. /\ IsList(a) /\ Len(a) = Len(m) + 1
      /\ \A i \in 1..Len(m) : a[i] = m[i]
      /\ a[Len(m) + 1] = e
      /\ IsList(b) /\ Len(b) = Len(m) + 1
  BY <1>1, AppendList
<1>3. Distinct(a)
  BY <1>1, DistinctAppend
<1> HIDE DEF a, b
<1>4. Valid(a)
  <2>1. Len(m) \in Nat /\ DOMAIN a = 1..Len(m) + 1 /\ DOMAIN m = 1..Len(m)
    BY <1>1, <1>2 DEF IsList
  <2>2. \A i \in 1..Len(m) + 1 : i \in 1..Len(m) \/ i = Len(m) + 1
    BY <2>1
  <2> QED BY <1>1, <1>2, <2>1, <2>2 DEF Valid
<1>5. ListsInv(a, b)
  BY <1>2, <1>3, <1>4 DEF ListsInv
<1> QED BY <1>5 DEF a, b

(* A vessel less. *)
LEMMA ListsRemoveAt ==
  ASSUME NEW m, NEW n, ListsInv(m, n), NEW r \in 1..Len(m)
  PROVE  ListsInv(RemoveAt(m, r), RemoveAt(n, r))
<1> DEFINE a == RemoveAt(m, r)
           b == RemoveAt(n, r)
<1>1. IsList(m) /\ IsList(n) /\ Len(n) = Len(m) /\ Distinct(m) /\ Valid(m)
  BY DEF ListsInv
<1>2. /\ IsList(a) /\ Len(a) = Len(m) - 1
      /\ \A i \in 1..Len(a) : a[i] = IF i < r THEN m[i] ELSE m[i + 1]
  BY <1>1, RemoveAtList
<1>3. IsList(b) /\ Len(b) = Len(m) - 1
  BY <1>1, RemoveAtList
<1>4. Distinct(a)
  BY <1>1, DistinctRemoveAt
<1> HIDE DEF a, b
<1>5. Valid(a)
  <2>1. Len(m) \in Nat /\ DOMAIN a = 1..Len(m) - 1 /\ DOMAIN m = 1..Len(m)
    BY <1>1, <1>2 DEF IsList
  <2>2. \A i \in 1..Len(m) - 1 : i \in 1..Len(m) /\ i + 1 \in 1..Len(m)
    BY <2>1
  <2> QED BY <1>1, <1>2, <2>1, <2>2 DEF Valid
<1>6. ListsInv(a, b)
  BY <1>2, <1>3, <1>4, <1>5 DEF ListsInv
<1> QED BY <1>6 DEF a, b

(* A number that no other row has. *)
LEMMA ListsReplaceAt ==
  ASSUME NEW m, NEW n, ListsInv(m, n), NEW r \in 1..Len(m), NEW e, ValidMmsi(e),
         \A i \in DOMAIN m \ {r} : m[i] # e
  PROVE  ListsInv(ReplaceAt(m, r, e), n)
<1> DEFINE a == ReplaceAt(m, r, e)
<1>1. IsList(m) /\ IsList(n) /\ Len(n) = Len(m) /\ Distinct(m) /\ Valid(m)
  BY DEF ListsInv
<1>2. /\ IsList(a) /\ Len(a) = Len(m)
      /\ \A i \in 1..Len(m) : a[i] = IF i = r THEN e ELSE m[i]
  BY <1>1, ReplaceAtList
<1>3. Distinct(a)
  BY <1>1, DistinctReplaceAt
<1> HIDE DEF a
<1>4. Valid(a)
  BY <1>1, <1>2 DEF Valid, IsList
<1>5. ListsInv(a, n)
  BY <1>1, <1>2, <1>3, <1>4 DEF ListsInv
<1> QED BY <1>5 DEF a

(* LoadSettings(): a name for each number that is valid, whatever the saved  *)
(* text of the names.                                                       *)
LEMMA LoadedLists ==
  ASSUME NEW c, SavedListInv(c.mmsiList),
         DOMAIN c = {"keepWindowActive", "lastSearchBoxSize", "openWatersToken",
                     "activateVesselsFollowing", "mmsiList", "mmsiListNames"}
  PROVE  ListsInv(LoadedSettings(c).mmsiList, LoadedSettings(c).mmsiListNames)
<1> DEFINE m == c.mmsiList
           parts == Tokenized(c.mmsiListNames)
           names == [i \in DOMAIN m |-> <<IF i =< Len(parts) THEN parts[i] ELSE "">>]
           valid == {i \in DOMAIN m : ValidMmsi(m[i])}
<1>1. /\ LoadedSettings(c).mmsiList = Kept(m, valid)
      /\ LoadedSettings(c).mmsiListNames = Kept(names, valid)
  BY DEF LoadedSettings
<1>2. IsList(m) /\ Distinct(m) /\ DOMAIN m = 1..Len(m) /\ Len(m) \in Nat
  BY DEF SavedListInv, IsList
<1>3. names = [i \in 1..Len(m) |-> names[i]]
  BY <1>2
<1>4. valid \in SUBSET (1..Len(m))
  BY <1>2
<1>5. \A i \in valid : ValidMmsi(m[i])
  OBVIOUS
<1> HIDE DEF m, names, valid
<1>6. IsList(names) /\ Len(names) = Len(m)
  BY <1>2, <1>3, FunctionIsList
<1>7. /\ IsList(Kept(m, valid)) /\ Len(Kept(m, valid)) = Cardinality(valid)
      /\ \A i \in 1..Cardinality(valid) :
           Ascending(valid)[i] \in valid /\ Kept(m, valid)[i] = m[Ascending(valid)[i]]
  BY <1>2, <1>4, KeptList
<1>8. IsList(Kept(names, valid)) /\ Len(Kept(names, valid)) = Cardinality(valid)
  BY <1>4, <1>6, KeptList
<1>9. Distinct(Kept(m, valid))
  BY <1>2, <1>4, DistinctKept
<1>10. Valid(Kept(m, valid))
  BY <1>5, <1>7 DEF Valid, IsList
<1> QED BY <1>1, <1>7, <1>8, <1>9, <1>10 DEF ListsInv

(* The constructor fills the widget with the lists.                         *)
LEMMA NewDialogRows ==
  ASSUME NEW s, ListsInv(s.mmsiList, s.mmsiListNames)
  PROVE  NewDialog(s).rows = Rows(s.mmsiList, s.mmsiListNames)
<1> DEFINE m == s.mmsiList
           n == s.mmsiListNames
<1>1. DOMAIN m = 1..Len(m) /\ Len(m) \in Nat /\ Len(n) = Len(m)
  BY DEF ListsInv, IsList
<1>2. NewDialog(s).rows =
        [i \in DOMAIN m |-> <<m[i], IF i =< Len(n) THEN n[i] ELSE <<"">> >>]
  BY DEF NewDialog, Resized
<1> HIDE DEF m, n
<1>3. [i \in DOMAIN m |-> <<m[i], IF i =< Len(n) THEN n[i] ELSE <<"">> >>] = Rows(m, n)
  BY <1>1 DEF Rows
<1> QED BY <1>2, <1>3 DEF m, n

(* What the invariant is about. *)
Lists == <<settings.mmsiList, settings.mmsiListNames, config.mmsiList, dialog.rows>>

(* The other actions leave the lists and the rows alone, and neither create *)
(* nor delete a dialog.                                                     *)
LEMMA OthersKeepLists ==
  ASSUME PluginInv, VesselsInv, Next, ~ChangesLists
  PROVE  /\ UNCHANGED Lists
         /\ window = "none" => window' = "none" /\ ~toolbar'.isToolbarActive
         /\ window # "none" => window' # "none"
<1> USE DEF ChangesLists, Lists, PluginInv, FieldsInv, settingsVars, ChangesArea
<1>1. window = "none" => ~toolbar.isToolbarActive
  BY DEF VesselsInv
<1>2. CASE Handler
  <2>1. UNCHANGED <<window, toolbar>>
    BY <1>2, HandlerRestarts DEF RestartsAtMost
  <2> USE <1>1, <2>1
  <2>2. CASE OnCheckBox_FollowBoatMode
    BY <2>2 DEF OnCheckBox_FollowBoatMode, activateFollowBoatMode
  <2>3. CASE OnScroll_UpdateSearchBoxSize
    BY <2>3 DEF OnScroll_UpdateSearchBoxSize
  <2>4. CASE OnScrollThumbRelease_UpdateSearchBoxSize
    BY <2>4 DEF OnScrollThumbRelease_UpdateSearchBoxSize, Resized
  <2>5. CASE activateVesselFollowingOnCheckBox
    BY <2>5 DEF activateVesselFollowingOnCheckBox
  <2>6. CASE OpensModal       BY <2>6 DEF OpensModal
  <2>7. CASE OnApply          BY <2>7 DEF OnApply, UpdatedSettings
  <2>8. CASE OnCancel         BY <2>8 DEF OnCancel
  <2>9. CASE UpdateToCursor   BY <2>9 DEF UpdateToCursor, updateSearchZoneOnCoord
  <2>10. CASE UpdateToBoat    BY <2>10 DEF UpdateToBoat, activateFollowBoatMode
  <2>11. CASE SetPositionFix  BY <2>11 DEF SetPositionFix, updateBoatPosition
  <2> QED BY <1>2, <2>2, <2>3, <2>4, <2>5, <2>6, <2>7, <2>8, <2>9, <2>10, <2>11
          DEF Handler
<1>3. CASE (OnButtonClick_startStream \/ OnButtonClick_stopStream) /\ UNCHANGED toolbar
  BY <1>1, <1>3 DEF OnButtonClick_startStream, OnButtonClick_stopStream
<1>4. CASE (StopReturned \/ RestartStarts \/ ProcessEvent) /\ UNCHANGED toolbar
  BY <1>1, <1>4 DEF StopReturned, RestartStarts, ProcessEvent
<1>5. CASE SupervisorThread /\ UNCHANGED toolbar
  BY <1>1, <1>5 DEF SupervisorThread, SupervisorReports, MessageArrives, SupervisorExits
<1>6. CASE ToolbarHides
  BY <1>1, <1>6 DEF ToolbarHides
<1>7. CASE OnClose
  BY <1>1, <1>7 DEF OnClose, OnGuiClosed, UserMay
<1>8. CASE StoppedOnLeaving
  BY <1>1, <1>8 DEF StoppedOnLeaving, WindowInv
<1>9. CASE DestructorStops
  BY <1>1, <1>9 DEF DestructorStops
<1> QED BY <1>2, <1>3, <1>4, <1>5, <1>6, <1>7, <1>8, <1>9
        DEF Next, Dialog, UserStep, GuiThread, Window, Lifecycle, Modals, Handler

(* What is saved of a list of vessels is the list.                          *)
LEMMA SavedLists ==
  ASSUME NEW s,
         DOMAIN s = {"keepWindowActive", "lastSearchBoxSize", "openWatersToken",
                     "activateVesselsFollowing", "mmsiList", "mmsiListNames"}
  PROVE  /\ SavedConfig(s).mmsiList = s.mmsiList
         /\ SavedConfig(WithBoxSize(s)).mmsiList = s.mmsiList
         /\ WithBoxSize(s).mmsiList = s.mmsiList
         /\ WithBoxSize(s).mmsiListNames = s.mmsiListNames
BY DEF SavedConfig, WithBoxSize

(* Every change of the lists is made in the widget too, and at the same      *)
(* place.                                                                   *)
LEMMA VesselsStep ==
  ASSUME PluginInv, VesselsInv, Next
  PROVE  VesselsInv'
<1> DEFINE m == settings.mmsiList
           n == settings.mmsiListNames
<1> USE DEF PluginInv, FieldsInv
<1>1. ListsInv(m, n) /\ SavedListInv(config.mmsiList)
  BY DEF VesselsInv
<1>2. IsList(m) /\ IsList(n) /\ Len(n) = Len(m)
  BY <1>1 DEF ListsInv
<1>3. window # "none" => dialog.rows = Rows(m, n) /\ DOMAIN dialog.rows = 1..Len(m)
  BY <1>2, RowsList DEF VesselsInv
<1>4. SUFFICES ASSUME ChangesLists PROVE VesselsInv'
  <2> SUFFICES ASSUME ~ChangesLists PROVE VesselsInv'
    OBVIOUS
  <2>1. /\ UNCHANGED Lists
        /\ window = "none" => window' = "none" /\ ~toolbar'.isToolbarActive
        /\ window # "none" => window' # "none"
    BY OthersKeepLists
  <2>2. /\ settings'.mmsiList = m /\ settings'.mmsiListNames = n
        /\ config'.mmsiList = config.mmsiList /\ dialog'.rows = dialog.rows
    BY <2>1 DEF Lists
  <2> QED BY <2>1, <2>2, <1>1, <1>3 DEF VesselsInv
<1>5. CASE OnButtonClick_AddMmsiToList
  <2>1. window = "shown" /\ window' = window
    BY <1>5 DEF OnButtonClick_AddMmsiToList, UserMay, ChangesVessels, ChangesArea
  <2>2. PICK e \in Mmsis, x \in Names :
          /\ ValidMmsi(e) /\ ~Contains(m, e)
          /\ ChangesVessels(Append(m, e), Append(n, x), Append(dialog.rows, <<e, x>>))
    BY <1>5 DEF OnButtonClick_AddMmsiToList
  <2>3. /\ settings'.mmsiList = Append(m, e)
        /\ settings'.mmsiListNames = Append(n, x)
        /\ dialog'.rows = Append(dialog.rows, <<e, x>>)
        /\ UNCHANGED config
    BY <2>2 DEF ChangesVessels, ChangesArea
  <2>4. ListsInv(Append(m, e), Append(n, x))
    BY <1>1, <2>2, ListsAppend
  <2>5. Append(dialog.rows, <<e, x>>) = Rows(Append(m, e), Append(n, x))
    BY <1>2, <1>3, <2>1, RowsAppend
  <2> QED BY <1>1, <2>1, <2>3, <2>4, <2>5 DEF VesselsInv
<1>6. CASE OnButtonClick_DeleteMmsiFromList
  <2>1. window = "shown" /\ window' = window
    BY <1>6 DEF OnButtonClick_DeleteMmsiFromList, UserMay, ChangesVessels, ChangesArea
  <2>2. PICK r \in DOMAIN dialog.rows :
          ChangesVessels(RemoveAt(m, r), RemoveAt(n, r), RemoveAt(dialog.rows, r))
    BY <1>6 DEF OnButtonClick_DeleteMmsiFromList
  <2>3. /\ settings'.mmsiList = RemoveAt(m, r)
        /\ settings'.mmsiListNames = RemoveAt(n, r)
        /\ dialog'.rows = RemoveAt(dialog.rows, r)
        /\ UNCHANGED config
    BY <2>2 DEF ChangesVessels, ChangesArea
  <2>4. r \in 1..Len(m)
    BY <1>3, <2>1
  <2>5. ListsInv(RemoveAt(m, r), RemoveAt(n, r))
    BY <1>1, <2>4, ListsRemoveAt
  <2>6. RemoveAt(dialog.rows, r) = Rows(RemoveAt(m, r), RemoveAt(n, r))
    BY <1>2, <1>3, <2>1, <2>4, RowsRemoveAt
  <2> QED BY <1>1, <2>1, <2>3, <2>5, <2>6 DEF VesselsInv
<1>7. CASE OnButtonClick_ClearMmsiList
  <2>1. window = "shown" /\ window' = window
    BY <1>7 DEF OnButtonClick_ClearMmsiList, UserMay, ChangesVessels, ChangesArea
  <2>2. /\ settings'.mmsiList = <<>>
        /\ settings'.mmsiListNames = <<>>
        /\ dialog'.rows = <<>>
        /\ UNCHANGED config
    BY <1>7 DEF OnButtonClick_ClearMmsiList, ChangesVessels, ChangesArea
  <2>3. ListsInv(<<>>, <<>>) /\ Rows(<<>>, <<>>) = <<>>
    BY DEF ListsInv, IsList, Distinct, Valid, Rows
  <2> QED BY <1>1, <2>1, <2>2, <2>3 DEF VesselsInv
<1>8. CASE EditMmsi
  <2>1. window = "shown" /\ window' = window
    BY <1>8 DEF EditMmsi, UserMay, ChangesVessels, ChangesArea
  <2>2. PICK r \in DOMAIN dialog.rows, e \in Mmsis :
          IF ValidMmsi(e) /\ \A i \in DOMAIN m \ {r} : m[i] # e
          THEN ChangesVessels(ReplaceAt(m, r, e), n, [dialog.rows EXCEPT ![r][1] = e])
          ELSE /\ dialog' = [dialog EXCEPT !.rows[r][1] = m[r]]
               /\ UNCHANGED settingsVars
    BY <1>8 DEF EditMmsi
  <2>3. r \in 1..Len(m)
    BY <1>3, <2>1
  <2>4. CASE ValidMmsi(e) /\ \A i \in DOMAIN m \ {r} : m[i] # e
    <3>1. /\ settings'.mmsiList = ReplaceAt(m, r, e)
          /\ settings'.mmsiListNames = n
          /\ dialog'.rows = [dialog.rows EXCEPT ![r][1] = e]
          /\ UNCHANGED config
      BY <2>2, <2>4 DEF ChangesVessels, ChangesArea
    <3>2. ListsInv(ReplaceAt(m, r, e), n)
      BY <1>1, <2>3, <2>4, ListsReplaceAt
    <3>3. [dialog.rows EXCEPT ![r][1] = e] = Rows(ReplaceAt(m, r, e), n)
      BY <1>2, <1>3, <2>1, <2>3, RowsReplaceAt
    <3> QED BY <1>1, <2>1, <3>1, <3>2, <3>3 DEF VesselsInv
  <2>5. CASE ~(ValidMmsi(e) /\ \A i \in DOMAIN m \ {r} : m[i] # e)
    <3>1. dialog' = [dialog EXCEPT !.rows[r][1] = m[r]] /\ UNCHANGED settingsVars
      BY <2>2, <2>5
    <3>2. dialog'.rows = [dialog.rows EXCEPT ![r][1] = m[r]]
      BY <3>1
    <3>3. [dialog.rows EXCEPT ![r][1] = m[r]] = Rows(ReplaceAt(m, r, m[r]), n)
      BY <1>2, <1>3, <2>1, <2>3, RowsReplaceAt
    <3>4. ReplaceAt(m, r, m[r]) = m
      BY <1>2, <2>3, ReplaceAtList, ListEqual
    <3> QED BY <1>1, <2>1, <3>1, <3>2, <3>3, <3>4 DEF VesselsInv, settingsVars
  <2> QED BY <2>4, <2>5
<1>9. CASE EditName
  <2>1. window = "shown" /\ window' = window /\ UNCHANGED config
    BY <1>9 DEF EditName, UserMay
  <2>2. PICK r \in DOMAIN dialog.rows, x \in Names :
          /\ settings' = [settings EXCEPT !.mmsiListNames[r] = x]
          /\ dialog' = [dialog EXCEPT !.rows[r][2] = x]
    BY <1>9 DEF EditName
  <2>3. /\ settings'.mmsiList = m
        /\ settings'.mmsiListNames = ReplaceAt(n, r, x)
        /\ dialog'.rows = [dialog.rows EXCEPT ![r][2] = x]
    BY <2>2 DEF ReplaceAt
  <2>4. r \in 1..Len(m)
    BY <1>3, <2>1
  <2>5. [dialog.rows EXCEPT ![r][2] = x] = Rows(m, ReplaceAt(n, r, x))
    BY <1>2, <1>3, <2>1, <2>4, RowsRename
  <2>6. IsList(ReplaceAt(n, r, x)) /\ Len(ReplaceAt(n, r, x)) = Len(n)
    BY <1>2, <2>4, ReplaceAtList
  <2>7. ListsInv(m, ReplaceAt(n, r, x))
    BY <1>1, <2>6 DEF ListsInv
  <2> QED BY <1>1, <2>1, <2>3, <2>5, <2>7 DEF VesselsInv
<1>10. CASE PluginInit
  <2>1. /\ settings' = LoadedSettings(config)
        /\ window = "none" /\ UNCHANGED <<config, window, toolbar>>
    BY <1>10 DEF PluginInit, WindowInv
  <2>2. ListsInv(settings'.mmsiList, settings'.mmsiListNames)
    BY <1>1, <2>1, LoadedLists
  <2> QED BY <1>1, <2>1, <2>2 DEF VesselsInv
<1>11. CASE ToolbarShows
  <2>1. UNCHANGED <<settings, config>> /\ window' = "shown"
    BY <1>11 DEF ToolbarShows, settingsVars
  <2>2. dialog'.rows = Rows(m, n)
    BY <1>1, <1>3, <1>11, NewDialogRows DEF ToolbarShows
  <2> QED BY <1>1, <2>1, <2>2 DEF VesselsInv
<1>12. CASE DialogDeleted
  <2>1. /\ UNCHANGED <<settings, config>> /\ window' = "none"
        /\ ~toolbar'.isToolbarActive
    BY <1>12 DEF DialogDeleted, Deletes, settingsVars
  <2> QED BY <1>1, <2>1 DEF VesselsInv
<1>13. CASE OnOK
  <2>1. PICK keep \in BOOLEAN, token \in Tokens :
          LET s == UpdatedSettings(keep, token)
          IN /\ settings' = WithBoxSize(s)
             /\ SaveSettings(s)
             /\ IF window = "none"
                THEN UNCHANGED <<streamVars, client, queue, gui, window, dialog>>
                ELSE refreshTokenState(s)
    BY <1>13 DEF OnOK
  <2> DEFINE s == UpdatedSettings(keep, token)
  <2>2. /\ DOMAIN s = DOMAIN settings
        /\ s.mmsiList = m /\ s.mmsiListNames = n
    BY DEF UpdatedSettings
  <2> HIDE DEF s
  <2>3. settings' = WithBoxSize(s) /\ config' = SavedConfig(WithBoxSize(s))
    BY <2>1 DEF s, SaveSettings, WithBoxSize
  <2>4. settings'.mmsiList = m /\ settings'.mmsiListNames = n /\ config'.mmsiList = m
    BY <2>2, <2>3, SavedLists
  <2>5. dialog'.rows = dialog.rows /\ UNCHANGED <<window, toolbar>>
    BY <1>13, <2>1 DEF OnOK, refreshTokenState, ChangesArea, Resized
  <2>6. SavedListInv(m)
    BY <1>1 DEF ListsInv, SavedListInv
  <2> QED BY <1>1, <1>3, <2>4, <2>5, <2>6 DEF VesselsInv
<1>14. CASE DeInit
  <2>1. settings' = WithBoxSize(settings) /\ config' = SavedConfig(WithBoxSize(settings))
    BY <1>14 DEF DeInit, SaveSettings, WithBoxSize
  <2>2. settings'.mmsiList = m /\ settings'.mmsiListNames = n /\ config'.mmsiList = m
    BY <2>1, SavedLists
  <2>3. /\ dialog'.rows = dialog.rows
        /\ window = "none" => UNCHANGED <<window, toolbar>>
        /\ window # "none" => window' # "none"
    BY <1>14 DEF DeInit, OnGuiClosed
  <2>4. SavedListInv(m)
    BY <1>1 DEF ListsInv, SavedListInv
  <2> QED BY <1>1, <1>3, <2>2, <2>3, <2>4 DEF VesselsInv
<1> QED BY <1>4, <1>5, <1>6, <1>7, <1>8, <1>9, <1>10, <1>11, <1>12, <1>13, <1>14
        DEF ChangesLists

(* There are no vessels before the first Init().                            *)
LEMMA VesselsInitially == Init => VesselsInv
<1> SUFFICES ASSUME Init PROVE VesselsInv
  OBVIOUS
<1>1. /\ DefaultSettings.mmsiList = <<>>
      /\ DefaultSettings.mmsiListNames = <<>>
      /\ SavedConfig(DefaultSettings).mmsiList = <<>>
  BY DEF DefaultSettings, SavedConfig
<1>2. ListsInv(<<>>, <<>>) /\ SavedListInv(<<>>)
  BY DEF ListsInv, SavedListInv, IsList, Distinct, Valid
<1> QED BY <1>1, <1>2 DEF Init, GuiInit, SettingsInit, VesselsInv

(* The invariant of the vessels, however many there are.                    *)
THEOREM VesselsInvariance == Spec => []VesselsInv
<1>1. PluginInv /\ VesselsInv /\ [Next]_vars => VesselsInv'
  <2> SUFFICES ASSUME PluginInv, VesselsInv, [Next]_vars PROVE VesselsInv'
    OBVIOUS
  <2>1. CASE Next
    BY <2>1, VesselsStep
  <2>2. CASE UNCHANGED vars
    BY <2>2 DEF VesselsInv, vars, guiVars, settingsVars
  <2> QED BY <2>1, <2>2
<1> QED BY <1>1, VesselsInitially, PluginInvariance, PTL DEF Spec

(* Rows and entries of the two lists correspond, so that a row's number may *)
(* index them, and no vessel is listed twice (OnButtonClick_AddMmsiToList(), *)
(* the edits in the widget, LoadSettings()).                                *)
THEOREM RowsMatch == Spec => []RowsMatchVessels
<1>1. VesselsInv => RowsMatchVessels
  BY DEF VesselsInv, ListsInv, IsList, Distinct, Rows, RowsMatchVessels
<1> QED BY <1>1, VesselsInvariance, PTL

-----------------------------------------------------------------------------
(***************************************************************************)
(* The configuration: what DeInit() saves is what Init() loads.             *)
(***************************************************************************)
SettingsFields == {"keepWindowActive", "lastSearchBoxSize", "openWatersToken",
                   "activateVesselsFollowing", "mmsiList", "mmsiListNames"}

(* A record is its fields. *)
IsSettings(s) == s = [f \in SettingsFields |-> s[f]]

(* From DeInit() to the next Init() the configuration is up to date. *)
SavedInv ==
  /\ IsSettings(settings)
  /\ gui \in {"unloaded", "deinitClosing", "destroying", "deleting"} =>
       config = SavedConfig(settings)

(* Between DeInit() and Init() nothing changes the settings; in between,     *)
(* whatever does leaves a record.                                           *)
LEMMA SavedStep ==
  ASSUME FieldsInv, SavedInv, Next
  PROVE  SavedInv'
<1> USE DEF FieldsInv, SavedInv, IsSettings, SettingsFields, settingsVars
<1>1. CASE Handler
  <2>1. gui = "idle" /\ gui' \in {"idle", "restarting"}
    BY <1>1, HandlerRestarts DEF RestartsAtMost
  <2>2. CASE OnCheckBox_FollowBoatMode
    BY <2>1, <2>2 DEF OnCheckBox_FollowBoatMode
  <2>3. CASE OnScroll_UpdateSearchBoxSize \/ OnScrollThumbRelease_UpdateSearchBoxSize
    BY <2>1, <2>3 DEF OnScroll_UpdateSearchBoxSize, OnScrollThumbRelease_UpdateSearchBoxSize
  <2>4. CASE OnButtonClick_AddMmsiToList
    BY <2>1, <2>4 DEF OnButtonClick_AddMmsiToList, ChangesVessels
  <2>5. CASE OnButtonClick_DeleteMmsiFromList
    BY <2>1, <2>5 DEF OnButtonClick_DeleteMmsiFromList, ChangesVessels
  <2>6. CASE OnButtonClick_ClearMmsiList
    BY <2>1, <2>6 DEF OnButtonClick_ClearMmsiList, ChangesVessels
  <2>7. CASE EditMmsi
    BY <2>1, <2>7 DEF EditMmsi, ChangesVessels
  <2>8. CASE EditName
    BY <2>1, <2>8 DEF EditName
  <2>9. CASE activateVesselFollowingOnCheckBox
    BY <2>1, <2>9 DEF activateVesselFollowingOnCheckBox
  <2>10. CASE OnApply
    BY <2>1, <2>10 DEF OnApply, UpdatedSettings
  <2>11. CASE OnOK
    BY <2>1, <2>11 DEF OnOK, UpdatedSettings, WithBoxSize
  <2>12. CASE OpensModal \/ OnCancel \/ UpdateToCursor \/ UpdateToBoat \/ SetPositionFix
    BY <2>1, <2>12 DEF OpensModal, OnCancel, UpdateToCursor, UpdateToBoat, SetPositionFix
  <2> QED BY <1>1, <2>2, <2>3, <2>4, <2>5, <2>6, <2>7, <2>8, <2>9, <2>10, <2>11, <2>12
          DEF Handler
<1>2. CASE OnButtonClick_startStream \/ OnButtonClick_stopStream
  BY <1>2 DEF OnButtonClick_startStream, OnButtonClick_stopStream
<1>3. CASE StopReturned \/ RestartStarts \/ ProcessEvent
  BY <1>3 DEF StopReturned, RestartStarts, ProcessEvent
<1>4. CASE SupervisorThread
  BY <1>4 DEF SupervisorThread, SupervisorReports, MessageArrives, SupervisorExits
<1>5. CASE ToolbarShows \/ ToolbarHides
  BY <1>5 DEF ToolbarShows, ToolbarHides, Ready
<1>6. CASE OnClose
  BY <1>6 DEF OnClose, OnGuiClosed
<1>7. CASE StoppedOnLeaving
  BY <1>7 DEF StoppedOnLeaving
<1>8. CASE PluginInit
  BY <1>8 DEF PluginInit, LoadedSettings
<1>9. CASE DeInit
  <2>1. settings' = WithBoxSize(settings) /\ config' = SavedConfig(WithBoxSize(settings))
    BY <1>9 DEF DeInit, SaveSettings, WithBoxSize
  <2>2. IsSettings(WithBoxSize(settings))
    BY DEF WithBoxSize
  <2> QED BY <2>1, <2>2
<1>10. CASE DestructorStops \/ DialogDeleted
  BY <1>10 DEF DestructorStops, DialogDeleted, Deletes
<1> QED BY <1>1, <1>2, <1>3, <1>4, <1>5, <1>6, <1>7, <1>8, <1>9, <1>10
        DEF Next, Dialog, UserStep, GuiThread, Window, Lifecycle, Modals, Handler

(* The invariant of the saved settings.                                     *)
LEMMA SavedInvariance == Spec => []SavedInv
<1>1. Init => SavedInv
  BY DEF Init, SettingsInit, SavedInv, IsSettings, SettingsFields, DefaultSettings
<1>2. PluginInv /\ SavedInv /\ [Next]_vars => SavedInv'
  <2> SUFFICES ASSUME PluginInv, SavedInv, [Next]_vars PROVE SavedInv'
    OBVIOUS
  <2>1. CASE Next
    BY <2>1, SavedStep DEF PluginInv
  <2>2. CASE UNCHANGED vars
    BY <2>2 DEF SavedInv, vars, guiVars, settingsVars
  <2> QED BY <2>1, <2>2
<1> QED BY <1>1, <1>2, PluginInvariance, PTL DEF Spec

(* What is loaded of saved settings is saved settings: each vessel's number  *)
(* is valid, so none is dropped.                                            *)
LEMMA ReloadedList ==
  ASSUME NEW s, IsSettings(s), ListsInv(s.mmsiList, s.mmsiListNames)
  PROVE  LET c == SavedConfig(s)
             m == s.mmsiList
             parts == Tokenized(JoinedNames(s))
         IN /\ IsSettings(LoadedSettings(c))
            /\ \A f \in SettingsFields \ {"mmsiListNames"} : LoadedSettings(c)[f] = s[f]
            /\ LoadedSettings(c).mmsiListNames =
                 [i \in 1..Len(m) |-> <<IF i =< Len(parts) THEN parts[i] ELSE "">>]
<1> DEFINE c == SavedConfig(s)
           m == s.mmsiList
           parts == Tokenized(JoinedNames(s))
           names == [i \in DOMAIN m |-> <<IF i =< Len(parts) THEN parts[i] ELSE "">>]
           valid == {i \in DOMAIN m : ValidMmsi(m[i])}
<1>1. /\ DOMAIN c = SettingsFields /\ c.mmsiList = m
      /\ c.mmsiListNames = JoinedNames(s)
      /\ \A f \in SettingsFields \ {"mmsiListNames"} : c[f] = s[f]
  BY DEF SavedConfig, IsSettings, SettingsFields
<1>2. LoadedSettings(c) = [c EXCEPT !.mmsiList = Kept(m, valid),
                                    !.mmsiListNames = Kept(names, valid)]
  BY <1>1 DEF LoadedSettings
<1>3. IsList(m) /\ Len(m) \in Nat /\ DOMAIN m = 1..Len(m) /\ valid = 1..Len(m)
  BY DEF ListsInv, IsList, Valid
<1>4. IsList(names) /\ Len(names) = Len(m) /\ names = [i \in 1..Len(m) |-> names[i]]
  <2>1. names = [i \in 1..Len(m) |-> names[i]]
    BY <1>3
  <2> HIDE DEF names
  <2> QED BY <1>3, <2>1, FunctionIsList
<1>5. Kept(m, valid) = m
  BY <1>3, KeptAll
<1>6. Kept(names, valid) = names
  <2> HIDE DEF names
  <2> QED BY <1>3, <1>4, KeptAll
<1> HIDE DEF c, m, parts, valid
<1>7. LoadedSettings(c) = [c EXCEPT !.mmsiList = m, !.mmsiListNames = names]
  BY <1>2, <1>5, <1>6
<1>8. /\ IsSettings(LoadedSettings(c))
      /\ LoadedSettings(c).mmsiListNames = names
      /\ \A f \in SettingsFields \ {"mmsiListNames"} : LoadedSettings(c)[f] = c[f]
  <2> HIDE DEF names
  <2> QED BY <1>1, <1>7 DEF IsSettings, SettingsFields
<1>9. names = [i \in 1..Len(m) |-> <<IF i =< Len(parts) THEN parts[i] ELSE "">>]
  BY <1>3
<1> QED BY <1>1, <1>8, <1>9 DEF c, m, parts

(* Names without a comma are joined to as many parts, and come back.        *)
LEMMA ReloadedNames ==
  ASSUME NEW s, ListsInv(s.mmsiList, s.mmsiListNames),
         \A i \in 1..Len(s.mmsiListNames) : Single(s.mmsiListNames[i])
  PROVE  LET parts == Tokenized(JoinedNames(s))
         IN s.mmsiListNames = [i \in 1..Len(s.mmsiList) |->
                                 <<IF i =< Len(parts) THEN parts[i] ELSE "">>]
<1> DEFINE m == s.mmsiList
           n == s.mmsiListNames
           joined == JoinedNames(s)
           parts == Tokenized(joined)
           loaded == [i \in 1..Len(m) |-> <<IF i =< Len(parts) THEN parts[i] ELSE "">>]
<1>1. /\ IsList(n) /\ Len(n) = Len(m) /\ Len(m) \in Nat /\ DOMAIN m = 1..Len(m)
      /\ n = [i \in 1..Len(m) |-> n[i]]
      /\ \A i \in 1..Len(m) : n[i] = <<n[i][1]>>
  BY DEF ListsInv, IsList, Single
<1> HIDE DEF m, n, joined
<1>2. joined = FlattenSeq(n)
  <2>1. \A i \in 1..Len(m) : i =< Len(n)
    BY <1>1
  <2>2. [i \in DOMAIN m |-> IF i =< Len(n) THEN n[i] ELSE <<"">>] = n
    BY <1>1, <2>1
  <2> QED BY <2>2 DEF JoinedNames, m, n, joined
<1>3. joined = [i \in 1..Len(m) |-> n[i][1]]
  BY <1>1, <1>2, FlattenSingles DEF Single
<1>4. IsList(joined) /\ Len(joined) = Len(m)
  <2>1. joined = [i \in 1..Len(m) |-> joined[i]]
    BY <1>3
  <2> QED BY <1>1, <2>1, FunctionIsList
<1>5. \A i \in 1..Len(m) : n[i] = <<joined[i]>>
  BY <1>1, <1>3
<1>6. \A i \in 1..Len(m) : (IF i =< Len(parts) THEN parts[i] ELSE "") = joined[i]
  <2>1. CASE joined = <<"">>
    <3>1. Len(parts) = 0
      BY <2>1 DEF Tokenized
    <3>2. Len(joined) = 1 /\ joined[1] = ""
      BY <2>1
    <3>3. \A i \in 1..Len(m) : i = 1 /\ ~(i =< Len(parts))
      <4>1. Len(m) = 1
        BY <1>4, <3>2
      <4> HIDE DEF parts
      <4> QED BY <4>1, <3>1
    <3> QED BY <3>2, <3>3
  <2>2. CASE joined # <<"">>
    <3>1. parts = joined
      BY <2>2 DEF Tokenized
    <3>2. \A i \in 1..Len(m) : i =< Len(parts)
      BY <1>1, <1>4, <3>1
    <3> QED BY <3>1, <3>2
  <2> QED BY <2>1, <2>2
<1>7. n = loaded
  <2> HIDE DEF parts
  <2>1. loaded = [i \in 1..Len(m) |-> <<joined[i]>>]
    BY <1>6
  <2>2. n = [i \in 1..Len(m) |-> <<joined[i]>>]
    BY <1>1, <1>5
  <2> QED BY <2>1, <2>2
<1> QED BY <1>7 DEF m, n, joined

(* No name has a comma: its one part is all of it. *)
CommaFree == \A name \in Names : Single(name)

NamesInv ==
  \A i \in 1..Len(settings.mmsiListNames) : Single(settings.mmsiListNames[i])

(* Names come from the user, and from the configuration part by part.       *)
LEMMA NamesStep ==
  ASSUME CommaFree, PluginInv, VesselsInv, SavedInv, NamesInv, Next
  PROVE  NamesInv'
<1> DEFINE m == settings.mmsiList
           n == settings.mmsiListNames
<1>1. IsList(n) /\ Len(n) = Len(m) /\ Len(n) \in Nat
  BY DEF VesselsInv, ListsInv, IsList
<1>2. window # "none" => DOMAIN dialog.rows = 1..Len(n)
  BY <1>1, RowsList DEF VesselsInv, ListsInv
<1> USE DEF PluginInv, FieldsInv
<1>3. CASE OnButtonClick_AddMmsiToList
  <2>1. PICK x \in Names : settings'.mmsiListNames = Append(n, x)
    BY <1>3 DEF OnButtonClick_AddMmsiToList, ChangesVessels
  <2>2. Single(x)
    BY <2>1 DEF CommaFree
  <2>3. /\ Len(Append(n, x)) = Len(n) + 1
        /\ \A i \in 1..Len(n) : Append(n, x)[i] = n[i]
        /\ Append(n, x)[Len(n) + 1] = x
    BY <1>1, AppendList
  <2>4. \A i \in 1..Len(n) + 1 : i \in 1..Len(n) \/ i = Len(n) + 1
    BY <1>1
  <2> QED BY <2>1, <2>2, <2>3, <2>4 DEF NamesInv
<1>4. CASE OnButtonClick_DeleteMmsiFromList
  <2>1. PICK r \in 1..Len(n) : settings'.mmsiListNames = RemoveAt(n, r)
    BY <1>2, <1>4 DEF OnButtonClick_DeleteMmsiFromList, ChangesVessels, UserMay
  <2>2. /\ Len(RemoveAt(n, r)) = Len(n) - 1
        /\ \A i \in 1..Len(n) - 1 : RemoveAt(n, r)[i] = IF i < r THEN n[i] ELSE n[i + 1]
    BY <1>1, RemoveAtList
  <2>3. \A i \in 1..Len(n) - 1 : i \in 1..Len(n) /\ i + 1 \in 1..Len(n)
    BY <1>1
  <2> QED BY <2>1, <2>2, <2>3 DEF NamesInv
<1>5. CASE OnButtonClick_ClearMmsiList
  <2>1. settings'.mmsiListNames = <<>>
    BY <1>5 DEF OnButtonClick_ClearMmsiList, ChangesVessels
  <2> QED BY <2>1 DEF NamesInv
<1>6. CASE EditMmsi
  <2>1. settings'.mmsiListNames = n
    BY <1>6 DEF EditMmsi, ChangesVessels, settingsVars
  <2> QED BY <2>1 DEF NamesInv
<1>7. CASE EditName
  <2>0. PICK r \in DOMAIN dialog.rows, x \in Names :
          settings' = [settings EXCEPT !.mmsiListNames[r] = x]
    BY <1>7 DEF EditName
  <2>1. settings'.mmsiListNames = ReplaceAt(n, r, x) /\ r \in 1..Len(n)
    <3>1. r \in 1..Len(n)
      BY <1>2, <1>7, <2>0 DEF EditName, UserMay
    <3>2. settings'.mmsiListNames = [n EXCEPT ![r] = x]
      BY <2>0
    <3> QED BY <3>1, <3>2 DEF ReplaceAt
  <2>2. Single(x)
    BY <2>0 DEF CommaFree
  <2>3. /\ Len(ReplaceAt(n, r, x)) = Len(n)
        /\ \A i \in 1..Len(n) : ReplaceAt(n, r, x)[i] = IF i = r THEN x ELSE n[i]
    BY <1>1, <2>1, ReplaceAtList
  <2> QED BY <2>1, <2>2, <2>3 DEF NamesInv
<1>8. CASE PluginInit
  <2>1. settings' = LoadedSettings(SavedConfig(settings))
    BY <1>8 DEF PluginInit, SavedInv
  <2>2. settings'.mmsiListNames = n
    BY <2>1, ReloadedList, ReloadedNames DEF NamesInv, SavedInv, VesselsInv
  <2> QED BY <2>2 DEF NamesInv
<1>9. CASE ToolbarShows \/ DialogDeleted
  <2>1. UNCHANGED settings
    BY <1>9 DEF ToolbarShows, DialogDeleted, Deletes, settingsVars
  <2> QED BY <2>1 DEF NamesInv
<1>10. CASE OnOK \/ DeInit
  <2>1. settings'.mmsiListNames = n
    BY <1>10 DEF OnOK, DeInit, UpdatedSettings, WithBoxSize
  <2> QED BY <2>1 DEF NamesInv
<1>11. CASE ~ChangesLists
  <2>1. settings'.mmsiListNames = n
    BY <1>11, OthersKeepLists DEF Lists
  <2> QED BY <2>1 DEF NamesInv
<1> QED BY <1>3, <1>4, <1>5, <1>6, <1>7, <1>8, <1>9, <1>10, <1>11 DEF ChangesLists

(* Only Init() ends the unloaded state. *)
LEMMA OnlyInitLoads ==
  ASSUME [Next]_vars, gui = "unloaded", gui' = "idle"
  PROVE  PluginInit
<1>1. ~Handler
  BY HandlerRestarts DEF RestartsAtMost
<1>2. ~(OnButtonClick_startStream \/ OnButtonClick_stopStream)
  BY DEF OnButtonClick_startStream, OnButtonClick_stopStream, UserMay, Ready
<1>3. ~(GuiThread \/ SupervisorThread)
  BY DEF GuiThread, SupervisorThread, StopReturned, RestartStarts, ProcessEvent,
         SupervisorReports, MessageArrives, SupervisorExits
<1>4. ~Window
  BY DEF Window, ToolbarShows, ToolbarHides, OnClose, StoppedOnLeaving, UserMay, Ready
<1>5. ~(DeInit \/ DestructorStops \/ DialogDeleted)
  BY DEF DeInit, DestructorStops, DialogDeleted, Deletes, Ready
<1>6. ~UNCHANGED vars
  BY DEF vars, guiVars
<1> QED BY <1>1, <1>2, <1>3, <1>4, <1>5, <1>6
        DEF Next, Dialog, UserStep, Lifecycle, Modals, Handler

(* DeInit() and the next Init() leave every setting but the names as it was, *)
(* whatever the names are: no vessel is lost, and none changes its place    *)
(* (SaveSettings(), LoadSettings()).                                        *)
VesselsSurviveReload ==
  [][gui = "unloaded" /\ gui' = "idle" =>
       \A f \in SettingsFields \ {"mmsiListNames"} : settings'[f] = settings[f]]_vars

(* Every run of the plug-in keeps its vessels over DeInit() and Init(). *)
THEOREM VesselsSurvive == Spec => VesselsSurviveReload
<1>1. ASSUME PluginInv, VesselsInv, SavedInv, [Next]_vars
      PROVE  [gui = "unloaded" /\ gui' = "idle" =>
                \A f \in SettingsFields \ {"mmsiListNames"} :
                  settings'[f] = settings[f]]_vars
  <2> SUFFICES ASSUME gui = "unloaded", gui' = "idle"
               PROVE  \A f \in SettingsFields \ {"mmsiListNames"} :
                        settings'[f] = settings[f]
    OBVIOUS
  <2>1. PluginInit
    BY <1>1, OnlyInitLoads
  <2>2. settings' = LoadedSettings(SavedConfig(settings))
    BY <1>1, <2>1 DEF PluginInit, SavedInv
  <2> QED BY <1>1, <2>2, ReloadedList DEF SavedInv, VesselsInv
<1> QED BY <1>1, PluginInvariance, VesselsInvariance, SavedInvariance, PTL
        DEF Spec, VesselsSurviveReload

(* Names without a comma survive DeInit() and the next Init() as well, for   *)
(* any number of vessels, empty names included.                             *)
THEOREM SettingsSurvive ==
  ASSUME CommaFree
  PROVE  Spec => SettingsSurviveReload
<1>1. Init => NamesInv
  <2>1. DefaultSettings.mmsiListNames = <<>>
    BY DEF DefaultSettings
  <2> SUFFICES ASSUME Init
               PROVE  NamesInv
    OBVIOUS
  <2>2. settings.mmsiListNames = <<>>
    BY <2>1 DEF Init, SettingsInit
  <2> QED BY <2>2 DEF NamesInv
<1>2. PluginInv /\ VesselsInv /\ SavedInv /\ NamesInv /\ [Next]_vars => NamesInv'
  <2> SUFFICES ASSUME PluginInv, VesselsInv, SavedInv, NamesInv, [Next]_vars
               PROVE  NamesInv'
    OBVIOUS
  <2>1. CASE Next
    BY <2>1, NamesStep
  <2>2. CASE UNCHANGED vars
    BY <2>2 DEF NamesInv, vars, settingsVars
  <2> QED BY <2>1, <2>2
<1>3. ASSUME PluginInv, VesselsInv, SavedInv, NamesInv, [Next]_vars
      PROVE  [gui = "unloaded" /\ gui' = "idle" => settings' = settings]_vars
  <2> SUFFICES ASSUME gui = "unloaded", gui' = "idle"
               PROVE  settings' = settings
    OBVIOUS
  <2>1. PluginInit
    BY <1>3, OnlyInitLoads
  <2>2. settings' = LoadedSettings(SavedConfig(settings))
    BY <1>3, <2>1 DEF PluginInit, SavedInv
  <2>3. /\ IsSettings(settings) /\ IsSettings(settings')
        /\ \A f \in SettingsFields \ {"mmsiListNames"} : settings'[f] = settings[f]
    BY <1>3, <2>2, ReloadedList DEF SavedInv, VesselsInv
  <2>4. settings'.mmsiListNames = settings.mmsiListNames
    BY <1>3, <2>2, ReloadedList, ReloadedNames DEF SavedInv, VesselsInv, NamesInv
  <2>5. \A f \in SettingsFields : settings'[f] = settings[f]
    BY <2>3, <2>4
  <2> QED BY <2>3, <2>5 DEF IsSettings
<1> QED BY <1>1, <1>2, <1>3, PluginInvariance, VesselsInvariance, SavedInvariance, PTL
        DEF Spec, SettingsSurviveReload
=============================================================================
