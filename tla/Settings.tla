------------------------------ MODULE Settings ------------------------------
(***************************************************************************)
(* The global settings of global_settings.cpp, the OpenCPN configuration    *)
(* they are saved to and loaded from, and the preferences dialog's effect   *)
(* on them.                                                                 *)
(*                                                                         *)
(* A vessel's name is the sequence of its comma-separated parts (<<"">> is  *)
(* the empty name, <<"a", "b">> the name "a,b"), so that joining names with  *)
(* commas is concatenation.  Window size and position and the two settings  *)
(* that restore them are left out: no other state depends on them.          *)
(***************************************************************************)
EXTENDS Lists

VARIABLES
  settings,   \* the g_ variables
  config      \* what OpenCPN's configuration holds for the plugin

settingsVars == <<settings, config>>

(* Tokens are "", one of white space only, and real ones. *)
Trimmed(token) == IF token = " " THEN "" ELSE token

(* HasToken(): a non-empty (after trimming) token is configured. *)
HasToken(s) == Trimmed(s.openWatersToken) # ""

ValidMmsi(mmsi) == 100000000 =< mmsi /\ mmsi =< 999999999

(* The initial values of the globals, which are also the defaults that      *)
(* LoadSettings() reads from an empty configuration.                        *)
DefaultSettings ==
  [keepWindowActive |-> TRUE, lastSearchBoxSize |-> 1, openWatersToken |-> "",
   activateVesselsFollowing |-> TRUE, mmsiList |-> <<>>, mmsiListNames |-> <<>>]

(* MMSI_ListNames: one name for each MMSI, joined with commas. *)
JoinedNames(s) ==
  FlattenSeq([i \in DOMAIN s.mmsiList |->
                IF i =< Len(s.mmsiListNames) THEN s.mmsiListNames[i] ELSE <<"">>])

SavedConfig(s) == [s EXCEPT !.mmsiListNames = JoinedNames(s)]

(* wxStringTokenize(..., wxTOKEN_RET_EMPTY_ALL): every part is a token, but *)
(* the empty string has none.                                               *)
TokenizedWithoutEmpty(parts) ==  \* faulty: wxTOKEN_STRTOK drops empty tokens
  SelectSeq(parts, LAMBDA part : part # "")

Tokenized(parts) == IF parts = <<"">> THEN <<>> ELSE parts

LoadedSettings(c) ==
  LET parts == Tokenized(c.mmsiListNames)
      names == [i \in DOMAIN c.mmsiList |->
                  <<IF i =< Len(parts) THEN parts[i] ELSE "">>]
      valid == {i \in DOMAIN c.mmsiList : ValidMmsi(c.mmsiList[i])}
  IN [c EXCEPT !.mmsiList      = Kept(c.mmsiList, valid),
               !.mmsiListNames = Kept(names, valid)]

(* DialogSettings::updateSettings(), with what the user has left in the     *)
(* dialog's check box and text field.                                       *)
UpdatedSettings(keep, token) ==
  [settings EXCEPT !.keepWindowActive = keep, !.openWatersToken = token]

SettingsInit == settings = DefaultSettings /\ config = SavedConfig(DefaultSettings)
=============================================================================
