-------------------------------- MODULE MCApp --------------------------------
(***************************************************************************)
(* The two halves of NotificationsScreen.tsx share no state and no call:   *)
(* each behaviour exercises one of them while the other stays at rest.     *)
(***************************************************************************)
EXTENDS Inbox, Settings, TLC

CONSTANTS h1, h2, s1, s2

VARIABLE half   \* the half that is exercised

MCHandlers == {h1, h2}
MCSlots == {s1, s2}
MCCategories == {"vik"}
MCLines == {"31", "409"}
Symmetry == Permutations(MCHandlers)

AppInit ==
  /\ InboxInit /\ SettingsInit
  /\ \/ half = "inbox" /\ off = {} /\ lines = {}
     \/ half = "settings"

AppNext ==
  \/ half = "inbox" /\ InboxNext /\ UNCHANGED <<settingsVars, half>>
  \/ half = "settings" /\ SettingsNext /\ UNCHANGED <<inboxVars, half>>

AppSpec == AppInit /\ [][AppNext]_<<inboxVars, settingsVars, half>>
=============================================================================
