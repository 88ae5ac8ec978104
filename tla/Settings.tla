------------------------------ MODULE Settings -------------------------------
(***************************************************************************)
(* The notification settings: the categories a user has switched off and   *)
(* the bus lines they follow, as the server keeps them (api/preferences.ts *)
(* and its queries) and as NotificationsScreen.tsx shows them.  The screen *)
(* changes at the tap and is put back if the PUT fails; requests overlap,  *)
(* arrive in any order, and lose their answers.                            *)
(***************************************************************************)
EXTENDS FiniteSets

CONSTANTS
  Categories,  \* KNOWN_CATEGORIES
  Lines,       \* BUS_LINES
  Slots        \* PUTs that can be under way at once

VARIABLES
  off,       \* user_notification_preferences: the categories with a row
  lines,     \* users.subscribed_bus_lines
  shownOff, shownLines,  \* the screen's preferences and busLines
  loaded,    \* whether the screen has them
  put,       \* the PUTs under way
  load,      \* loadPreferences: what its two GETs have read so far
  muddled    \* history: since the last load that ran alone, requests have
             \* overlapped or an answer was lost

table == <<off, lines>>
shown == <<shownOff, shownLines, loaded>>
settingsVars == <<table, shown, put, load, muddled>>

NoPut == [kind |-> "none"]
Toggled(c, on) == [kind |-> "category", category |-> c, on |-> on, applied |-> FALSE]
Selected(next, prev) == [kind |-> "lines", next |-> next, prev |-> prev, applied |-> FALSE]
Puts == [kind : {"none"}]
        \cup [kind : {"category"}, category : Categories, on : BOOLEAN, applied : BOOLEAN]
        \cup [kind : {"lines"}, next : SUBSET Lines, prev : SUBSET Lines, applied : BOOLEAN]

(* Each GET of a load is still out, or has answered with what it read.     *)
NoLoad == [pc |-> "none", off |-> {}, lines |-> {}, asked |-> {}]

SettingsInit ==
  /\ off \in SUBSET Categories /\ lines \in SUBSET Lines
  /\ shownOff = {} /\ shownLines = {} /\ loaded = FALSE
  /\ put = [s \in Slots |-> NoPut] /\ load = NoLoad
  /\ muddled = FALSE

SettingsTypeOK ==
  /\ {off, shownOff} \subseteq SUBSET Categories /\ {lines, shownLines} \subseteq SUBSET Lines
  /\ put \in [Slots -> Puts]
  /\ load \in [pc : {"none", "asking"}, off : SUBSET Categories, lines : SUBSET Lines,
               asked : SUBSET {"categories", "lines"}]
  /\ {loaded, muddled} \subseteq BOOLEAN

UnderWay == {s \in Slots : put[s] # NoPut}

(* ------------------------------ the screen ------------------------------ *)

(* Mount and pull to refresh.                                              *)
LoadPreferences ==
  /\ load = NoLoad
  /\ load' = [NoLoad EXCEPT !.pc = "asking", !.asked = {"categories", "lines"}]
  /\ muddled' = (UnderWay # {})
  /\ UNCHANGED <<table, shown, put>>

(* One of the two GETs is answered; both have to be.                       *)
Answered(kind) ==
  /\ kind \in load.asked
  /\ LET got == IF kind = "lines" THEN [load EXCEPT !.lines = lines]
                                  ELSE [load EXCEPT !.off = off]
     IN IF load.asked = {kind}
        THEN /\ shownOff' = got.off /\ shownLines' = got.lines /\ loaded' = TRUE
             /\ load' = NoLoad
        ELSE load' = [got EXCEPT !.asked = @ \ {kind}] /\ UNCHANGED shown
  /\ UNCHANGED <<table, put, muddled>>

(* A load that fails leaves the screen as it was.                          *)
LoadFails ==
  /\ load # NoLoad
  /\ load' = NoLoad
  /\ muddled' = TRUE
  /\ UNCHANGED <<table, shown, put>>

Tap(s, request) ==
  /\ loaded /\ put[s] = NoPut
  /\ put' = [put EXCEPT ![s] = request]
  /\ muddled' = (muddled \/ UnderWay # {} \/ load # NoLoad)
  /\ UNCHANGED <<table, loaded, load>>

With(set, c, in) == IF in THEN set \cup {c} ELSE set \ {c}

HandleToggle(s, c) ==
  /\ Tap(s, Toggled(c, c \in shownOff))
  /\ shownOff' = With(shownOff, c, c \notin shownOff)
  /\ UNCHANGED shownLines

(* saveBusLines: a line more or less, or all of them.                      *)
SaveBusLines(s, next) ==
  /\ \/ next = {}
     \/ \E l \in Lines : next = With(shownLines, l, l \notin shownLines)
  /\ Tap(s, Selected(next, shownLines))
  /\ shownLines' = next
  /\ UNCHANGED shownOff

Replaced(next) == next

(* The server handles the request, whenever it arrives.                    *)
Applied(s) ==
  /\ put[s] # NoPut /\ ~put[s].applied
  /\ put' = [put EXCEPT ![s].applied = TRUE]
  /\ IF put[s].kind = "category"
     THEN off' = With(off, put[s].category, ~put[s].on) /\ UNCHANGED lines
     ELSE lines' = Replaced(put[s].next) /\ UNCHANGED off
  /\ UNCHANGED <<shown, load, muddled>>

Succeeded(s) ==
  /\ put[s] # NoPut /\ put[s].applied
  /\ put' = [put EXCEPT ![s] = NoPut]
  /\ UNCHANGED <<table, shown, load, muddled>>

(* Mutant: what was shown stays.                                           *)
RevertNothing(s) == UNCHANGED <<shownOff, shownLines>>

(* The category's own switch goes back; the lines go back to what they     *)
(* were at the tap, with whatever was tapped since.                        *)
Revert(s) ==
  IF put[s].kind = "category"
  THEN shownOff' = With(shownOff, put[s].category, put[s].on) /\ UNCHANGED shownLines
  ELSE shownLines' = put[s].prev /\ UNCHANGED shownOff

(* Refused, or lost on its way there or back.                              *)
Failed(s) ==
  /\ put[s] # NoPut
  /\ Revert(s)
  /\ put' = [put EXCEPT ![s] = NoPut]
  /\ muddled' = (muddled \/ put[s].applied)
  /\ UNCHANGED <<table, loaded, load>>

SettingsNext ==
  \/ LoadPreferences \/ LoadFails
  \/ \E kind \in {"categories", "lines"} : Answered(kind)
  \/ \E s \in Slots : \/ Applied(s) \/ Succeeded(s) \/ Failed(s)
                      \/ \E c \in Categories : HandleToggle(s, c)
                      \/ \E next \in SUBSET Lines : SaveBusLines(s, next)

SettingsSpec == SettingsInit /\ [][SettingsNext]_settingsVars

(* ----------------------------- properties ------------------------------- *)

(* With nothing under way, the screen shows what targeting will go by,     *)
(* unless since the last load that ran alone requests overlapped or an     *)
(* answer was lost: a PUT that fails puts back what the server still has   *)
(* (NotificationsScreen.tsx:126-151).                                      *)
ShownIsKept ==
  loaded /\ ~muddled /\ UnderWay = {} /\ load = NoLoad => shownOff = off /\ shownLines = lines

(* The settings shown are the ones the server keeps, where nothing crossed *)
(* (NotificationsScreen.tsx:126-151).                                      *)
SettingsSafe ==
  /\ SettingsTypeOK
  /\ ShownIsKept

(* What makes it inductive.  While nothing crosses, a load runs alone and  *)
(* has read what the server has; one PUT at most is under way, and until   *)
(* it arrives the server has what the screen showed before the tap.        *)
LoadInv ==
  load # NoLoad => /\ UnderWay = {}
                   /\ "categories" \notin load.asked => load.off = off
                   /\ "lines" \notin load.asked => load.lines = lines

PutInv(s) ==
  IF put[s].kind = "category"
  THEN /\ shownLines = lines
       /\ shownOff = With(off, put[s].category, ~put[s].on)
       /\ put[s].category \in off <=> put[s].on # put[s].applied
  ELSE /\ shownOff = off /\ shownLines = put[s].next
       /\ lines = IF put[s].applied THEN put[s].next ELSE put[s].prev

CrossingInv ==
  ~muddled => /\ LoadInv
              /\ \A s, t \in UnderWay : s = t
              /\ \A s \in UnderWay : PutInv(s)

SettingsInv == SettingsSafe /\ CrossingInv
=============================================================================
