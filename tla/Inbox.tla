-------------------------------- MODULE Inbox --------------------------------
(***************************************************************************)
(* The app's notification inbox: services/notifications.ts on phone        *)
(* storage, the inbox half of NotificationsScreen.tsx, and the feed they   *)
(* read (GET /api/alerts/recent with its edge copy).  The handlers are     *)
(* async functions without a lock: one storage call or answer is a step,   *)
(* and handlers interleave between them.                                   *)
(***************************************************************************)
EXTENDS Integers, FiniteSets

CONSTANTS
  Handlers,   \* handlers that can be under way at once
  MAX_ITEMS,  \* MAX_ITEMS of notifications.ts
  MaxAlert,   \* bound: alerts ever published
  MaxSyncs    \* bound: lists rebuilt from the feed

ASSUME InboxConstants == MAX_ITEMS \in Nat /\ MaxAlert \in Nat /\ MaxSyncs \in Nat

Alerts == 1..MaxAlert

VARIABLES
  feed,       \* the alerts of the last 48 hours, as [lo, hi]
  inbox,      \* STORAGE_KEY: the items
  dismissed,  \* DISMISSED_KEY
  screen,     \* notifications, the screen's own state
  run,        \* the handlers under way
  syncs,      \* lists rebuilt so far; makeId gives each its own ids
  deleted,    \* history: alerts deleted by a handler that ran alone
  read,       \* history: alerts read by a handler that ran alone, while listed
  alone,      \* history: the handlers that have run alone so far
  overlapped, \* history: whether two handlers have ever overlapped
  newest,     \* history: the newest feed the app was answered
  backward    \* history: an older feed was answered after a newer one

inboxGhosts == <<deleted, read, alone, overlapped, newest, backward>>
inboxVars == <<feed, inbox, dismissed, screen, run, syncs, inboxGhosts>>

Windows == [lo : 1..(MaxAlert + 1), hi : 0..MaxAlert]
NoCopy == [lo |-> 0, hi |-> 0]
In(copy) == copy.lo..copy.hi
Items == [alert : Alerts, list : 1..MaxSyncs, read : BOOLEAN]
AlertsOf(items) == {i.alert : i \in items}
SameId(i, j) == i.alert = j.alert /\ i.list = j.list
NoItem == [alert |-> 0, list |-> 0, read |-> FALSE]
Idle == [pc |-> "idle", item |-> NoItem, items |-> {}, dismissed |-> {}, feed |-> NoCopy]

InboxInit ==
  /\ feed = [lo |-> 1, hi |-> 0]
  /\ inbox = {} /\ dismissed = {} /\ screen = {}
  /\ run = [h \in Handlers |-> Idle]
  /\ syncs = 0
  /\ deleted = {} /\ read = {} /\ alone = {} /\ overlapped = FALSE
  /\ newest = feed /\ backward = FALSE

InboxTypeOK ==
  /\ {feed, newest} \subseteq Windows
  /\ inbox \subseteq Items /\ Cardinality(inbox) <= MAX_ITEMS
  /\ screen \subseteq Items
  /\ dismissed \subseteq Alerts /\ deleted \subseteq Alerts /\ read \subseteq Alerts
  /\ \A h \in Handlers : run[h].items \subseteq Items /\ run[h].dismissed \subseteq Alerts
  /\ syncs \in 0..MaxSyncs
  /\ alone \subseteq Handlers /\ overlapped \in BOOLEAN /\ backward \in BOOLEAN

(* ------------------------------ the feed -------------------------------- *)

AppUnchanged == UNCHANGED <<inbox, dismissed, screen, run, syncs, inboxGhosts>>

Publish ==
  /\ feed.hi < MaxAlert
  /\ feed' = [feed EXCEPT !.hi = @ + 1]
  /\ AppUnchanged

AgeOut ==
  /\ feed.lo <= feed.hi
  /\ feed' = [feed EXCEPT !.lo = @ + 1]
  /\ AppUnchanged

(* GET /recent: the edge's copy while it has one, else D1.  A copy is put  *)
(* after the answer it copies, so it may be older than the feed, and older *)
(* than the copy before it.                                                *)
Recent == {copy \in Windows : copy.lo <= feed.lo /\ copy.hi <= feed.hi}

(* ----------------------------- the handlers ----------------------------- *)

At(h, pc) == run[h].pc = pc
Set(h, fields) == run' = [run EXCEPT ![h] = fields]
Goto(h, pc) == run' = [run EXCEPT ![h].pc = pc]
Others(h) == {g \in Handlers \ {h} : ~At(g, "idle")}

Start(h, fields) ==
  /\ At(h, "idle")
  /\ Set(h, fields)
  /\ alone' = IF Others(h) = {} THEN {h} ELSE {}
  /\ overlapped' = (overlapped \/ Others(h) # {})

End(h) == Set(h, Idle) /\ alone' = alone \ {h}
Keep(items) == read' = read \cap AlertsOf(items)

(* loadInbox: what is stored is shown first.                              *)
LoadInbox(h) ==
  /\ syncs < MaxSyncs
  /\ screen' = inbox
  /\ Start(h, [Idle EXCEPT !.pc = "existing"])
  /\ UNCHANGED <<feed, inbox, dismissed, syncs, deleted, read, newest, backward>>

(* syncFromRecentAlerts.                                                   *)
LoadExisting(h) ==
  /\ At(h, "existing")
  /\ run' = [run EXCEPT ![h].pc = "fetch", ![h].items = inbox]
  /\ UNCHANGED <<feed, inbox, dismissed, screen, syncs, inboxGhosts>>

FetchFeed(h, answer) ==
  /\ At(h, "fetch")
  /\ run' = [run EXCEPT ![h].pc = "dismissed", ![h].feed = answer]
  /\ backward' = (backward \/ answer.lo < newest.lo \/ answer.hi < newest.hi)
  /\ newest' = answer
  /\ UNCHANGED <<feed, inbox, dismissed, screen, syncs, deleted, read, alone, overlapped>>

FetchFails(h) ==
  /\ At(h, "fetch")
  /\ screen' = run[h].items
  /\ End(h)
  /\ UNCHANGED <<feed, inbox, dismissed, syncs, deleted, read, overlapped, newest, backward>>

LoadDismissed(h) ==
  /\ At(h, "dismissed")
  /\ run' = [run EXCEPT ![h].pc = "prune", ![h].dismissed = dismissed]
  /\ UNCHANGED <<feed, inbox, dismissed, screen, syncs, inboxGhosts>>

(* Mutant: the record of what was deleted is pruned to what is listed.     *)
StillLiveStored(h) == run[h].dismissed \cap AlertsOf(inbox)

(* The dismissed ids the feed still holds.                                 *)
StillLive(h) == run[h].dismissed \cap In(run[h].feed)

Prune(h) ==
  /\ At(h, "prune")
  /\ dismissed' = IF StillLive(h) = run[h].dismissed THEN dismissed ELSE StillLive(h)
  /\ Goto(h, "persist")
  /\ UNCHANGED <<feed, inbox, screen, syncs, inboxGhosts>>

NewestOf(alerts) == {a \in alerts : Cardinality({b \in alerts : b > a}) < MAX_ITEMS}

(* Mutant: what was read before is not carried over.                       *)
SyncedUnread(h, n) ==
  {[alert |-> a, list |-> n, read |-> FALSE]
   : a \in NewestOf(In(run[h].feed) \ run[h].dismissed)}

(* The feed's newest that are not dismissed, read if they were.            *)
Synced(h, n) ==
  LET was == {i.alert : i \in {j \in run[h].items : j.read}}
  IN {[alert |-> a, list |-> n, read |-> a \in was]
      : a \in NewestOf(In(run[h].feed) \ run[h].dismissed)}

PersistSynced(h) ==
  /\ At(h, "persist") /\ syncs < MaxSyncs
  /\ syncs' = syncs + 1
  /\ inbox' = Synced(h, syncs')
  /\ Keep(inbox')
  /\ run' = [run EXCEPT ![h].pc = "shown", ![h].items = inbox']
  /\ UNCHANGED <<feed, dismissed, screen, deleted, alone, overlapped, newest, backward>>

ShowSynced(h) ==
  /\ At(h, "shown")
  /\ screen' = run[h].items
  /\ End(h)
  /\ UNCHANGED <<feed, inbox, dismissed, syncs, deleted, read, overlapped, newest, backward>>

(* handleOpen, handleMarkReadFromDetail on one item, handleMarkAllRead on  *)
(* all: the tap, and the list as it is stored then.                       *)
MarkRead(h) ==
  /\ \E i \in screen \cup {NoItem} :
       Start(h, [Idle EXCEPT !.pc = "marked", !.item = i, !.items = inbox])
  /\ UNCHANGED <<feed, inbox, dismissed, screen, syncs, deleted, read, newest, backward>>

Marked(items, item) ==
  {IF item = NoItem \/ SameId(i, item) THEN [i EXCEPT !.read = TRUE] ELSE i : i \in items}

PersistMarked(h) ==
  /\ At(h, "marked")
  /\ inbox' = Marked(run[h].items, run[h].item)
  /\ read' = (read \cap AlertsOf(inbox')) \cup
       (IF h \in alone THEN AlertsOf(inbox' \ run[h].items) ELSE {})
  /\ Goto(h, "marked shown")
  /\ UNCHANGED <<feed, dismissed, screen, syncs, deleted, alone, overlapped, newest, backward>>

ShowMarked(h) ==
  /\ At(h, "marked shown")
  /\ screen' = Marked(screen, run[h].item)
  /\ End(h)
  /\ UNCHANGED <<feed, inbox, dismissed, syncs, deleted, read, overlapped, newest, backward>>

(* handleDeleteFromList, handleDeleteFromDetail.  deleteNotification       *)
(* remembers the server's id, when it finds the item.                      *)
Delete(h) ==
  /\ \E i \in screen :
       Start(h, [Idle EXCEPT !.item = i, !.items = inbox,
                             !.pc = IF \E j \in inbox : SameId(i, j) THEN "dismiss"
                                    ELSE "remove"])
  /\ UNCHANGED <<feed, inbox, dismissed, screen, syncs, deleted, read, newest, backward>>

LoadToDismiss(h) ==
  /\ At(h, "dismiss")
  /\ run' = [run EXCEPT ![h].pc = "dismissing",
                        ![h].dismissed = dismissed \cup {run[h].item.alert}]
  /\ UNCHANGED <<feed, inbox, dismissed, screen, syncs, inboxGhosts>>

PersistDismissed(h) ==
  /\ At(h, "dismissing")
  /\ dismissed' = run[h].dismissed
  /\ Goto(h, "remove")
  /\ UNCHANGED <<feed, inbox, screen, syncs, inboxGhosts>>

Without(items, item) == {i \in items : ~SameId(i, item)}

PersistRemoved(h) ==
  /\ At(h, "remove")
  /\ inbox' = Without(run[h].items, run[h].item)
  /\ Keep(inbox')
  /\ deleted' = IF h \in alone /\ run[h].dismissed # {} THEN deleted \cup {run[h].item.alert}
                ELSE deleted
  /\ Goto(h, "removed")
  /\ UNCHANGED <<feed, dismissed, screen, syncs, alone, overlapped, newest, backward>>

(* Mutant: the screen goes on showing it.                                  *)
ShowRemovedStill(h) ==
  /\ At(h, "removed")
  /\ End(h)
  /\ UNCHANGED <<feed, inbox, dismissed, screen, syncs, deleted, read, overlapped, newest,
                 backward>>

ShowRemoved(h) ==
  /\ At(h, "removed")
  /\ screen' = Without(screen, run[h].item)
  /\ End(h)
  /\ UNCHANGED <<feed, inbox, dismissed, syncs, deleted, read, overlapped, newest, backward>>

(* The app is killed; storage survives, and the next start shows it.       *)
KillApp ==
  /\ run' = [h \in Handlers |-> Idle]
  /\ screen' = {} /\ alone' = {}
  /\ UNCHANGED <<feed, inbox, dismissed, syncs, deleted, read, overlapped, newest, backward>>

Handler(h) ==
  \/ LoadInbox(h) \/ LoadExisting(h) \/ FetchFails(h)
  \/ \E answer \in Recent : FetchFeed(h, answer)
  \/ LoadDismissed(h) \/ Prune(h) \/ PersistSynced(h) \/ ShowSynced(h)
  \/ MarkRead(h) \/ PersistMarked(h) \/ ShowMarked(h)
  \/ Delete(h) \/ LoadToDismiss(h) \/ PersistDismissed(h)
  \/ PersistRemoved(h) \/ ShowRemoved(h)

InboxNext ==
  \/ Publish \/ AgeOut \/ KillApp
  \/ \E h \in Handlers : Handler(h)

InboxSpec == InboxInit /\ [][InboxNext]_inboxVars

(* ----------------------------- properties ------------------------------- *)

(* An alert deleted by a handler that ran alone does not come back while   *)
(* the server still lists it, whatever handlers overlap afterwards, unless *)
(* the edge answers an older feed after a newer one                        *)
(* (notifications.ts:10-13, 117-120).                                      *)
DeletedStaysDeleted ==
  ~backward => \A a \in deleted : a >= feed.lo => a \notin AlertsOf(inbox)

(* An alert that was read so stays read while it is listed (line 86).      *)
ReadStaysRead == \A i \in inbox : i.alert \in read => i.read

(* Between handlers that never overlapped the screen shows what is stored *)
(* under the ids it is stored by, so that every tap finds its item.       *)
ScreenShowsStored ==
  ~overlapped /\ (\A h \in Handlers : At(h, "idle")) => screen \in {{}, inbox}

(* The stored list: a read mark stays, and what is on the screen is what  *)
(* is stored (notifications.ts, NotificationsScreen.tsx).                 *)
InboxSafe ==
  /\ InboxTypeOK
  /\ ReadStaysRead
  /\ ScreenShowsStored

(* What makes them inductive.  A handler's own state, and the pcs at which *)
(* it has a copy of the list it may store.                                 *)
PCs == {"idle", "existing", "fetch", "dismissed", "prune", "persist", "shown", "marked",
        "marked shown", "dismiss", "dismissing", "remove", "removed"}

Runs == [pc : PCs, item : Items \cup {NoItem}, items : SUBSET Items,
         dismissed : SUBSET Alerts, feed : Windows \cup {NoCopy}]

Fetched == {"dismissed", "prune", "persist"}
Syncing == {"fetch"} \cup Fetched
Deleting == {"dismiss", "dismissing", "remove"}

(* A list names an alert once and has the ids of one sync.                 *)
IsList(items) ==
  /\ IsFiniteSet(items) /\ Cardinality(items) <= MAX_ITEMS
  /\ \A i, j \in items : i.list = j.list /\ (i.alert = j.alert => i = j)

HandlerInv ==
  /\ run \in [Handlers -> Runs]
  /\ IsList(inbox) /\ \A h \in Handlers : IsList(run[h].items)
  /\ \A h \in Handlers : /\ run[h].pc \in Deleting \cup {"removed"} => run[h].item \in Items
                         /\ run[h].pc \in Fetched => run[h].feed \in Windows
  /\ \A h \in alone : Others(h) = {}

(* What a list of items owes to the reads that count.                      *)
ReadsMarked(items) == \A i \in items : i.alert \in read => i.read
KeepsReads(items) == ReadsMarked(items) /\ read \subseteq AlertsOf(items)

ReadBy(h) ==
  /\ run[h].pc \in Syncing => KeepsReads(run[h].items)
  /\ run[h].pc \in Deleting \cup {"marked"} => ReadsMarked(run[h].items)

ReadInv == KeepsReads(inbox) /\ \A h \in Handlers : ReadBy(h)

(* The feed has been answered up to every alert in sight, and a handler    *)
(* that deletes has found its alert.                                       *)
HasFound(h) ==
  \/ run[h].pc \in {"dismiss", "dismissing"}
  \/ At(h, "remove") /\ run[h].dismissed # {}

AnsweredFor(h) ==
  /\ run[h].pc \in Fetched => run[h].feed.lo <= feed.lo /\ run[h].feed.hi <= newest.hi
  /\ run[h].pc \in Deleting \cup {"marked"} => \A i \in run[h].items : i.alert <= newest.hi
  /\ HasFound(h) => \E i \in run[h].items : SameId(run[h].item, i)
  /\ At(h, "dismissing") => run[h].item.alert \in run[h].dismissed
  /\ h \in alone /\ At(h, "remove") /\ HasFound(h) => run[h].item.alert \in dismissed

AnsweredInv ==
  /\ \A i \in inbox : i.alert <= newest.hi
  /\ \A h \in Handlers : AnsweredFor(h)

(* A deleted alert that is listed is recorded as dismissed, in storage and *)
(* in every copy that may be stored over it.                               *)
DismissedBy(h, a) ==
  /\ run[h].pc \in Fetched => a <= run[h].feed.hi
  /\ run[h].pc \in {"prune", "persist", "dismissing"} => a \in run[h].dismissed
  /\ run[h].pc \in Deleting \cup {"marked"} => a \notin AlertsOf(run[h].items)

StaysDeleted(a) ==
  /\ a \in dismissed /\ a \notin AlertsOf(inbox) /\ a <= newest.hi
  /\ \A h \in Handlers : DismissedBy(h, a)

DeletedInv == ~backward => AnsweredInv /\ \A a \in deleted : a >= feed.lo => StaysDeleted(a)

(* Without overlap one handler runs, and the screen is its to bring in     *)
(* line with the list.                                                     *)
ScreenFor(h) ==
  /\ run[h].pc \in Syncing \cup Deleting \cup {"shown", "marked"} => run[h].items = inbox
  /\ run[h].pc \in {"existing"} \cup Syncing => screen = inbox
  /\ run[h].pc \in Deleting \cup {"marked"} => screen \in {{}, inbox}
  /\ At(h, "marked shown") => Marked(screen, run[h].item) \in {{}, inbox}
  /\ At(h, "removed") => Without(screen, run[h].item) \in {{}, inbox}

ScreenInv ==
  ~overlapped =>
    /\ ScreenShowsStored
    /\ \A g, h \in Handlers : ~At(g, "idle") /\ ~At(h, "idle") => g = h
    /\ \A h \in Handlers : ScreenFor(h)

InboxInv ==
  /\ InboxSafe /\ DeletedStaysDeleted
  /\ HandlerInv /\ ReadInv /\ DeletedInv /\ ScreenInv
=============================================================================
