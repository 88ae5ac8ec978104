----------------------------- MODULE SeenListing -----------------------------
(***************************************************************************)
(* The crawlers without numeric ids (sources/epro.ts, sources/vt.ts): a    *)
(* message is named by a hash of its text, and crawl_state keeps the       *)
(* newest MAX_SEEN_IDS hashes.  There is no cursor and no attempt cap: a   *)
(* message that fails is tried again on every tick while it is listed.     *)
(* Nothing catches a throw of the pipeline: it ends the source's tick.     *)
(* A message number is its hash; the page lists messages in their order.   *)
(***************************************************************************)
EXTENDS Pipeline, FiniteSets, SequencesExt

CONSTANTS
  MAX_MESSAGES_PER_TICK,  \* messages one tick works on
  MAX_SEEN_IDS,           \* hashes the row keeps
  MaxListed,              \* bound: messages on the page at once
  History,                \* messages on the page before the first tick
  Unreadable,             \* messages whose parse fails every time
  Stalling,               \* those whose failure leaves the tick no time
  Irrelevant,             \* vt: messages without a route change
  Buckets                 \* epro: interruption types, each with its messages

ASSUME SeenListingConstants ==
  /\ MAX_MESSAGES_PER_TICK \in Nat \ {0}
  /\ MAX_SEEN_IDS \in Nat \ {0}
  /\ MaxListed \in 1..MAX_SEEN_IDS
  /\ History \in 0..MaxListed /\ History <= MaxId
  /\ Unreadable \subseteq Ids /\ Irrelevant \subseteq Ids
  /\ Stalling \subseteq Unreadable
  /\ UNION Buckets = Ids

VARIABLES
  visible,    \* messages on the page
  latest,     \* newest message published so far
  hasRow,     \* the crawl_state row exists
  seen,       \* its seen_ids, oldest first
  entries,    \* the tick's copy of the page, not yet worked through
  seenIds,    \* the tick's copy of the seen ids
  processed,  \* messages the tick has worked on
  bootstrapped,  \* history: the messages the first run marked
  later       \* history: ids marked after each marked one, None before

site == <<visible, latest>>
seenRow == <<hasRow, seen>>
tick == <<entries, seenIds, processed>>
ghosts == <<bootstrapped, later>>
vars == <<pipelineVars, site, seenRow, tick, ghosts>>

None == MAX_SEEN_IDS + 1
Bootstrap == 0   \* the placeholder id of an empty first run

Init ==
  /\ PipelineInit
  /\ latest = History /\ visible = 1..History
  /\ hasRow = FALSE /\ seen = <<>>
  /\ entries = {} /\ seenIds = {} /\ processed = 0
  /\ bootstrapped = {}
  /\ later = [m \in Ids |-> None]

TypeOK ==
  /\ PipelineTypeOK
  /\ pc \in PipelinePCs \cup {"idle", "state_row", "seed", "seen", "next", "mark"}
  /\ cur \in Ids \cup {NoMsg}
  /\ visible \subseteq 1..latest /\ latest \in 0..MaxId
  /\ hasRow \in BOOLEAN
  /\ seen \in Seq(Ids \cup {Bootstrap}) /\ Len(seen) <= MAX_SEEN_IDS
  /\ entries \subseteq Ids /\ seenIds \subseteq Ids \cup {Bootstrap}
  /\ processed \in 0..MAX_MESSAGES_PER_TICK
  /\ bootstrapped \subseteq Ids
  /\ later \in [Ids -> 0..None]

(* ------------------------------ the site ------------------------------- *)

Publish ==
  /\ latest < MaxId /\ Cardinality(visible) < MaxListed
  /\ latest' = latest + 1 /\ visible' = visible \cup {latest + 1}
  /\ UNCHANGED <<pipelineVars, seenRow, tick, ghosts>>

TakeDown ==
  /\ \E m \in visible : visible' = visible \ {m}
  /\ UNCHANGED <<pipelineVars, latest, seenRow, tick, ghosts>>

(* ------------------------------ seen ids -------------------------------- *)

(* Ids in the order of the page, oldest first.                             *)
InOrder(ids) ==
  [i \in 1..Cardinality(ids) |->
     CHOOSE m \in ids : Cardinality({k \in ids : k > m}) = Cardinality(ids) - i]

(* Mutant: the cap keeps the oldest ids.                                   *)
KeepOldest(ids) ==
  IF Len(ids) <= MAX_SEEN_IDS THEN ids ELSE SubSeq(ids, 1, MAX_SEEN_IDS)

KeepNewest(ids) ==
  IF Len(ids) <= MAX_SEEN_IDS THEN ids ELSE SubSeq(ids, Len(ids) - MAX_SEEN_IDS + 1, Len(ids))

(* mergeSeenIds: the ids that are not there yet go behind the others.      *)
Merge(existing, new) == KeepNewest(existing \o InOrder(new \ ToSet(existing)))

(* How many ids were marked after m, when these are marked now.            *)
Later(m, added) ==
  LET n == IF m \in added THEN Cardinality({k \in added : k > m})
           ELSE later[m] + Cardinality(added)
  IN IF later[m] = None /\ m \notin added THEN None
     ELSE IF n < MAX_SEEN_IDS THEN n ELSE MAX_SEEN_IDS

(* addSeenIds reads, merges and writes; it swallows a failed read, which   *)
(* writes nothing, and a failed write.                                     *)
AddSeenIds(o, new) ==
  IF o.committed
    THEN /\ seen' = Merge(seen, new) /\ hasRow' = TRUE
         /\ later' = [m \in Ids |-> Later(m, new \ ToSet(seen))]
    ELSE UNCHANGED <<seenRow, later>>

(* ------------------------------ the tick ------------------------------- *)

EndOfTick == pc' = "idle" /\ cur' = NoMsg /\ entries' = {} /\ seenIds' = {} /\ processed' = 0

(* fetchVarnaEntries: what the readable types list; with none readable the *)
(* tick ends here.  vt has one page.                                       *)
FetchEntries ==
  /\ pc = "idle"
  /\ \E readable \in SUBSET Buckets \ {{}} :
       /\ entries' = visible \cap UNION readable
       /\ IF readable = Buckets THEN NoFault ELSE Fault
  /\ pc' = "state_row"
  /\ UNCHANGED <<tables, provider, cur, site, seenRow, seenIds, processed, ghosts>>

(* hasStateRow answers true when it cannot read the row.                   *)
CheckStateRow(o) ==
  /\ pc = "state_row"
  /\ o.ok = o.committed /\ D1(o)
  /\ IF hasRow \/ ~o.ok
       THEN IF entries = {}
              THEN EndOfTick
              ELSE pc' = "seen" /\ UNCHANGED <<cur, tick>>
       ELSE pc' = "seed" /\ UNCHANGED <<cur, tick>>
  /\ UNCHANGED <<tables, provider, site, seenRow, ghosts>>

(* Mutant: the first run only says that there was one.                     *)
SeedPlaceholder(o) ==
  /\ pc = "seed"
  /\ AddSeenIds(o, {Bootstrap})
  /\ bootstrapped' = bootstrapped
  /\ EndOfTick
  /\ D1(o)
  /\ UNCHANGED <<tables, provider, site>>

(* The first run marks what is listed without working on it.               *)
SeedSeen(o) ==
  /\ pc = "seed"
  /\ AddSeenIds(o, IF entries = {} THEN {Bootstrap} ELSE entries)
  /\ bootstrapped' = IF o.committed THEN entries ELSE bootstrapped
  /\ EndOfTick
  /\ D1(o)
  /\ UNCHANGED <<tables, provider, site>>

(* Mutant: an unreadable seen set counts as an empty one.                  *)
ReadSeenAsEmpty(o) ==
  /\ pc = "seen"
  /\ o.ok = o.committed /\ D1(o)
  /\ seenIds' = IF o.ok THEN ToSet(seen) ELSE {}
  /\ pc' = "next"
  /\ UNCHANGED <<tables, provider, cur, site, seenRow, entries, processed, ghosts>>

(* getSeenIds.  Unreadable, the tick ends before it re-notifies everything.*)
ReadSeen(o) ==
  /\ pc = "seen"
  /\ o.ok = o.committed /\ D1(o)
  /\ IF o.ok
       THEN /\ seenIds' = ToSet(seen) /\ pc' = "next"
            /\ UNCHANGED <<cur, entries, processed>>
       ELSE EndOfTick
  /\ UNCHANGED <<tables, provider, site, seenRow, ghosts>>

(* The first entry that is not seen, if the deadline has not passed; the   *)
(* budget counts it before its work.                                       *)
TakeEntry ==
  /\ pc = "next" /\ processed < MAX_MESSAGES_PER_TICK
  /\ \E m \in entries \ seenIds :
       /\ \A k \in entries \ seenIds : m <= k
       /\ cur' = m
       /\ entries' = {k \in entries : k > m}
  /\ processed' = processed + 1
  /\ pc' = "parse"
  /\ NoFault
  /\ UNCHANGED <<tables, provider, site, seenRow, seenIds, ghosts>>

(* vt: a message without a route change is marked and never stored.        *)
JudgeIrrelevant ==
  /\ pc = "parse" /\ cur \in Irrelevant
  /\ pc' = "mark"
  /\ NoFault
  /\ UNCHANGED <<tables, provider, cur, site, seenRow, tick, ghosts>>

(* The pipeline; an unreadable message never gets past its parse.          *)
Pipe ==
  /\ PipelineStep
  /\ pc = "parse" => pc' \in {"rejected", "thrown"} \/ cur \notin Unreadable \cup Irrelevant
  /\ UNCHANGED <<site, seenRow, tick, ghosts>>

(* Mutant: a failed message is marked as seen too.                         *)
MarkSeenAlways(o) ==
  /\ pc \in {"submitted", "mark", "rejected"}
  /\ AddSeenIds(o, {cur})
  /\ seenIds' = seenIds \cup {cur}
  /\ pc' = "next" /\ cur' = NoMsg
  /\ D1(o)
  /\ UNCHANGED <<tables, provider, site, entries, processed, bootstrapped>>

MarkSeen(o) ==
  /\ pc \in {"submitted", "mark"}
  /\ AddSeenIds(o, {cur})
  /\ seenIds' = seenIds \cup {cur}
  /\ pc' = "next" /\ cur' = NoMsg
  /\ D1(o)
  /\ UNCHANGED <<tables, provider, site, entries, processed, bootstrapped>>

(* Mutant: a failed message ends the tick.                                 *)
StopAtFailed ==
  /\ pc = "rejected"
  /\ EndOfTick
  /\ NoFault
  /\ UNCHANGED <<tables, provider, site, seenRow, ghosts>>

(* A message that failed does not hold the next one back within the tick,  *)
(* if there is time left.                                                  *)
PassOverFailed ==
  /\ pc = "rejected" /\ cur \notin Stalling
  /\ pc' = "next" /\ cur' = NoMsg
  /\ NoFault
  /\ UNCHANGED <<tables, provider, site, seenRow, tick, ghosts>>

(* The list, the budget or the time is used up, or the pipeline threw.     *)
EndTick ==
  /\ \/ pc \in {"next", "thrown"}
     \/ pc = "rejected" /\ cur \in Stalling
  /\ EndOfTick
  /\ NoFault
  /\ UNCHANGED <<tables, provider, site, seenRow, ghosts>>

(* The isolate is killed, or the runner abandons the source.               *)
Kill ==
  /\ pc # "idle"
  /\ EndOfTick
  /\ Fault
  /\ UNCHANGED <<tables, provider, site, seenRow, ghosts>>

CrawlStep ==
  \/ FetchEntries \/ TakeEntry \/ JudgeIrrelevant \/ PassOverFailed \/ EndTick
  \/ \E o \in D1Outcomes :
       CheckStateRow(o) \/ SeedSeen(o) \/ ReadSeen(o) \/ MarkSeen(o)

Next == Publish \/ TakeDown \/ CrawlStep \/ Pipe \/ Kill

(* The cron keeps firing and a tick keeps going; a turn that tick after    *)
(* tick is come to is not always too late for the deadline; and a message  *)
(* that can be parsed is not refused by the model for ever.                *)
ParseSucceeds(m) ==
  /\ cur = m /\ pc = "parse"
  /\ CrawlStep \/ Pipe
  /\ pc' \in {"store", "mark"}

Fairness ==
  /\ WF_vars(CrawlStep \/ Pipe)
  /\ \A turn \in 1..MAX_MESSAGES_PER_TICK : SF_vars(TakeEntry /\ processed' = turn)
  /\ \A m \in Ids \ Unreadable : SF_vars(ParseSucceeds(m))

Spec == Init /\ [][Next]_vars /\ Fairness

(* ----------------------------- properties ------------------------------ *)

(* A marked message is only taken up again after MAX_SEEN_IDS newer ones   *)
(* were marked: the cap forgets the oldest mark, a lost or repeated write  *)
(* forgets nothing, and a read that fails does not look like an empty set  *)
(* (mergeSeenIds, getSeenIds).                                             *)
ReworkedOnlyPastCap ==
  pc = "parse" => later[cur] \in {MAX_SEEN_IDS, None}

(* Nothing is marked that is still owed: a mark means delivered, given up  *)
(* after failed pushes, without a route change, or there before the first  *)
(* run.                                                                    *)
MarkedMeansDone ==
  \A m \in ToSet(seen) \ {Bootstrap} :
    alert[m] = "notified" \/ Abandoned(m) \/ m \in Irrelevant \cup bootstrapped

(* What was on the page before the first run is only worked on if it was   *)
(* marked before, unless a statement or the fetch of a type failed: the    *)
(* backlog of the types the first run could not read is worked on later.   *)
BacklogLeftAlone ==
  pc = "parse" /\ cur \in 1..History /\ faults = 0 => later[cur] # None

(* The seen set between steps: at most MAX_SEEN_IDS of them, all of them   *)
(* finished with, and the backlog among them (state.ts, epro.ts).          *)
SeenSafe ==
  /\ TypeOK
  /\ MarkedMeansDone
  /\ BacklogLeftAlone

(* What makes them inductive.  The steps that follow the read of the set   *)
(* know every mark there is; an irrelevant message is all that is marked   *)
(* without the pipeline's answer.                                          *)
Working == PipelinePCs \cup {"next", "mark"}

MarkingInv ==
  /\ pc \in PipelinePCs \cup {"mark"} => cur \in Ids
  /\ pc \in Working => ToSet(seen) \subseteq seenIds
  /\ pc = "mark" => cur \in Irrelevant
  /\ ~hasRow => seen = <<>>
  /\ pc = "seed" => ~hasRow

(* A mark that was not forgotten stands where its successors put it.       *)
PlaceInv ==
  \A m \in Ids : later[m] < MAX_SEEN_IDS =>
    Len(seen) - later[m] \in DOMAIN seen /\ seen[Len(seen) - later[m]] = m

(* The first run has all of the backlog before it, and marks it.           *)
BacklogInv ==
  /\ History <= latest
  /\ faults = 0 =>
       /\ pc \in {"state_row", "seed"} => visible \cap 1..History \subseteq entries
       /\ pc \in {"seen"} \cup Working => hasRow
       /\ hasRow => \A m \in (visible \cup entries \cup {cur}) \cap 1..History : later[m] # None

IInv ==
  /\ SeenSafe /\ PipelineInv /\ MarkingInv /\ PlaceInv /\ BacklogInv
  /\ ReworkedOnlyPastCap

(* The unreadable messages a tick works on before it gets to m.            *)
InTheWay(m) == {k \in visible \cap Unreadable : k < m /\ k \notin ToSet(seen)}

(* The head of the list takes all of every tick: the time, or the budget.  *)
HeldBack(m) ==
  \/ InTheWay(m) \cap Stalling # {}
  \/ Cardinality(InTheWay(m)) >= MAX_MESSAGES_PER_TICK

(* A message that can be parsed is marked, or taken off the page, however  *)
(* many others fail before it, if they leave some time and some of the     *)
(* budget: a head of the list that never parses takes its share of every   *)
(* tick and no more (the loops of epro.ts and vt.ts, which have no attempt *)
(* cap to get rid of such a head).                                         *)
EveryMessageMarked ==
  \A m \in Ids \ Unreadable :
    m \in visible ~> (m \in ToSet(seen) \/ m \notin visible \/ HeldBack(m))
=============================================================================
