------------------------------ MODULE IdProbe -------------------------------
(***************************************************************************)
(* The crawler that walks the id space (sources/id-probe.ts; ViK): from    *)
(* the cursor on it fetches one numbered page after another, whether or    *)
(* not the id holds a message yet, and drives what it finds through the    *)
(* pipeline.  It stops at a few empty ids in a row; when the cursor has    *)
(* been stuck for hours it asks the listing for a way over the hole.       *)
(*                                                                         *)
(* The site numbers its messages upwards, with holes (dead ids, and pages  *)
(* the parser does not recognise), and its listing shows only some types.  *)
(***************************************************************************)
EXTENDS CrawlState

CONSTANTS
  MAX_MESSAGES_PER_TICK,   \* messages one tick works on
  MAX_CONSECUTIVE_MISSES,  \* empty ids that end a walk
  MaxPublished,            \* bound: the site numbers messages up to here
  History                  \* ids published before the source's first tick

ASSUME IdProbeConstants ==
  /\ MAX_MESSAGES_PER_TICK \in Nat \ {0}
  /\ MAX_CONSECUTIVE_MISSES \in Nat \ {0}
  /\ MaxPublished \in 0..MaxId
  /\ History \in 0..MaxPublished

VARIABLES
  published,  \* ids whose page holds a message
  visible,    \* ids the listing shows
  latest,     \* newest id published so far
  stale,      \* crawl_state.updated_at is older than STALE_CURSOR_MS
  from,       \* the tick's copy of the cursor
  id,         \* the tick's next id; the listing's answer at "seed" and "jump"
  empty,      \* the fetched page holds no message
  misses,     \* empty ids in a row
  processed,  \* messages the tick has submitted or given up
  missed,     \* ids this walk has read as empty
  seeded,     \* history: the id the first run put in the cursor
  gaveUp,     \* history: messages the crawler moved past undelivered
  overEmpty,  \* history: ids a success stepped over because its walk missed them
  jumped      \* history: ids stepOverDeadIds stepped over

site == <<published, visible, latest>>
walk == <<from, id, empty, misses, processed, missed>>
ghosts == <<seeded, gaveUp, overEmpty, jumped>>
vars == <<pipelineVars, crawlState, stale, attemptRows, site, walk, ghosts>>

PCs == PipelinePCs \cup
  {"idle", "state_row", "seed_listing", "seed", "probe", "claim", "page",
   "skip", "advance", "stuck", "jump"}

NoWalk ==
  from = 0 /\ id = 0 /\ empty = FALSE /\ misses = 0 /\ processed = 0 /\ missed = {}

Init ==
  /\ PipelineInit /\ StateInit
  /\ latest = History /\ published = 1..History /\ visible = 1..History
  /\ stale = FALSE
  /\ NoWalk
  /\ seeded = 0 /\ gaveUp = {} /\ overEmpty = {} /\ jumped = {}

TypeOK ==
  /\ PipelineTypeOK /\ StateTypeOK
  /\ pc \in PCs
  /\ cur \in Ids \cup {NoMsg}
  /\ latest \in 0..MaxPublished
  /\ published \subseteq 1..latest /\ visible \subseteq published
  /\ stale \in BOOLEAN /\ empty \in BOOLEAN
  /\ from \in 0..MaxId
  /\ id \in 0..(MaxId + 1)
  /\ misses \in 0..MAX_CONSECUTIVE_MISSES
  /\ processed \in 0..MAX_MESSAGES_PER_TICK
  /\ missed \subseteq Ids
  /\ seeded \in 0..MaxId
  /\ gaveUp \subseteq Ids /\ overEmpty \subseteq Ids /\ jumped \subseteq Ids

Settled(m) == alert[m] = "notified" \/ Abandoned(m) \/ m \in gaveUp
Finished(m) == m <= seeded \/ Settled(m)

(* ------------------------- the site, the clock -------------------------- *)

(* A message of a type that is listed, or of another.                      *)
Publish ==
  /\ \E m \in (latest + 1)..MaxPublished :
       /\ latest' = m /\ published' = published \cup {m}
       /\ visible' \in {visible, visible \cup {m}}
  /\ UNCHANGED <<pipelineVars, crawlState, stale, attemptRows, walk, ghosts>>

AgeOff ==
  /\ \E m \in visible :
       /\ \A k \in visible : m <= k
       /\ visible' = visible \ {m}
  /\ UNCHANGED <<pipelineVars, crawlState, stale, attemptRows, published, latest,
                 walk, ghosts>>

(* Six hours pass without a write of the cursor.                           *)
GrowStale ==
  /\ hasRow /\ ~stale
  /\ stale' = TRUE
  /\ UNCHANGED <<pipelineVars, crawlState, attemptRows, site, walk, ghosts>>

(* Every write of the cursor stamps updated_at.                            *)
Write(o, newId) ==
  /\ WriteLastId(o, newId)
  /\ stale' = IF o.committed THEN FALSE ELSE stale

(* ------------------------------ the tick ------------------------------- *)

ToIdle ==
  /\ pc' = "idle" /\ cur' = NoMsg
  /\ from' = 0 /\ id' = 0 /\ empty' = FALSE
  /\ misses' = 0 /\ processed' = 0 /\ missed' = {}

(* Mutant: the walk begins at the cursor.                                  *)
ReadCursorAgain ==
  /\ pc = "idle"
  /\ from' = cursor /\ id' = IF cursor = 0 THEN 1 ELSE cursor
  /\ pc' = IF cursor = 0 THEN "state_row" ELSE "probe"
  /\ NoFault
  /\ UNCHANGED <<tables, provider, cur, crawlState, stale, attemptRows, site,
                 empty, misses, processed, missed, ghosts>>

(* getLastId.  An unreadable cursor ends the tick before it has begun.     *)
ReadCursor ==
  /\ pc = "idle"
  /\ from' = cursor /\ id' = cursor + 1
  /\ pc' = IF cursor = 0 THEN "state_row" ELSE "probe"
  /\ NoFault
  /\ UNCHANGED <<tables, provider, cur, crawlState, stale, attemptRows, site,
                 empty, misses, processed, missed, ghosts>>

(* hasStateRow answers TRUE when it cannot read the row.                   *)
CheckStateRow ==
  /\ pc = "state_row"
  /\ \E o \in {Ok, Failed} :
       /\ D1(o)
       /\ pc' = IF hasRow \/ ~o.ok THEN "probe" ELSE "seed_listing"
  /\ UNCHANGED <<tables, provider, cur, crawlState, stale, attemptRows, site, walk, ghosts>>

(* First run: the newest listed id becomes the cursor.                     *)
ReadListingToSeed ==
  /\ pc = "seed_listing"
  /\ \E newest \in visible :
       /\ \A m \in visible : m <= newest
       /\ id' = newest
  /\ pc' = "seed"
  /\ NoFault
  /\ UNCHANGED <<tables, provider, cur, crawlState, stale, attemptRows, site,
                 from, empty, misses, processed, missed, ghosts>>

SeedCursor(o) ==
  /\ pc = "seed"
  /\ Write(o, id)
  /\ seeded' = IF o.committed THEN id ELSE seeded
  /\ ToIdle
  /\ D1(o)
  /\ UNCHANGED <<tables, provider, attemptRows, site, gaveUp, overEmpty, jumped>>

(* The page of the next id, as it is now; MaxId bounds the walk.           *)
FetchPage ==
  /\ pc = "probe"
  /\ processed < MAX_MESSAGES_PER_TICK /\ misses < MAX_CONSECUTIVE_MISSES
  /\ id <= MaxId
  /\ cur' = id /\ empty' = (id \notin published)
  /\ pc' = "claim"
  /\ NoFault
  /\ UNCHANGED <<tables, provider, crawlState, stale, attemptRows, site,
                 from, id, misses, processed, missed, ghosts>>

(* claimAttempt, before anyone knows whether the page holds a message.     *)
ClaimAttempt(o) ==
  /\ pc = "claim"
  /\ BumpAttempts(o)
  /\ pc' = IF Refused(o) THEN "skip" ELSE "page"
  /\ D1(o)
  /\ UNCHANGED <<tables, provider, cur, crawlState, stale, skipped, site, walk, ghosts>>

(* Past the cap, empty or not: recordSkip, whose failure is swallowed.     *)
GiveUp(o) ==
  /\ pc = "skip"
  /\ RecordSkip(o)
  /\ gaveUp' = gaveUp \cup {cur}
  /\ pc' = "advance"
  /\ D1(o)
  /\ UNCHANGED <<tables, provider, cur, crawlState, stale, attempts, site, walk,
                 seeded, overEmpty, jumped>>

(* Mutant: an empty id keeps its claim.                                    *)
MissKeepingClaim(o) ==
  /\ pc = "page" /\ empty
  /\ UNCHANGED attemptRows
  /\ misses' = misses + 1 /\ missed' = missed \cup {cur}
  /\ id' = id + 1 /\ pc' = "probe" /\ cur' = NoMsg /\ empty' = FALSE
  /\ D1(o)
  /\ UNCHANGED <<tables, provider, crawlState, stale, site, from, processed, ghosts>>

(* parseMessage answers null: release the claim and try the next id.       *)
Miss(o) ==
  /\ pc = "page" /\ empty
  /\ ClearAttempts(o)
  /\ misses' = misses + 1 /\ missed' = missed \cup {cur}
  /\ id' = id + 1 /\ pc' = "probe" /\ cur' = NoMsg /\ empty' = FALSE
  /\ D1(o)
  /\ UNCHANGED <<tables, provider, crawlState, stale, site, from, processed, ghosts>>

(* The page holds a message, and the pipeline takes it.  (A throw of the   *)
(* page parser ends the tick with the claim standing, as Parse's does.)    *)
Hit ==
  /\ pc = "page" /\ ~empty
  /\ misses' = 0
  /\ pc' = "parse"
  /\ NoFault
  /\ UNCHANGED <<tables, provider, cur, crawlState, stale, attemptRows, site,
                 from, id, empty, processed, missed, ghosts>>

ReleaseAttempts(o) ==
  /\ pc = "submitted"
  /\ ClearAttempts(o)
  /\ pc' = "advance"
  /\ D1(o)
  /\ UNCHANGED <<tables, provider, cur, crawlState, stale, site, walk, ghosts>>

(* After a success or a give-up: the cursor moves to the id, over the      *)
(* empty ones below it.                                                    *)
AdvanceCursor(o) ==
  /\ pc = "advance"
  /\ Write(o, cur)
  /\ overEmpty' = IF o.committed THEN overEmpty \cup {m \in missed : m < cur} ELSE overEmpty
  /\ processed' = processed + 1
  /\ id' = id + 1 /\ pc' = "probe" /\ cur' = NoMsg /\ empty' = FALSE
  /\ D1(o)
  /\ UNCHANGED <<tables, provider, attemptRows, site, from, misses, missed,
                 seeded, gaveUp, jumped>>

(* --------------------------- stepOverDeadIds ---------------------------- *)

(* Nothing but empty ids, and the cursor has been where it is for hours.   *)
FindStuck ==
  /\ pc = "probe"
  /\ processed = 0 /\ misses >= MAX_CONSECUTIVE_MISSES /\ stale
  /\ pc' = "stuck"
  /\ NoFault
  /\ UNCHANGED <<tables, provider, cur, crawlState, stale, attemptRows, site, walk, ghosts>>

(* Mutant: a hole one id wider than the walk counts as inside it.          *)
ReadListingTooNear ==
  /\ pc = "stuck"
  /\ \E target \in visible :
       /\ target > from /\ \A m \in visible : m > from => target <= m
       /\ target > from + MAX_CONSECUTIVE_MISSES + 1
       /\ id' = target
  /\ pc' = "jump"
  /\ NoFault
  /\ UNCHANGED <<tables, provider, cur, crawlState, stale, attemptRows, site,
                 from, empty, misses, processed, missed, ghosts>>

(* The oldest listed id not yet passed, if it is beyond the walk.          *)
ReadListing ==
  /\ pc = "stuck"
  /\ \E target \in visible :
       /\ target > from /\ \A m \in visible : m > from => target <= m
       /\ target > from + MAX_CONSECUTIVE_MISSES
       /\ id' = target
  /\ pc' = "jump"
  /\ NoFault
  /\ UNCHANGED <<tables, provider, cur, crawlState, stale, attemptRows, site,
                 from, empty, misses, processed, missed, ghosts>>

(* Mutant: the cursor moves onto the listed id instead of below it.        *)
JumpCursorOnto(o) ==
  /\ pc = "jump"
  /\ Write(o, id)
  /\ jumped' = IF o.committed THEN jumped \cup (from + 1)..id ELSE jumped
  /\ ToIdle
  /\ D1(o)
  /\ UNCHANGED <<tables, provider, attemptRows, site, seeded, gaveUp, overEmpty>>

JumpCursor(o) ==
  /\ pc = "jump"
  /\ Write(o, id - 1)
  /\ jumped' = IF o.committed THEN jumped \cup (from + 1)..(id - 1) ELSE jumped
  /\ ToIdle
  /\ D1(o)
  /\ UNCHANGED <<tables, provider, attemptRows, site, seeded, gaveUp, overEmpty>>

(* Mutant: a rejected message does not stop the walk.                      *)
EndTickNotOnReject ==
  /\ \/ pc \in {"probe", "seed_listing", "stuck"} /\ ToIdle
     \/ /\ pc \in {"rejected", "thrown"} /\ pc' = "probe"
        /\ id' = id + 1 /\ cur' = NoMsg /\ empty' = FALSE
        /\ UNCHANGED <<from, misses, processed, missed>>
  /\ NoFault
  /\ UNCHANGED <<tables, provider, crawlState, stale, attemptRows, site, ghosts>>

(* The walk is over, by its counters, its deadline or a page that cannot   *)
(* be fetched; the listing cannot be read or offers nothing; or a message  *)
(* was rejected or threw, which the walk's catch makes the same.           *)
EndTick ==
  /\ pc \in {"probe", "seed_listing", "stuck", "rejected", "thrown"}
  /\ ToIdle
  /\ NoFault
  /\ UNCHANGED <<tables, provider, crawlState, stale, attemptRows, site, ghosts>>

Kill ==
  /\ pc # "idle"
  /\ ToIdle
  /\ Fault
  /\ UNCHANGED <<tables, provider, crawlState, stale, attemptRows, site, ghosts>>

Pipe ==
  /\ PipelineStep
  /\ UNCHANGED <<crawlState, stale, attemptRows, site, walk, ghosts>>

CrawlStep ==
  \/ ReadCursor \/ CheckStateRow \/ ReadListingToSeed
  \/ FetchPage \/ Hit
  \/ FindStuck \/ ReadListing
  \/ EndTick
  \/ \E o \in D1Outcomes :
       \/ SeedCursor(o)
       \/ ClaimAttempt(o) \/ GiveUp(o) \/ Miss(o)
       \/ ReleaseAttempts(o) \/ AdvanceCursor(o)
       \/ JumpCursor(o)

Next == Publish \/ AgeOff \/ GrowStale \/ CrawlStep \/ Pipe \/ Kill

Spec == Init /\ [][Next]_vars

(* The cron keeps firing and a running tick keeps going; no page of the    *)
(* site fails, or comes after the deadline, for ever; time passes.         *)
Fairness ==
  /\ WF_vars(CrawlStep \/ Pipe)
  /\ \A m \in Ids : SF_vars(FetchPage /\ cur' = m)
  /\ SF_vars(ReadListingToSeed)
  /\ SF_vars(ReadListing)
  /\ SF_vars(FindStuck)
  /\ WF_vars(GrowStale)

FairSpec == Spec /\ Fairness

(* ----------------------------- properties ------------------------------ *)

(* The cursor passes no id unseen: an id at or below it was there before   *)
(* the first run, is finished with, was read as empty by the very walk     *)
(* that stepped over it, or was stepped over with a dead run while the     *)
(* listing did not show it (cursor semantics, misses, stepOverDeadIds).    *)
CursorPassesOnlyRead ==
  \A m \in Ids : m <= cursor =>
    Finished(m) \/ m \in overEmpty \/ (m \in jumped /\ m \notin visible)

(* Probing an id that is not published yet costs it nothing: the cursor is *)
(* never ahead of the site unless as many kills and failed statements as   *)
(* the cap counts have happened (the release of an empty id's claim).      *)
UnpublishedNotPassed == cursor > latest => faults >= MAX_PRE_STORE_ATTEMPTS

(* Oldest-first: a push goes out only when every older published message   *)
(* is passed, is finished with, or was read as empty in the same walk.     *)
OldestFirst ==
  [][\A m \in Ids : pushed'[m] # pushed[m] =>
       \A k \in published : k < m => k <= cursor \/ Finished(k) \/ k \in missed]_vars

(* Once the cursor has passed a message no later tick pushes it.           *)
PassedNeverPushed ==
  [][\A m \in Ids : m <= cursor => pushed'[m] = pushed[m]]_vars

(* What the walk leaves between its steps: tables of their types and a     *)
(* cursor above no id it has not seen (probeIds).                          *)
CursorSafe ==
  /\ TypeOK
  /\ CursorPassesOnlyRead

(* The order of what users get: oldest first as far as the walk has read,  *)
(* and nothing from behind the cursor (probeIds).                          *)
PushesInOrder ==
  /\ OldestFirst
  /\ PassedNeverPushed

(* Neither a failing message nor a hole of any width stops the source: a   *)
(* listed message is passed, or ages off (the cap, stepOverDeadIds).       *)
ListedMessagePassed ==
  \A m \in Ids : m \in visible ~> (m <= cursor \/ m \notin visible)

(* Why these hold.  Where the walk is: between the cursor and its next id  *)
(* it has missed or finished with everything; the listing's answer lies    *)
(* beyond every listed message not yet passed.                             *)
WithMessage == PipelinePCs \cup {"claim", "page", "skip", "advance"}
Walking == WithMessage \cup {"state_row", "probe", "stuck"}

PositionInv ==
  /\ pc \in Walking =>
       /\ from <= cursor /\ cursor < id
       /\ \A m \in Ids : cursor < m /\ m < id => m \in missed \/ Settled(m)
       /\ processed = 0 => cursor = from
  /\ pc \in {"state_row", "seed_listing", "seed"} => cursor = 0
  /\ pc = "seed" => id \in 1..latest
  /\ pc = "stuck" => processed = 0
  /\ pc = "jump" => /\ cursor = from /\ from < id /\ id <= latest
                    /\ \A m \in visible : m <= from \/ id <= m

(* What is known of the message in hand.                                   *)
MessageInv ==
  /\ pc \in WithMessage <=> cur # NoMsg
  /\ pc \in WithMessage =>
       cur = id /\ processed < MAX_MESSAGES_PER_TICK /\ misses < MAX_CONSECUTIVE_MISSES
  /\ pc \in PipelinePCs \/ (pc \in {"claim", "page"} /\ ~empty) => cur \in published
  /\ pc = "advance" => Settled(cur)

(* An unpublished id has at most one claim more than there were faults,    *)
(* the one that is being made.                                             *)
Standing(m) == IF cur = m /\ pc \in {"page", "skip", "advance"} THEN 1 ELSE 0

ClaimInv ==
  /\ \A m \in Ids : m > latest /\ m > cursor => attempts[m] <= faults + Standing(m)
  /\ pc \in {"skip", "advance"} /\ cur > latest => faults >= MAX_PRE_STORE_ATTEMPTS

HistoryInv == seeded <= cursor /\ jumped \subseteq 1..latest

IInv ==
  /\ TypeOK /\ PipelineInv
  /\ PositionInv /\ MessageInv /\ ClaimInv /\ HistoryInv
  /\ CursorPassesOnlyRead /\ UnpublishedNotPassed
=============================================================================
