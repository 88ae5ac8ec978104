----------------------------- MODULE IdListing ------------------------------
(***************************************************************************)
(* The crawler for id-numbered listings (sources/id-listing.ts; heating):  *)
(* one cron tick after another reads the cursor, fetches the listing and   *)
(* drives the oldest new messages through the pipeline.  The tick can be   *)
(* killed at any await, and any D1 statement or fetch can fail.            *)
(*                                                                         *)
(* The listing is newest-first (the code relies on it), so what it shows   *)
(* is a set of ids.  One tick of a source runs at a time: the runner's     *)
(* five-minute deadline keeps ticks fifteen minutes apart from overlapping.*)
(***************************************************************************)
EXTENDS CrawlState, FiniteSets

CONSTANTS
  MAX_MESSAGES_PER_TICK,  \* messages one tick works on
  History                 \* ids published before the source's first tick

ASSUME IdListingConstants ==
  /\ MAX_MESSAGES_PER_TICK \in Nat \ {0}
  /\ History \in 0..MaxId

VARIABLES
  visible,   \* ids the listing shows
  latest,    \* newest id published so far
  storedId,  \* the tick's copy of the cursor
  todo,      \* the ids the tick has collected and not yet taken
  seeded,    \* history: the id the first run put in the cursor
  gaveUp     \* history: messages the crawler moved past undelivered

site == <<visible, latest>>
ghosts == <<seeded, gaveUp>>
vars == <<pipelineVars, site, crawlState, attemptRows, storedId, todo, ghosts>>

PCs == PipelinePCs \cup
  {"idle", "listing", "state_row", "seed", "next", "claim", "skip", "advance"}

Init ==
  /\ PipelineInit
  /\ latest = History
  /\ visible = 1..History
  /\ StateInit
  /\ storedId = 0 /\ todo = {}
  /\ seeded = 0 /\ gaveUp = {}

TypeOK ==
  /\ PipelineTypeOK
  /\ StateTypeOK
  /\ pc \in PCs
  /\ cur \in Ids \cup {NoMsg}
  /\ visible \subseteq 1..latest
  /\ latest \in 0..MaxId
  /\ storedId \in 0..MaxId
  /\ todo \subseteq Ids
  /\ seeded \in 0..MaxId
  /\ gaveUp \subseteq Ids

(* What the tables, or the crawler's decision, say is finished with.       *)
Settled(m) == alert[m] = "notified" \/ Abandoned(m) \/ m \in gaveUp

(* Finished with: settled, or already there before the first run.          *)
Finished(m) == m <= seeded \/ Settled(m)

(* ------------------------------ the site ------------------------------- *)

(* A new message appears at the top of the listing; ids may have holes.    *)
Publish ==
  /\ \E m \in (latest + 1)..MaxId :
       latest' = m /\ visible' = visible \cup {m}
  /\ UNCHANGED <<pipelineVars, crawlState, attemptRows, storedId, todo, ghosts>>

(* The oldest link falls off the listing.                                  *)
AgeOff ==
  /\ \E m \in visible :
       /\ \A k \in visible : m <= k
       /\ visible' = visible \ {m}
  /\ UNCHANGED <<pipelineVars, latest, crawlState, attemptRows, storedId, todo, ghosts>>

(* ------------------------------ the tick ------------------------------- *)

(* Mutant: the cap keeps the newest messages.                              *)
BatchOfNewest(new) ==
  {m \in new : Cardinality({k \in new : k > m}) < MAX_MESSAGES_PER_TICK}

(* The cap keeps the oldest messages of the reversed, ascending list.      *)
Batch(new) ==
  {m \in new : Cardinality({k \in new : k < m}) < MAX_MESSAGES_PER_TICK}

(* The tick ends here; what is not done waits for the next one.            *)
ToIdle == pc' = "idle" /\ cur' = NoMsg /\ todo' = {} /\ storedId' = 0

(* getLastId.  An unreadable cursor ends the tick before it has begun.     *)
ReadCursor ==
  /\ pc = "idle"
  /\ storedId' = cursor
  /\ pc' = "listing"
  /\ NoFault
  /\ UNCHANGED <<tables, provider, cur, site, crawlState, attemptRows, todo, ghosts>>

(* Mutant: the message at the cursor counts as new.                        *)
NewMessagesFromCursor == {m \in visible : m >= storedId}

NewMessages == {m \in visible : m > storedId}

FetchListing ==
  /\ pc = "listing"
  /\ NewMessages # {}
  /\ IF storedId = 0
       THEN pc' = "state_row" /\ todo' = NewMessages
       ELSE pc' = "next" /\ todo' = Batch(NewMessages)
  /\ NoFault
  /\ UNCHANGED <<tables, provider, cur, site, crawlState, attemptRows, storedId, ghosts>>

(* Mutant: a first run is not told from one that lost its cursor.          *)
CheckStateRowNever ==
  /\ pc = "state_row"
  /\ pc' = "next" /\ todo' = Batch(todo)
  /\ NoFault
  /\ UNCHANGED <<tables, provider, cur, site, crawlState, attemptRows, storedId, ghosts>>

(* hasStateRow answers TRUE when it cannot read the row.                   *)
CheckStateRow ==
  /\ pc = "state_row"
  /\ \E o \in {Ok, Failed} :
       /\ D1(o)
       /\ IF hasRow \/ ~o.ok
            THEN pc' = "next" /\ todo' = Batch(todo)
            ELSE pc' = "seed" /\ todo' = todo
  /\ UNCHANGED <<tables, provider, cur, site, crawlState, attemptRows, storedId, ghosts>>

(* First run: the newest visible id becomes the cursor, unprocessed.       *)
SeedCursor(o) ==
  /\ pc = "seed"
  /\ \E newest \in todo :
       /\ \A m \in todo : m <= newest
       /\ WriteLastId(o, newest)
       /\ seeded' = IF o.committed THEN newest ELSE seeded
  /\ ToIdle
  /\ D1(o)
  /\ UNCHANGED <<tables, provider, site, attemptRows, gaveUp>>

(* Mutant: the list is not reversed, the newest message goes first.        *)
FetchNewestMessage ==
  /\ pc = "next"
  /\ \E m \in todo :
       /\ \A k \in todo : m >= k
       /\ cur' = m /\ todo' = todo \ {m}
  /\ pc' = "claim"
  /\ NoFault
  /\ UNCHANGED <<tables, provider, site, crawlState, attemptRows, storedId, ghosts>>

(* The oldest message left in the batch, and its page.                     *)
FetchMessage ==
  /\ pc = "next"
  /\ \E m \in todo :
       /\ \A k \in todo : m <= k
       /\ cur' = m /\ todo' = todo \ {m}
  /\ pc' = "claim"
  /\ NoFault
  /\ UNCHANGED <<tables, provider, site, crawlState, attemptRows, storedId, ghosts>>

(* claimAttempt: the count is written before the work.  If it cannot be    *)
(* written the message is attempted all the same.                          *)
ClaimAttempt(o) ==
  /\ pc = "claim"
  /\ BumpAttempts(o)
  /\ pc' = IF Refused(o) THEN "skip" ELSE "parse"
  /\ D1(o)
  /\ UNCHANGED <<tables, provider, cur, site, crawlState, skipped, storedId, todo, ghosts>>

(* Mutant: giving up forgets to move the cursor.                           *)
GiveUpInPlace(o) ==
  /\ pc = "skip"
  /\ RecordSkip(o)
  /\ gaveUp' = gaveUp \cup {cur}
  /\ pc' = "next" /\ cur' = NoMsg
  /\ D1(o)
  /\ UNCHANGED <<tables, provider, site, crawlState, attempts, storedId, todo, seeded>>

(* Mutant: the record is left to the next attempt at the message.          *)
GiveUpUnrecorded(o) ==
  /\ pc = "skip"
  /\ gaveUp' = gaveUp \cup {cur}
  /\ pc' = "advance"
  /\ D1(o)
  /\ UNCHANGED <<tables, provider, cur, site, crawlState, attemptRows, storedId, todo, seeded>>

(* Past the cap: recordSkip, whose failure is swallowed.                   *)
GiveUp(o) ==
  /\ pc = "skip"
  /\ RecordSkip(o)
  /\ gaveUp' = gaveUp \cup {cur}
  /\ pc' = "advance"
  /\ D1(o)
  /\ UNCHANGED <<tables, provider, cur, site, crawlState, attempts, storedId, todo, seeded>>

(* The message went through: forget its attempts.                          *)
ReleaseAttempts(o) ==
  /\ pc = "submitted"
  /\ ClearAttempts(o)
  /\ pc' = "advance"
  /\ D1(o)
  /\ UNCHANGED <<tables, provider, cur, site, crawlState, storedId, todo, ghosts>>

(* writeLastId, per message; a failure is swallowed and the batch goes on. *)
AdvanceCursor(o) ==
  /\ pc = "advance"
  /\ WriteLastId(o, cur)
  /\ pc' = "next"
  /\ cur' = NoMsg
  /\ D1(o)
  /\ UNCHANGED <<tables, provider, site, attemptRows, storedId, todo, ghosts>>

(* Mutant: a rejected message does not stop the batch.                     *)
EndTickNotOnReject ==
  /\ \/ pc \in {"listing", "next"} /\ ToIdle
     \/ /\ pc \in {"rejected", "thrown"} /\ pc' = "next" /\ cur' = NoMsg
        /\ UNCHANGED <<todo, storedId>>
  /\ NoFault
  /\ UNCHANGED <<tables, provider, site, crawlState, attemptRows, ghosts>>

(* The listing fails or shows nothing new; the batch is done; the deadline *)
(* has passed or a page cannot be fetched; a message was rejected or threw,*)
(* which the crawler's catch makes the same.                               *)
EndTick ==
  /\ pc \in {"listing", "next", "rejected", "thrown"}
  /\ ToIdle
  /\ NoFault
  /\ UNCHANGED <<tables, provider, site, crawlState, attemptRows, ghosts>>

(* The isolate is killed, or the runner abandons the source: everything in *)
(* memory is lost and the tables stay.                                     *)
Kill ==
  /\ pc # "idle"
  /\ ToIdle
  /\ Fault
  /\ UNCHANGED <<tables, provider, site, crawlState, attemptRows, ghosts>>

Pipe ==
  /\ PipelineStep
  /\ UNCHANGED <<site, crawlState, attemptRows, storedId, todo, ghosts>>

CrawlStep ==
  \/ ReadCursor
  \/ FetchListing
  \/ CheckStateRow
  \/ FetchMessage
  \/ EndTick
  \/ \E o \in D1Outcomes :
       \/ SeedCursor(o)
       \/ ClaimAttempt(o)
       \/ GiveUp(o)
       \/ ReleaseAttempts(o)
       \/ AdvanceCursor(o)

Next == Publish \/ AgeOff \/ CrawlStep \/ Pipe \/ Kill

Spec == Init /\ [][Next]_vars

(* The cron keeps firing and a running tick keeps going (WF); the site     *)
(* does not fail on every fetch for ever (SF).  Faults are bounded by      *)
(* MaxFaults; parsing, sending and the guards may fail every time.         *)
Fairness ==
  /\ WF_vars(CrawlStep \/ Pipe)
  /\ SF_vars(FetchListing)
  /\ SF_vars(FetchMessage)

FairSpec == Spec /\ Fairness

(* ----------------------------- properties ------------------------------ *)

(* The cursor never passes a message that is still owed: whatever is on    *)
(* the listing at or below it was there before the first run, or was       *)
(* delivered, abandoned after its failed pushes, or given up (the cursor   *)
(* semantics of id-listing.ts: advance only past successes).               *)
CursorPassesOnlySettled ==
  \A m \in visible : m <= cursor => Finished(m)

(* Oldest-first: a push goes out only when every older message on the      *)
(* listing is finished with, so a failed message blocks the newer ones.    *)
OldestFirst ==
  [][\A m \in Ids : pushed'[m] # pushed[m] =>
       \A k \in visible : k < m => Finished(k)]_vars

(* Neither a retried tick nor a kill moves the cursor back.                *)
CursorNeverBack == [][cursor' >= cursor]_vars

(* Once the cursor has passed a message no later tick pushes it.           *)
PassedNeverPushed ==
  [][\A m \in Ids : m <= cursor => pushed'[m] = pushed[m]]_vars

(* No message pins the source: whatever parsing, storing and pushing do,   *)
(* a published message is passed, or has aged off the listing.             *)
EveryMessagePassed ==
  \A m \in Ids : m \in visible ~> (m <= cursor \/ m \notin visible)

(* Nothing is skipped in silence: a given-up message below the cursor has  *)
(* its skipped_at, unless a statement failed or a tick was killed on the   *)
(* way (recordSkip swallows its failure, and the cursor moves all the      *)
(* same).                                                                  *)
SkipsRecorded == \A m \in gaveUp : m <= cursor => m \in skipped \/ faults > 0

(* What the crawl leaves between its steps: tables of their types, a       *)
(* cursor above nothing owed, and a record of what was skipped (id-        *)
(* listing.ts, the cursor semantics).                                      *)
CursorSafe ==
  /\ TypeOK
  /\ CursorPassesOnlySettled
  /\ SkipsRecorded

(* The order of what users get: oldest first, forwards only, and nothing   *)
(* from behind the cursor (crawlIdListing).                                *)
PushesInOrder ==
  /\ OldestFirst
  /\ CursorNeverBack
  /\ PassedNeverPushed

(* Cursor passing, and the order of pushes, as the abstract specification  *)
(* of a crawler states them (OrderedDelivery).                             *)
finished == {m \in Ids : Finished(m)}
Abstract == INSTANCE OrderedDelivery WITH settled <- finished
ImplementsOrderedDelivery == Abstract!Spec

(* What a tick relies on while it runs: nothing moves the stored cursor    *)
(* under it, its list is ahead of the cursor and below it everything on    *)
(* the listing is finished with or listed, its message comes before the    *)
(* rest of the list, and the cursor is written for settled messages only.  *)
TickInv ==
  /\ cursor <= latest
  /\ pc \in {"listing", "state_row", "seed"} => storedId = cursor
  /\ pc \in {"state_row", "seed"} => cursor = 0
  /\ pc = "seed" => ~hasRow
  /\ ~hasRow => cursor = 0 /\ seeded = 0
  /\ pc \in {"idle", "listing"} => todo = {}
  /\ pc \in {"idle", "listing", "state_row", "seed", "next"} <=> cur = NoMsg
  /\ \A t \in todo :
       /\ cursor < t /\ t <= latest
       /\ \A m \in visible : m < t => Finished(m) \/ m \in todo \/ m = cur
  /\ cur # NoMsg =>
       /\ cursor < cur /\ cur <= latest
       /\ \A t \in todo : cur < t
       /\ \A m \in visible : m < cur => Finished(m)
  /\ pc = "advance" => Settled(cur)

IInv == TypeOK /\ PipelineInv /\ TickInv /\ CursorPassesOnlySettled

(* Without a fault every given-up message is recorded, and it is below the *)
(* cursor or about to be.                                                  *)
SkipInv ==
  \A m \in gaveUp : faults > 0 \/
    (m \in skipped /\ (m <= cursor \/ (m = cur /\ pc = "advance")))

(* The pushes of a message that no failure has to answer for: its first,   *)
(* unless it is history.                                                   *)
FirstPush(m) == IF m \in 1..History THEN 0 ELSE 1

(* An alert is pushed once, and the history of the first run not at all,   *)
(* and once more for every kill, every failed statement and every failed   *)
(* send that some of its users had (README.md:69, "delayed rather than     *)
(* lost or duplicated"; hasStateRow of state.ts).  The count is exact: it  *)
(* stops at PushCeiling, which may be any number.                          *)
OnlyFailuresRepeat ==
  \A m \in Ids : pushed[m] <= faults + pushFails[m] + FirstPush(m)

(* Until the first failure nothing of the history is worked on: a listing  *)
(* that shows anything shows its newest message, so the first run puts the *)
(* cursor above the history.                                               *)
FirstRunInv ==
  /\ History <= latest
  /\ visible # {} => latest \in visible
  /\ pc \in {"state_row", "seed"} => \E t \in todo : History <= t
  /\ faults = 0 /\ cursor < History =>
       ~hasRow /\ pc \in {"idle", "listing", "state_row", "seed"}

(* The push of this message is out, and what it counts for is not settled. *)
Unsettled(m) == cur = m /\ pc \in {"count", "stamp", "submitted", "advance"}

(* A message that can be pushed again has a failure, or its first push, to *)
(* spare: the call that pushed it has answered with one.                   *)
RepeatInv ==
  /\ OnlyFailuresRepeat
  /\ \A m \in Ids :
       cursor < m /\ alert[m] # "notified" /\ ~Unsettled(m) =>
         pushed[m] = 0 \/ pushed[m] < faults + pushFails[m] + FirstPush(m)
=============================================================================
