----------------------------- MODULE CrawlState ------------------------------
(***************************************************************************)
(* What the crawlers with a numeric cursor keep in D1 (ingestion/state.ts):*)
(* the crawl_state row and the attempt counters.  Every statement can      *)
(* fail, and the functions of state.ts swallow the failure: what the       *)
(* caller then sees is up to the crawler's action.                         *)
(***************************************************************************)
EXTENDS Pipeline

CONSTANT MAX_PRE_STORE_ATTEMPTS  \* claims after which a message is given up

ASSUME CrawlStateConstants == MAX_PRE_STORE_ATTEMPTS \in Nat \ {0}

VARIABLES
  cursor,    \* crawl_state.last_id, 0 without a row
  hasRow,    \* the crawl_state row exists
  attempts,  \* ingest_attempts.attempts, 0 without a row
  skipped    \* messages whose ingest_attempts row has skipped_at set

crawlState == <<cursor, hasRow>>
attemptRows == <<attempts, skipped>>

(* The code only asks whether a count is past the cap, so counts saturate. *)
AttemptCeiling == MAX_PRE_STORE_ATTEMPTS + 1

StateInit ==
  /\ cursor = 0 /\ hasRow = FALSE
  /\ attempts = [m \in Ids |-> 0] /\ skipped = {}

StateTypeOK ==
  /\ cursor \in 0..MaxId
  /\ hasRow \in BOOLEAN
  /\ attempts \in [Ids -> 0..AttemptCeiling]
  /\ skipped \subseteq Ids

(* bumpIngestAttempt counts the attempt before the work is done, and       *)
(* claimAttempt refuses it past the cap, unless it could not count.        *)
BumpAttempts(o) ==
  attempts' = IF o.committed
                THEN [attempts EXCEPT ![cur] = Bump(@, AttemptCeiling)]
                ELSE attempts

Refused(o) == o.ok /\ attempts'[cur] > MAX_PRE_STORE_ATTEMPTS

(* releaseAttempts deletes the row.                                        *)
ClearAttempts(o) ==
  IF o.committed
    THEN /\ attempts' = [attempts EXCEPT ![cur] = 0]
         /\ skipped' = skipped \ {cur}
    ELSE UNCHANGED attemptRows

(* recordSkip.                                                             *)
RecordSkip(o) == skipped' = IF o.committed THEN skipped \cup {cur} ELSE skipped

(* writeLastId: an upsert.                                                 *)
WriteLastId(o, id) ==
  IF o.committed
    THEN cursor' = id /\ hasRow' = TRUE
    ELSE UNCHANGED crawlState
=============================================================================
