------------------------------ MODULE Pipeline ------------------------------
(***************************************************************************)
(* The tail every ingestion source shares (ingestion/pipeline.ts): parse   *)
(* one source message, store its alert, push it, and stamp the delivery.   *)
(*                                                                         *)
(* One call handles one message, `cur'.  Every await of the code is a step *)
(* of its own, and `pc' names the call that is about to be awaited, so a   *)
(* killed isolate or a failed D1 statement can fall between any two of     *)
(* them.  The crawler that makes the call sets pc to "parse" and reads the *)
(* answer from pc: "submitted" is the code's `true', "rejected" its        *)
(* `false' and "thrown" a throw, which the crawlers with a cursor turn     *)
(* into false and the crawlers with a seen set do not catch.               *)
(***************************************************************************)
EXTENDS Naturals

CONSTANTS
  MaxId,              \* bound: message ids are 1..MaxId
  MaxFaults,          \* bound: D1 failures and kills in one behaviour
  PushCeiling,        \* bound: pushes of one message are counted up to it
  MAX_PUSH_ATTEMPTS,  \* failed sends after which a push is abandoned
  Hedged,             \* ids whose text is hedged (isHedged)
  Restates            \* pairs <<m, k>>: k has m's places and hours (dedupKey)

Ids == 1..MaxId

ASSUME PipelineConstants ==
  /\ MaxId \in Nat \ {0}
  /\ MaxFaults \in Nat
  /\ PushCeiling \in Nat \ {0}
  /\ MAX_PUSH_ATTEMPTS \in Nat \ {0}
  /\ Hedged \subseteq Ids
  /\ Restates \subseteq Ids \X Ids

VARIABLES
  alert,      \* alerts row of each message: absent, or its notified_at
  pushFails,  \* alerts.push_attempts, counted up to MAX_PUSH_ATTEMPTS
  pushed,     \* pushes the provider accepted per message, up to PushCeiling
  nobody,     \* messages whose send found an empty audience
  pc,         \* the await the running tick is at, "idle" between ticks
  cur,        \* the message being processed, NoMsg if none
  faults      \* D1 failures and kills so far

pipelineVars == <<alert, pushFails, pushed, nobody, pc, cur, faults>>
tables == <<alert, pushFails>>
provider == <<pushed, nobody>>

NoMsg == 0

PipelinePCs == {"parse", "store", "readback", "dedup", "suppress", "send",
                "count", "stamp", "submitted", "rejected", "thrown"}

Bump(n, ceiling) == IF n < ceiling THEN n + 1 ELSE n

(* A D1 statement succeeds, fails without effect, or fails after it        *)
(* committed (the answer is lost).                                         *)
Ok == [ok |-> TRUE, committed |-> TRUE]
Failed == [ok |-> FALSE, committed |-> FALSE]
D1Outcomes == {Ok, Failed, [ok |-> FALSE, committed |-> TRUE]}

Fault == faults < MaxFaults /\ faults' = faults + 1
NoFault == UNCHANGED faults
D1(o) == IF o.ok THEN NoFault ELSE Fault

PipelineInit ==
  /\ alert = [m \in Ids |-> "absent"]
  /\ pushFails = [m \in Ids |-> 0]
  /\ pushed = [m \in Ids |-> 0]
  /\ nobody = {}
  /\ pc = "idle"
  /\ cur = NoMsg
  /\ faults = 0

PipelineTypeOK ==
  /\ alert \in [Ids -> {"absent", "owed", "notified"}]
  /\ pushFails \in [Ids -> 0..MAX_PUSH_ATTEMPTS]
  /\ pushed \in [Ids -> 0..PushCeiling]
  /\ nobody \subseteq Ids
  /\ faults \in 0..MaxFaults

Abandoned(m) == alert[m] = "owed" /\ pushFails[m] >= MAX_PUSH_ATTEMPTS

(* ------------------------------ the steps ------------------------------ *)

(* AI parse, deterministic guards, polygons: nothing is written.  A null   *)
(* parse and an exhausted budget reject the message; a reference read that *)
(* fails (regions, streets) throws.                                        *)
Parse ==
  /\ pc = "parse"
  /\ \/ pc' \in {"store", "rejected"} /\ NoFault
     \/ pc' = "thrown" /\ Fault
  /\ UNCHANGED <<tables, provider, cur>>

(* INSERT ... ON CONFLICT(source_ref) DO NOTHING.                          *)
InsertAlert(o) ==
  /\ pc = "store"
  /\ alert' = IF o.committed /\ alert[cur] = "absent"
                THEN [alert EXCEPT ![cur] = "owed"] ELSE alert
  /\ pc' = IF o.ok THEN "readback" ELSE "rejected"
  /\ D1(o)
  /\ UNCHANGED <<pushFails, provider, cur>>

(* Mutant: the stored row's delivery flag is not looked at.                *)
ReadBackIgnoringStamp ==
  /\ pc = "readback"
  /\ pc' = IF cur \in Hedged THEN "dedup" ELSE "send"
  /\ NoFault
  /\ UNCHANGED <<tables, provider, cur>>

(* SELECT id, notified_at ... : a delivered message is never pushed again, *)
(* and only a hedged one goes through the duplicate check.                 *)
ReadBack ==
  /\ pc = "readback"
  /\ pc' = IF alert[cur] = "notified" THEN "submitted"
           ELSE IF cur \in Hedged THEN "dedup" ELSE "send"
  /\ NoFault
  /\ UNCHANGED <<tables, provider, cur>>

(* A throw of enrichment or of the read-back is caught: the message is     *)
(* retried on a later tick.                                                *)
StoreFails ==
  /\ pc \in {"store", "readback"}
  /\ pc' = "rejected"
  /\ Fault
  /\ UNCHANGED <<tables, provider, cur>>

(* Mutant: a stored alert suppresses the hedge before it is delivered.     *)
StoredDuplicate(m, k) ==
  k # m /\ k \notin Hedged /\ <<m, k>> \in Restates /\ alert[k] # "absent"

(* The confirmed alert a hedged message restates, once it is delivered.    *)
DeliveredDuplicate(m, k) ==
  k # m /\ k \notin Hedged /\ <<m, k>> \in Restates /\ alert[k] = "notified"

(* The duplicate may also be out of the window, parsed differently or      *)
(* unreadable: then the push goes out.                                     *)
FindDuplicate ==
  /\ pc = "dedup"
  /\ \/ pc' = "send"
     \/ pc' = "suppress" /\ \E k \in Ids : DeliveredDuplicate(cur, k)
  /\ NoFault
  /\ UNCHANGED <<tables, provider, cur>>

(* sendUsersNotification.  The provider accepts the send; or there is      *)
(* nobody to send to, which counts as delivered; or a chunk fails, which   *)
(* says nothing of what the provider did with it or with the other chunks; *)
(* or a targeting query throws before anything is sent.                    *)
SendAccepted ==
  /\ pc = "send"
  /\ pushed' = [pushed EXCEPT ![cur] = Bump(@, PushCeiling)]
  /\ pc' = "stamp"
  /\ NoFault
  /\ UNCHANGED <<tables, nobody, cur>>

SendToNobody ==
  /\ pc = "send"
  /\ nobody' = nobody \cup {cur}
  /\ pc' = "stamp"
  /\ NoFault
  /\ UNCHANGED <<tables, pushed, cur>>

SendFails ==
  /\ pc = "send"
  /\ \E reached \in {0, 1} :
       pushed' = IF reached = 1
                   THEN [pushed EXCEPT ![cur] = Bump(@, PushCeiling)] ELSE pushed
  /\ pc' = "count"
  /\ NoFault
  /\ UNCHANGED <<tables, nobody, cur>>

TargetingThrows ==
  /\ pc = "send"
  /\ pc' = "rejected"
  /\ Fault
  /\ UNCHANGED <<tables, provider, cur>>

(* Mutant: a failed push never fails the message, at the cap or below it.  *)
CountFailedPushAlwaysTrue(o) ==
  /\ pc = "count"
  /\ pushFails' = IF o.committed
                    THEN [pushFails EXCEPT ![cur] = Bump(@, MAX_PUSH_ATTEMPTS)]
                    ELSE pushFails
  /\ pc' = IF o.ok THEN "submitted" ELSE "thrown"
  /\ D1(o)
  /\ UNCHANGED <<alert, provider, cur>>

(* incrementPushAttempts, and the abandonment at the cap: the caller is    *)
(* told `true' so that it goes on.  Nothing catches a failed statement.    *)
CountFailedPush(o) ==
  /\ pc = "count"
  /\ pushFails' = IF o.committed
                    THEN [pushFails EXCEPT ![cur] = Bump(@, MAX_PUSH_ATTEMPTS)]
                    ELSE pushFails
  /\ pc' = IF ~o.ok THEN "thrown"
           ELSE IF pushFails'[cur] >= MAX_PUSH_ATTEMPTS THEN "submitted" ELSE "rejected"
  /\ D1(o)
  /\ UNCHANGED <<alert, provider, cur>>

(* markAlertNotified, after a send or in place of a suppressed one;        *)
(* nothing catches its failure either.                                     *)
StampNotified(o) ==
  /\ pc \in {"stamp", "suppress"}
  /\ alert' = IF o.committed THEN [alert EXCEPT ![cur] = "notified"] ELSE alert
  /\ pc' = IF o.ok THEN "submitted" ELSE "thrown"
  /\ D1(o)
  /\ UNCHANGED <<pushFails, provider, cur>>

Send == SendAccepted \/ SendToNobody \/ SendFails \/ TargetingThrows

PipelineStep ==
  \/ Parse
  \/ \E o \in D1Outcomes : InsertAlert(o)
  \/ ReadBack
  \/ StoreFails
  \/ FindDuplicate
  \/ Send
  \/ \E o \in D1Outcomes : CountFailedPush(o)
  \/ \E o \in D1Outcomes : StampNotified(o)

(* ----------------------------- properties ------------------------------ *)

Delivered(m) == pushed[m] > 0 \/ m \in nobody

(* notified_at means what it says: a stamped alert was accepted by the     *)
(* provider, or owed to nobody, or is the hedged restatement of a          *)
(* confirmed alert that was.  A confirmed outage is never silenced by a    *)
(* hedge (ingestAlert, findDeliveredDuplicate).                            *)
StampedMeansDelivered ==
  \A m \in Ids : alert[m] = "notified" =>
    \/ Delivered(m)
    \/ m \in Hedged /\ \E k \in Ids \ Hedged : <<m, k>> \in Restates /\ Delivered(k)

(* Once the stamp is committed the message is never pushed again, whatever *)
(* is retried: the read-back of the stored row comes before every send.    *)
NoPushAfterStamp ==
  [][\A m \in Ids : alert[m] = "notified" => pushed'[m] = pushed[m]]_pipelineVars

(* What the steps of a call can rely on: a row is owed until its stamp, a  *)
(* stamp follows a delivery or a delivered duplicate, and `true' is only   *)
(* answered for a message that is finished with.                           *)
PipelineInv ==
  /\ pc \in PipelinePCs => cur \in Ids
  /\ pc = "readback" => alert[cur] # "absent"
  /\ pc \in {"dedup", "suppress", "send", "count", "stamp"} => alert[cur] = "owed"
  /\ pc = "stamp" => Delivered(cur)
  /\ pc \in {"dedup", "suppress"} => cur \in Hedged
  /\ pc = "suppress" => \E k \in Ids : DeliveredDuplicate(cur, k)
  /\ pc = "submitted" => alert[cur] = "notified" \/ Abandoned(cur)
  /\ StampedMeansDelivered
=============================================================================
