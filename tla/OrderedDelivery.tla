-------------------------- MODULE OrderedDelivery ---------------------------
(***************************************************************************)
(* What a crawler with a numeric cursor promises, without its tables, its  *)
(* ticks or its failures: messages are finished with oldest first, the     *)
(* cursor only moves forward and only over finished messages, and nothing  *)
(* at or below the cursor is pushed again.                                 *)
(***************************************************************************)
EXTENDS Naturals

CONSTANTS MaxId, History, PushCeiling

VARIABLES
  visible,  \* ids on the site's listing
  latest,   \* newest id published
  cursor,   \* everything visible up to here is finished with
  settled,  \* delivered, abandoned or given up, or older than the first run
  pushed    \* pushes accepted per message, up to PushCeiling

promise == <<visible, latest, cursor, settled, pushed>>

Ids == 1..MaxId

Init ==
  /\ latest = History /\ visible = 1..History
  /\ cursor = 0 /\ settled = {}
  /\ pushed = [m \in Ids |-> 0]

OlderFinished(m) == \A k \in visible : k < m => k \in settled

Publish ==
  /\ \E m \in (latest + 1)..MaxId : latest' = m /\ visible' = visible \cup {m}
  /\ UNCHANGED <<cursor, settled, pushed>>

AgeOff ==
  /\ \E m \in visible : visible' = visible \ {m}
  /\ UNCHANGED <<latest, cursor, settled, pushed>>

(* The first run declares everything published so far finished with.       *)
Seed ==
  /\ cursor = 0
  /\ cursor' \in 1..latest
  /\ settled' = settled \cup 1..cursor'
  /\ UNCHANGED <<visible, latest, pushed>>

Push(m) ==
  /\ cursor < m /\ OlderFinished(m)
  /\ pushed' = [pushed EXCEPT ![m] = IF @ < PushCeiling THEN @ + 1 ELSE @]
  /\ UNCHANGED <<visible, latest, cursor, settled>>

Settle(m) ==
  /\ cursor < m /\ OlderFinished(m)
  /\ settled' = settled \cup {m}
  /\ UNCHANGED <<visible, latest, cursor, pushed>>

Pass(m) ==
  /\ cursor < m /\ m \in settled /\ OlderFinished(m)
  /\ cursor' = m
  /\ UNCHANGED <<visible, latest, settled, pushed>>

Next ==
  \/ Publish \/ AgeOff \/ Seed
  \/ \E m \in Ids : Push(m) \/ Settle(m) \/ Pass(m)

Spec == Init /\ [][Next]_promise
=============================================================================
