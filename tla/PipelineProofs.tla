--------------------------- MODULE PipelineProofs ---------------------------
(* Facts about one step of the shared tail, for every crawler's proof.     *)
EXTENDS Pipeline, TLAPS

PipelineOK == PipelineTypeOK /\ PipelineInv

(* A D1 statement that reports success has committed.                      *)
LEMMA D1OutcomeFacts ==
  ASSUME NEW o \in D1Outcomes
  PROVE  o.ok \in BOOLEAN /\ o.committed \in BOOLEAN /\ (o.ok => o.committed)
<1>1. CASE o = Ok
  BY <1>1 DEF Ok
<1>2. CASE o = Failed
  BY <1>2 DEF Failed
<1>3. CASE o = [ok |-> FALSE, committed |-> TRUE]
  BY <1>3
<1> QED
  BY <1>1, <1>2, <1>3 DEF D1Outcomes

(* Saturating counters stay in range and never go down.                    *)
LEMMA BumpFacts ==
  ASSUME NEW c \in Nat, NEW n \in 0..c
  PROVE  Bump(n, c) \in 0..c /\ Bump(n, c) >= n /\ (c > 0 => Bump(n, c) > 0)
  BY DEF Bump

(* The fault budget is respected by every step.                            *)
LEMMA FaultFacts ==
  ASSUME PipelineConstants, faults \in 0..MaxFaults, NEW o \in D1Outcomes,
         D1(o) \/ Fault \/ NoFault
  PROVE  faults' \in 0..MaxFaults
  BY DEF PipelineConstants, D1, Fault, NoFault

(* A pipeline step keeps the tables well typed and stays within the call.  *)
LEMMA PipelineStepType ==
  ASSUME PipelineConstants, PipelineOK, PipelineStep
  PROVE  PipelineTypeOK' /\ cur' = cur /\ pc \in PipelinePCs
         /\ pc' \in PipelinePCs /\ cur \in Ids
<1> USE FaultFacts DEF PipelineConstants, PipelinePCs
<1> cur \in Ids /\ pc \in PipelinePCs
  BY DEF PipelineOK, PipelineInv, PipelineStep, Parse, InsertAlert, ReadBack,
     StoreFails, FindDuplicate, Send, SendAccepted, SendToNobody, SendFails,
     TargetingThrows, CountFailedPush, StampNotified
<1>1. CASE Parse \/ ReadBack \/ StoreFails \/ FindDuplicate \/ TargetingThrows
  BY <1>1 DEF PipelineOK, PipelineTypeOK, Parse, ReadBack, StoreFails,
     FindDuplicate, TargetingThrows, tables, provider, NoFault, Fault
<1>2. ASSUME NEW o \in D1Outcomes, InsertAlert(o)
      PROVE  PipelineTypeOK' /\ cur' = cur /\ pc' \in PipelinePCs
  BY <1>2 DEF PipelineOK, PipelineTypeOK, InsertAlert, provider
<1>3. CASE SendAccepted \/ SendToNobody \/ SendFails
  <2> PushCeiling \in Nat /\ pushed[cur] \in 0..PushCeiling
    BY DEF PipelineOK, PipelineTypeOK
  <2> Bump(pushed[cur], PushCeiling) \in 0..PushCeiling
    BY BumpFacts
  <2> QED
    BY <1>3 DEF PipelineOK, PipelineTypeOK, SendAccepted, SendToNobody, SendFails,
       tables, provider, NoFault
<1>4. ASSUME NEW o \in D1Outcomes, CountFailedPush(o)
      PROVE  PipelineTypeOK' /\ cur' = cur /\ pc' \in PipelinePCs
  <2> Bump(pushFails[cur], MAX_PUSH_ATTEMPTS) \in 0..MAX_PUSH_ATTEMPTS
    BY BumpFacts DEF PipelineOK, PipelineTypeOK
  <2> QED
    BY <1>4 DEF PipelineOK, PipelineTypeOK, CountFailedPush, provider
<1>5. ASSUME NEW o \in D1Outcomes, StampNotified(o)
      PROVE  PipelineTypeOK' /\ cur' = cur /\ pc' \in PipelinePCs
  BY <1>5 DEF PipelineOK, PipelineTypeOK, StampNotified, provider
<1> QED
  BY <1>1, <1>2, <1>3, <1>4, <1>5 DEF PipelineStep, Send

(* Finished with stays finished with, and only the message of a running    *)
(* send is pushed.                                                         *)
LEMMA PipelineStepProgress ==
  ASSUME PipelineConstants, PipelineOK, PipelineStep, NEW m \in Ids
  PROVE  /\ alert[m] # "absent" => alert'[m] # "absent"
         /\ alert[m] = "notified" => alert'[m] = "notified"
         /\ Abandoned(m) => alert'[m] = "notified" \/ Abandoned(m)'
         /\ Delivered(m) => Delivered(m)'
         /\ pushed'[m] # pushed[m] => m = cur /\ pc = "send" /\ alert[m] = "owed"
         /\ (alert'[m] # alert[m] \/ Abandoned(m) # Abandoned(m)') => m = cur
<1> USE DEF PipelineConstants
<1> DEFINE Goal ==
         /\ alert[m] # "absent" => alert'[m] # "absent"
         /\ alert[m] = "notified" => alert'[m] = "notified"
         /\ Abandoned(m) => alert'[m] = "notified" \/ Abandoned(m)'
         /\ Delivered(m) => Delivered(m)'
         /\ pushed'[m] # pushed[m] => m = cur /\ pc = "send" /\ alert[m] = "owed"
         /\ (alert'[m] # alert[m] \/ Abandoned(m) # Abandoned(m)') => m = cur
<1> cur \in Ids
  BY PipelineStepType
<1>1. CASE Parse \/ ReadBack \/ StoreFails \/ FindDuplicate \/ TargetingThrows
  BY <1>1 DEF Parse, ReadBack, StoreFails, FindDuplicate, TargetingThrows, tables,
     provider, Abandoned, Delivered
<1>2. ASSUME NEW o \in D1Outcomes, InsertAlert(o)  PROVE Goal
  BY <1>2 DEF PipelineOK, PipelineTypeOK, InsertAlert, provider, Abandoned, Delivered
<1>3. CASE SendAccepted \/ SendToNobody \/ SendFails
  <2> /\ pushed[cur] \in 0..PushCeiling /\ PushCeiling > 0 /\ PushCeiling \in Nat
      /\ \A k \in Ids : pushed[k] \in 0..PushCeiling
    BY DEF PipelineOK, PipelineTypeOK
  <2> Bump(pushed[cur], PushCeiling) > 0 /\ Bump(pushed[cur], PushCeiling) \in 0..PushCeiling
    BY BumpFacts
  <2> alert[cur] = "owed" /\ pc = "send"
    BY <1>3 DEF PipelineOK, PipelineInv, SendAccepted, SendToNobody, SendFails
  <2> QED
    BY <1>3 DEF PipelineOK, PipelineTypeOK, SendAccepted, SendToNobody, SendFails,
       tables, provider, Abandoned, Delivered
<1>4. ASSUME NEW o \in D1Outcomes, CountFailedPush(o)  PROVE Goal
  <2> /\ Bump(pushFails[cur], MAX_PUSH_ATTEMPTS) \in 0..MAX_PUSH_ATTEMPTS
      /\ Bump(pushFails[cur], MAX_PUSH_ATTEMPTS) >= pushFails[cur]
      /\ pushFails[cur] \in 0..MAX_PUSH_ATTEMPTS
    BY BumpFacts DEF PipelineOK, PipelineTypeOK
  <2> QED
    BY <1>4 DEF PipelineOK, PipelineTypeOK, CountFailedPush, provider, Abandoned, Delivered
<1>5. ASSUME NEW o \in D1Outcomes, StampNotified(o)  PROVE Goal
  BY <1>5 DEF PipelineOK, PipelineTypeOK, StampNotified, provider, Abandoned, Delivered
<1> QED
  BY <1>1, <1>2, <1>3, <1>4, <1>5 DEF PipelineStep, Send

(* The inductive facts about the call survive each of its steps.           *)
LEMMA PipelineStepInv ==
  ASSUME PipelineConstants, PipelineOK, PipelineStep
  PROVE  PipelineOK'
<1> USE DEF PipelineConstants
<1>1. PipelineTypeOK' /\ cur' = cur /\ cur \in Ids /\ pc \in PipelinePCs /\ pc' \in PipelinePCs
  BY PipelineStepType
<1>2. /\ pc' = "readback" => alert'[cur] # "absent"
      /\ pc' \in {"dedup", "suppress", "send", "count", "stamp"} => alert'[cur] = "owed"
      /\ pc' = "stamp" => Delivered(cur)'
      /\ pc' \in {"dedup", "suppress"} => cur \in Hedged
      /\ pc' = "suppress" => \E k \in Ids : DeliveredDuplicate(cur, k)'
      /\ pc' = "submitted" => alert'[cur] = "notified" \/ Abandoned(cur)'
  <2> DEFINE G ==
      /\ pc' = "readback" => alert'[cur] # "absent"
      /\ pc' \in {"dedup", "suppress", "send", "count", "stamp"} => alert'[cur] = "owed"
      /\ pc' = "stamp" => Delivered(cur)'
      /\ pc' \in {"dedup", "suppress"} => cur \in Hedged
      /\ pc' = "suppress" => \E k \in Ids : DeliveredDuplicate(cur, k)'
      /\ pc' = "submitted" => alert'[cur] = "notified" \/ Abandoned(cur)'
  <2>1. CASE Parse \/ StoreFails \/ TargetingThrows
    BY <2>1 DEF Parse, StoreFails, TargetingThrows
  <2>2. CASE ReadBack
    BY <1>1, <2>2 DEF ReadBack, PipelineOK, PipelineTypeOK, PipelineInv, tables
  <2>3. CASE FindDuplicate
    <3>1. alert' = alert /\ alert[cur] = "owed" /\ cur \in Hedged
      BY <2>3 DEF FindDuplicate, PipelineOK, PipelineInv, tables
    <3> QED
      BY <2>3, <3>1 DEF FindDuplicate, DeliveredDuplicate
  <2>4. ASSUME NEW o \in D1Outcomes, InsertAlert(o)  PROVE G
    BY <1>1, <2>4, D1OutcomeFacts DEF InsertAlert, PipelineOK, PipelineTypeOK
  <2>5. CASE SendAccepted \/ SendToNobody \/ SendFails
    <3>1. alert' = alert /\ alert[cur] = "owed" /\ pc = "send" /\ pc' \in {"stamp", "count"}
      BY <2>5 DEF SendAccepted, SendToNobody, SendFails, PipelineOK, PipelineInv, tables
    <3>2. pc' = "stamp" => Delivered(cur)'
      <4> /\ pushed[cur] \in 0..PushCeiling /\ PushCeiling > 0 /\ PushCeiling \in Nat
        BY <1>1 DEF PipelineOK, PipelineTypeOK
      <4> Bump(pushed[cur], PushCeiling) > 0
        BY BumpFacts
      <4> QED
        BY <1>1, <2>5 DEF SendAccepted, SendToNobody, SendFails, Delivered, PipelineOK,
           PipelineTypeOK
    <3> QED
      BY <3>1, <3>2
  <2>6. ASSUME NEW o \in D1Outcomes, CountFailedPush(o)  PROVE G
    <3>1. alert'[cur] = "owed" /\ pc' \in {"submitted", "rejected", "thrown"}
      BY <1>1, <2>6 DEF CountFailedPush, PipelineOK, PipelineInv
    <3>2. pc' = "submitted" => pushFails'[cur] >= MAX_PUSH_ATTEMPTS
      BY <2>6 DEF CountFailedPush
    <3> QED
      BY <1>1, <3>1, <3>2 DEF Abandoned
  <2>7. ASSUME NEW o \in D1Outcomes, StampNotified(o)  PROVE G
    BY <1>1, <2>7, D1OutcomeFacts DEF StampNotified, PipelineOK, PipelineTypeOK
  <2> QED
    BY <2>1, <2>2, <2>3, <2>4, <2>5, <2>6, <2>7 DEF PipelineStep, Send
<1>3. ASSUME NEW m \in Ids, alert'[m] = "notified"
      PROVE  \/ Delivered(m)'
             \/ m \in Hedged /\ \E k \in Ids \ Hedged :
                                  <<m, k>> \in Restates /\ Delivered(k)'
  <2>1. \A k \in Ids : Delivered(k) => Delivered(k)'
    BY PipelineStepProgress
  <2>2. CASE alert[m] = "notified"
    BY <2>1, <2>2 DEF PipelineOK, PipelineInv, StampedMeansDelivered
  <2>3. CASE alert[m] # "notified"
    <3>1. m = cur /\ pc \in {"stamp", "suppress"}
      <4>1. m = cur
        BY <1>3, <2>3, PipelineStepProgress
      <4>2. pc = "store" => alert'[m] # "notified"
        BY <2>3, <1>1, <4>1 DEF PipelineStep, Parse, InsertAlert, ReadBack, StoreFails,
           FindDuplicate, Send, SendAccepted, SendToNobody, SendFails, TargetingThrows,
           CountFailedPush, StampNotified, PipelineOK, PipelineTypeOK, tables
      <4> QED
        BY <1>3, <2>3, <4>1, <4>2 DEF PipelineStep, Parse, InsertAlert, ReadBack, StoreFails,
           FindDuplicate, Send, SendAccepted, SendToNobody, SendFails, TargetingThrows,
           CountFailedPush, StampNotified, tables
    <3>2. CASE pc = "stamp"
      BY <2>1, <3>1, <3>2 DEF PipelineOK, PipelineInv
    <3>3. CASE pc = "suppress"
      <4>1. PICK k \in Ids : DeliveredDuplicate(cur, k)
        BY <3>3 DEF PipelineOK, PipelineInv
      <4>2. k \in Ids \ Hedged /\ <<cur, k>> \in Restates /\ Delivered(k)
        BY <4>1 DEF DeliveredDuplicate, PipelineOK, PipelineInv, StampedMeansDelivered
      <4> QED
        BY <2>1, <3>1, <3>3, <4>2 DEF PipelineOK, PipelineInv
    <3> QED
      BY <3>1, <3>2, <3>3
  <2> QED
    BY <2>2, <2>3
<1> QED
  BY <1>1, <1>2, <1>3 DEF PipelineOK, PipelineInv, StampedMeansDelivered
=============================================================================
