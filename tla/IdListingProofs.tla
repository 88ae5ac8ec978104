-------------------------- MODULE IdListingProofs ---------------------------
(* The heating crawler's properties for every listing, every cap and any   *)
(* number of faults, by the invariant IInv of module IdListing.            *)
EXTENDS IdListing, PipelineProofs, FiniteSetTheorems

(* ------------------------------- the batch ------------------------------ *)

(* The per-tick cap cuts the newest messages off: a batch that holds a     *)
(* message holds every older one of the list.                              *)
LEMMA BatchIsOldest ==
  ASSUME PipelineConstants, CrawlStateConstants, IdListingConstants, NEW new \in SUBSET Ids,
         NEW t \in Batch(new), NEW m \in new, m < t
  PROVE  m \in Batch(new)
<1> DEFINE below(i) == {k \in new : k < i}
<1>1. IsFiniteSet(new)
  <2> IsFiniteSet(1..MaxId)
    BY FS_Interval DEF PipelineConstants
  <2> QED
    BY FS_Subset DEF Ids
<1>2. t \in Ids /\ m \in Ids /\ new \subseteq Ids
  BY DEF Batch
<1>3. IsFiniteSet(below(t)) /\ IsFiniteSet(below(m)) /\ below(m) \subseteq below(t)
  <2> ASSUME NEW k \in new, k < m
      PROVE  k < t
    BY <1>2 DEF Ids, PipelineConstants
  <2> below(t) \subseteq new /\ below(m) \subseteq below(t)
    OBVIOUS
  <2> QED
    BY <1>1, FS_Subset
<1>4. Cardinality(below(m)) <= Cardinality(below(t))
  BY <1>3, FS_Subset
<1>5. Cardinality(below(m)) \in Nat /\ Cardinality(below(t)) \in Nat
  BY <1>3, FS_CardinalityType
<1>6. Cardinality(below(t)) < MAX_MESSAGES_PER_TICK
  BY DEF Batch
<1> QED
  BY <1>4, <1>5, <1>6 DEF Batch, CrawlStateConstants, IdListingConstants

(* --------------------------- one step of Next --------------------------- *)

(* The steps of the crawler's own code touch neither the alerts nor the    *)
(* provider, and enter the pipeline at its first step only.                *)
LEMMA CrawlStepKeepsPipeline ==
  ASSUME PipelineConstants, CrawlStateConstants, IdListingConstants, TypeOK, PipelineInv, TickInv,
         Publish \/ AgeOff \/ CrawlStep \/ Kill
  PROVE  /\ UNCHANGED <<tables, provider>>
         /\ faults' \in 0..MaxFaults
         /\ pc' \in PipelinePCs => pc' = pc \/ (pc' = "parse" /\ cur' \in Ids)
         /\ pc' = pc => cur' = cur
<1> USE FaultFacts DEF PipelinePCs, ToIdle, tables, provider
<1>1. CASE Publish \/ AgeOff
  BY <1>1 DEF Publish, AgeOff, pipelineVars, TypeOK, PipelineTypeOK,
     StateTypeOK
<1>2. CASE ReadCursor \/ FetchListing \/ FetchMessage \/ EndTick \/ Kill
  BY <1>2 DEF ReadCursor, FetchListing, FetchMessage, EndTick, Kill, TypeOK,
     PipelineTypeOK, Fault, NoFault, PipelineConstants, StateTypeOK
<1>3. CASE CheckStateRow
  <2> Ok \in D1Outcomes /\ Failed \in D1Outcomes
    BY DEF D1Outcomes
  <2> QED
    BY <1>3 DEF CheckStateRow, TypeOK, PipelineTypeOK, StateTypeOK
<1>4. ASSUME NEW o \in D1Outcomes,
             SeedCursor(o) \/ GiveUp(o) \/ ReleaseAttempts(o) \/ AdvanceCursor(o)
      PROVE  /\ UNCHANGED <<tables, provider>>
             /\ faults' \in 0..MaxFaults
             /\ pc' \notin PipelinePCs /\ pc' # pc
  BY <1>4 DEF SeedCursor, GiveUp, ReleaseAttempts, AdvanceCursor, TypeOK,
     PipelineTypeOK, RecordSkip, ClearAttempts, WriteLastId, StateTypeOK
<1>5. ASSUME NEW o \in D1Outcomes, ClaimAttempt(o)
      PROVE  /\ UNCHANGED <<tables, provider>>
             /\ faults' \in 0..MaxFaults
             /\ pc' \in {"skip", "parse"} /\ cur' = cur /\ cur \in Ids
  BY <1>5 DEF ClaimAttempt, TypeOK, PipelineTypeOK, TickInv, NoMsg,
     BumpAttempts, Refused, StateTypeOK
<1> QED
  BY <1>1, <1>2, <1>3, <1>4, <1>5 DEF CrawlStep

(* So they keep the facts about the pipeline.                              *)
LEMMA CrawlStepPipelineOK ==
  ASSUME PipelineConstants, CrawlStateConstants, IdListingConstants, TypeOK, PipelineInv, TickInv,
         Publish \/ AgeOff \/ CrawlStep \/ Kill
  PROVE  PipelineTypeOK' /\ PipelineInv'
<1>1. /\ UNCHANGED <<tables, provider>>
      /\ faults' \in 0..MaxFaults
      /\ pc' \in PipelinePCs => pc' = pc \/ (pc' = "parse" /\ cur' \in Ids)
      /\ pc' = pc => cur' = cur
  BY CrawlStepKeepsPipeline
<1>2. PipelineTypeOK'
  BY <1>1 DEF TypeOK, PipelineTypeOK, tables, provider, StateTypeOK
<1>3. StampedMeansDelivered'
  BY <1>1 DEF PipelineInv, StampedMeansDelivered, Delivered, tables, provider
<1>4. CASE pc' = pc
  BY <1>1, <1>2, <1>3, <1>4 DEF PipelineInv, tables, provider, Delivered, DeliveredDuplicate, Abandoned
<1>5. CASE pc' \notin PipelinePCs
  BY <1>2, <1>3, <1>5 DEF PipelineInv, PipelinePCs
<1>6. CASE pc' = "parse" /\ cur' \in Ids
  BY <1>2, <1>3, <1>6 DEF PipelineInv
<1> QED
  BY <1>1, <1>2, <1>4, <1>5, <1>6

(* No step changes its mind about a message that is finished with, and     *)
(* the cursor never moves back.                                            *)
LEMMA StepProgress ==
  ASSUME PipelineConstants, CrawlStateConstants, IdListingConstants, IInv, Next, NEW m \in Ids
  PROVE  /\ Settled(m) => Settled(m)'
         /\ seeded' >= seeded /\ gaveUp \subseteq gaveUp' /\ cursor' >= cursor
         /\ Finished(m) => Finished(m)'
<1>1. Settled(m) => Settled(m)'
  <2>1. gaveUp \subseteq gaveUp'
    BY DEF Next, Publish, AgeOff, CrawlStep, Pipe, Kill, ReadCursor,
       FetchListing, CheckStateRow, FetchMessage, EndTick, SeedCursor,
       ClaimAttempt, GiveUp, ReleaseAttempts, AdvanceCursor, ghosts,
       BumpAttempts, Refused, RecordSkip, ClearAttempts, WriteLastId
  <2>2. CASE Pipe
    BY <2>1, <2>2, PipelineStepProgress DEF Pipe, Settled, PipelineOK, IInv,
       TypeOK, StateTypeOK
  <2>3. CASE Publish \/ AgeOff \/ CrawlStep \/ Kill
    BY <2>1, <2>3, CrawlStepKeepsPipeline DEF Settled, Abandoned, tables, IInv
  <2> QED
    BY <2>2, <2>3 DEF Next
<1>2. gaveUp \subseteq gaveUp' /\ seeded' >= seeded /\ cursor' >= cursor
  <2> USE DEF IInv, TypeOK, TickInv, ghosts, crawlState, StateTypeOK
  <2>1. ASSUME NEW o \in D1Outcomes, SeedCursor(o)
        PROVE  gaveUp \subseteq gaveUp' /\ seeded' >= seeded /\ cursor' >= cursor
    BY <2>1 DEF SeedCursor, Ids, PipelineConstants, WriteLastId
  <2>2. ASSUME NEW o \in D1Outcomes, AdvanceCursor(o)
        PROVE  gaveUp \subseteq gaveUp' /\ seeded' >= seeded /\ cursor' >= cursor
    BY <2>2 DEF AdvanceCursor, Ids, PipelineConstants, NoMsg, WriteLastId
  <2>3. ASSUME NEW o \in D1Outcomes, GiveUp(o) \/ ClaimAttempt(o) \/ ReleaseAttempts(o)
        PROVE  gaveUp \subseteq gaveUp' /\ seeded' >= seeded /\ cursor' >= cursor
    BY <2>3 DEF GiveUp, ClaimAttempt, ReleaseAttempts, PipelineConstants,
       BumpAttempts, Refused, RecordSkip, ClearAttempts
  <2>4. CASE Publish \/ AgeOff \/ Pipe \/ Kill \/ ReadCursor \/ FetchListing
             \/ CheckStateRow \/ FetchMessage \/ EndTick
    BY <2>4 DEF Publish, AgeOff, Pipe, Kill, ReadCursor, FetchListing,
       CheckStateRow, FetchMessage, EndTick, PipelineConstants
  <2> QED
    BY <2>1, <2>2, <2>3, <2>4 DEF Next, CrawlStep
<1>3. Finished(m) => Finished(m)'
  <2> seeded \in Nat /\ seeded' \in Nat /\ m \in Nat
    <3>1. seeded' \in Nat
      BY DEF IInv, TypeOK, PipelineConstants, Next, Publish, AgeOff, CrawlStep,
         Pipe, Kill, ReadCursor, FetchListing, CheckStateRow, FetchMessage,
         EndTick, SeedCursor, ClaimAttempt, GiveUp, ReleaseAttempts,
         AdvanceCursor, ghosts, Ids, BumpAttempts, Refused, RecordSkip,
         ClearAttempts, WriteLastId, StateTypeOK
    <3> QED
      BY <3>1 DEF IInv, TypeOK, PipelineConstants, Ids, StateTypeOK
  <2> QED
    BY <1>1, <1>2 DEF Finished
<1> QED
  BY <1>1, <1>2, <1>3

(* ------------------------- the inductive invariant ---------------------- *)

LEMMA InitIInv ==
  ASSUME PipelineConstants, CrawlStateConstants, IdListingConstants, Init
  PROVE  IInv
<1> USE DEF PipelineConstants, CrawlStateConstants, IdListingConstants, Init, PipelineInit, Ids,
   NoMsg, StateInit
<1>1. PipelineTypeOK
  BY DEF PipelineTypeOK
<1>2. TypeOK
  <2> AttemptCeiling \in Nat
    BY DEF AttemptCeiling
  <2> pc \in PCs
    BY DEF PCs
  <2> cur \in Ids \cup {NoMsg} /\ visible \subseteq 1..latest
    OBVIOUS
  <2> latest \in 0..MaxId /\ cursor \in 0..MaxId /\ storedId \in 0..MaxId /\ seeded \in 0..MaxId
    OBVIOUS
  <2> hasRow \in BOOLEAN
    OBVIOUS
  <2> attempts \in [Ids -> 0..AttemptCeiling]
    OBVIOUS
  <2> skipped \subseteq Ids /\ todo \subseteq Ids /\ gaveUp \subseteq Ids
    OBVIOUS
  <2> QED
    BY <1>1 DEF TypeOK, StateTypeOK
<1>3. PipelineInv
  BY DEF PipelineInv, PipelinePCs, StampedMeansDelivered
<1>4. TickInv /\ CursorPassesOnlySettled
  BY DEF TickInv, CursorPassesOnlySettled
<1> QED
  BY <1>2, <1>3, <1>4 DEF IInv

(* Every variable keeps its type.                                          *)
LEMMA NextType ==
  ASSUME PipelineConstants, CrawlStateConstants, IdListingConstants, IInv, Next
  PROVE  TypeOK'
<1>1. PipelineTypeOK'
  BY PipelineStepType, CrawlStepPipelineOK DEF Next, Pipe, PipelineOK, IInv,
     TypeOK, StateTypeOK
<1>2. /\ TypeOK /\ TickInv /\ PipelineOK
      /\ AttemptCeiling \in Nat /\ MaxId \in Nat /\ Ids = 1..MaxId
  BY DEF IInv, TypeOK, PipelineOK, AttemptCeiling, PipelineConstants,
     CrawlStateConstants, IdListingConstants, Ids, StateTypeOK
<1>3. pc' \in PCs /\ cur' \in Ids \cup {NoMsg}
  <2> pc \in PCs /\ cur \in Ids \cup {NoMsg}
    BY <1>2 DEF TypeOK, StateTypeOK
  <2>1. CASE Pipe
    BY <1>2, <2>1, PipelineStepType DEF Pipe, PCs
  <2>2. CASE Publish \/ AgeOff \/ Kill \/ ReadCursor \/ CheckStateRow \/ EndTick
    <3> pc' \in {pc, "idle", "listing", "next", "seed"} /\ cur' \in {cur, NoMsg}
      BY <2>2 DEF Publish, AgeOff, Kill, ToIdle, ReadCursor, CheckStateRow, EndTick, pipelineVars
    <3> QED
      BY DEF PCs
  <2>3. CASE FetchListing \/ FetchMessage
    BY <1>2, <2>3 DEF FetchListing, FetchMessage, TypeOK, PCs, StateTypeOK
  <2>4. ASSUME NEW o \in D1Outcomes,
               SeedCursor(o) \/ ClaimAttempt(o) \/ GiveUp(o) \/ ReleaseAttempts(o) \/ AdvanceCursor(o)
        PROVE  pc' \in PCs /\ cur' \in Ids \cup {NoMsg}
    <3> pc' \in {"idle", "skip", "parse", "advance", "next"} /\ cur' \in {cur, NoMsg}
      BY <2>4 DEF SeedCursor, ClaimAttempt, GiveUp, ReleaseAttempts,
         AdvanceCursor, ToIdle, BumpAttempts, Refused, RecordSkip,
         ClearAttempts, WriteLastId
    <3> QED
      BY DEF PCs, PipelinePCs
  <2> QED
    BY <2>1, <2>2, <2>3, <2>4 DEF Next, CrawlStep
<1>4. latest' \in 0..MaxId /\ visible' \subseteq 1..latest'
  <2> latest \in 0..MaxId /\ visible \subseteq 1..latest
    BY <1>2 DEF TypeOK, StateTypeOK
  <2>1. CASE Publish
    <3> PICK m \in (latest + 1)..MaxId : latest' = m /\ visible' = visible \cup {m}
      BY <2>1 DEF Publish
    <3> m \in 1..MaxId /\ latest < m
      BY <1>2
    <3> QED
      BY <1>2
  <2>2. CASE AgeOff
    BY <2>2 DEF AgeOff
  <2>3. CASE ~(Publish \/ AgeOff)
    BY <2>3 DEF Next, CrawlStep, Pipe, Kill, ReadCursor, FetchListing,
       CheckStateRow, FetchMessage, EndTick, SeedCursor, ClaimAttempt, GiveUp,
       ReleaseAttempts, AdvanceCursor, site, BumpAttempts, Refused, RecordSkip,
       ClearAttempts, WriteLastId
  <2> QED
    BY <2>1, <2>2, <2>3
<1>5. cursor' \in 0..MaxId /\ storedId' \in 0..MaxId /\ seeded' \in 0..MaxId
  <2> cursor \in 0..MaxId /\ storedId \in 0..MaxId /\ seeded \in 0..MaxId
      /\ todo \subseteq 1..MaxId /\ cur \in Ids \cup {NoMsg}
    BY <1>2 DEF TypeOK, StateTypeOK
  <2>1. cursor' \in todo \cup {cursor} \/ (pc = "advance" /\ cursor' = cur)
    BY DEF Next, Publish, AgeOff, CrawlStep, Pipe, Kill, ReadCursor,
       FetchListing, CheckStateRow, FetchMessage, EndTick, SeedCursor,
       ClaimAttempt, GiveUp, ReleaseAttempts, AdvanceCursor, crawlState,
       BumpAttempts, Refused, RecordSkip, ClearAttempts, WriteLastId
  <2>2. pc = "advance" => cur \in 1..MaxId
    BY <1>2 DEF TickInv
  <2>3. seeded' \in todo \cup {seeded}
    BY DEF Next, Publish, AgeOff, CrawlStep, Pipe, Kill, ReadCursor,
       FetchListing, CheckStateRow, FetchMessage, EndTick, SeedCursor,
       ClaimAttempt, GiveUp, ReleaseAttempts, AdvanceCursor, ghosts,
       BumpAttempts, Refused, RecordSkip, ClearAttempts, WriteLastId
  <2>4. storedId' \in {storedId, 0, cursor}
    BY DEF Next, Publish, AgeOff, CrawlStep, Pipe, Kill, ToIdle, ReadCursor,
       FetchListing, CheckStateRow, FetchMessage, EndTick, SeedCursor,
       ClaimAttempt, GiveUp, ReleaseAttempts, AdvanceCursor, BumpAttempts,
       Refused, RecordSkip, ClearAttempts, WriteLastId
  <2>5. MaxId \in Nat
    BY <1>2
  <2>6. storedId' \in 0..MaxId /\ seeded' \in 0..MaxId
    BY <2>3, <2>4, <2>5
  <2>7. cursor' \in 0..MaxId
    <3>1. CASE cursor' \in todo \cup {cursor}
      BY <2>5, <3>1
    <3>2. CASE pc = "advance" /\ cursor' = cur
      BY <2>2, <2>5, <3>2
    <3> QED
      BY <2>1, <3>1, <3>2
  <2> QED
    BY <2>6, <2>7
<1>9. hasRow' \in BOOLEAN
  <2>1. hasRow \in BOOLEAN
    BY <1>2 DEF TypeOK, StateTypeOK
  <2>2. hasRow' = hasRow \/ hasRow' = TRUE
    BY DEF Next, Publish, AgeOff, CrawlStep, Pipe, Kill, ReadCursor,
       FetchListing, CheckStateRow, FetchMessage, EndTick, SeedCursor,
       ClaimAttempt, GiveUp, ReleaseAttempts, AdvanceCursor, crawlState,
       BumpAttempts, Refused, RecordSkip, ClearAttempts, WriteLastId
  <2> QED
    BY <2>1, <2>2, Zenon
<1>6. todo' \subseteq Ids
  <2>1. todo' \subseteq todo \cup visible
    BY DEF Next, Publish, AgeOff, CrawlStep, Pipe, Kill, ToIdle, ReadCursor,
       FetchListing, CheckStateRow, FetchMessage, EndTick, SeedCursor,
       ClaimAttempt, GiveUp, ReleaseAttempts, AdvanceCursor, NewMessages,
       Batch, BumpAttempts, Refused, RecordSkip, ClearAttempts, WriteLastId
  <2> QED
    BY <1>2, <2>1 DEF TypeOK, StateTypeOK
<1>7. skipped' \subseteq Ids /\ gaveUp' \subseteq Ids
  BY <1>2 DEF TypeOK, TickInv, NoMsg, Next, Publish, AgeOff, CrawlStep, Pipe,
     Kill, ReadCursor, FetchListing, CheckStateRow, FetchMessage, EndTick,
     SeedCursor, ClaimAttempt, GiveUp, ReleaseAttempts, AdvanceCursor,
     attemptRows, ghosts, BumpAttempts, Refused, RecordSkip, ClearAttempts,
     WriteLastId, StateTypeOK
<1>8. attempts' \in [Ids -> 0..AttemptCeiling]
  <2>1. ASSUME NEW o \in D1Outcomes, ClaimAttempt(o)
        PROVE  attempts' \in [Ids -> 0..AttemptCeiling]
    <3> cur \in Ids
      BY <1>2, <2>1 DEF ClaimAttempt, TickInv, TypeOK, BumpAttempts, Refused,
         StateTypeOK
    <3> Bump(attempts[cur], AttemptCeiling) \in 0..AttemptCeiling
      BY <1>2, BumpFacts DEF TypeOK, StateTypeOK
    <3> QED
      BY <1>2, <2>1 DEF ClaimAttempt, TypeOK, BumpAttempts, Refused,
         StateTypeOK
  <2>2. ASSUME NEW o \in D1Outcomes, ReleaseAttempts(o)
        PROVE  attempts' \in [Ids -> 0..AttemptCeiling]
    BY <1>2, <2>2 DEF ReleaseAttempts, TypeOK, attemptRows, ClearAttempts,
       StateTypeOK
  <2>3. CASE attempts' = attempts
    BY <1>2, <2>3 DEF TypeOK, StateTypeOK
  <2> QED
    BY <2>1, <2>2, <2>3 DEF Next, Publish, AgeOff, CrawlStep, Pipe, Kill,
       ReadCursor, FetchListing, CheckStateRow, FetchMessage, EndTick,
       SeedCursor, GiveUp, AdvanceCursor, attemptRows, RecordSkip, WriteLastId
<1> QED
  BY <1>1, <1>3, <1>4, <1>5, <1>6, <1>7, <1>8, <1>9 DEF TypeOK, StateTypeOK

(* Everything on the listing below a collected message is finished with,   *)
(* collected too, or in hand, after every step.                            *)
LEMMA NextTickInv ==
  ASSUME PipelineConstants, CrawlStateConstants, IdListingConstants, IInv, Next
  PROVE  TickInv'
<1> USE DEF PipelineConstants, CrawlStateConstants, IdListingConstants, TypeOK, NoMsg, Ids, ghosts,
   site, crawlState, attemptRows, StateTypeOK
<1>1. \A m \in Ids : /\ Settled(m) => Settled(m)'
                     /\ Finished(m) => Finished(m)'
  BY StepProgress
<1>2. TypeOK /\ TickInv /\ CursorPassesOnlySettled /\ PipelineInv /\ PipelineTypeOK
  BY DEF IInv
<1>3. CASE Publish
  BY <1>1, <1>2, <1>3 DEF Publish, pipelineVars, TickInv
<1>4. CASE AgeOff
  BY <1>1, <1>2, <1>4 DEF AgeOff, pipelineVars, TickInv
<1>5. CASE Pipe
  <2>1. cur' = cur /\ pc \in PipelinePCs /\ pc' \in PipelinePCs /\ cur \in Ids
    BY <1>2, <1>5, PipelineStepType DEF Pipe, PipelineOK
  <2> QED
    BY <1>1, <1>2, <1>5, <2>1 DEF Pipe, TickInv, PipelinePCs
<1>6. CASE ReadCursor \/ EndTick \/ Kill
  BY <1>1, <1>2, <1>6 DEF ReadCursor, EndTick, Kill, ToIdle, TickInv
<1>7. CASE FetchListing
  <2>1. \A m \in visible : m \in Ids /\ m <= latest
    BY <1>2
  <2>2. \A t \in todo' : /\ t \in NewMessages
                         /\ \A m \in NewMessages : m < t => m \in todo'
    <3> NewMessages \in SUBSET Ids
      BY <2>1 DEF NewMessages
    <3>1. CASE todo' = NewMessages
      BY <3>1
    <3>2. CASE todo' = Batch(NewMessages)
      <4>1. todo' \subseteq NewMessages
        BY <3>2 DEF Batch
      <4> QED
        BY <3>2, <4>1, BatchIsOldest
    <3> QED
      BY <1>7, <3>1, <3>2 DEF FetchListing
  <2>3. storedId = cursor /\ cursor \in Nat /\ cur = 0 /\ visible' = visible
        /\ cursor' = cursor /\ latest' = latest /\ cur' = cur /\ storedId' = storedId
    BY <1>2, <1>7 DEF FetchListing, TickInv
  <2>4. \A t \in todo' :
          /\ cursor < t /\ t <= latest
          /\ \A m \in visible : m < t => Finished(m)' \/ m \in todo'
    <3> TAKE t \in todo'
    <3>1. t \in visible /\ t > cursor
      BY <2>2, <2>3 DEF NewMessages
    <3>2. ASSUME NEW m \in visible, m < t  PROVE Finished(m)' \/ m \in todo'
      <4>1. CASE m <= cursor
        BY <1>1, <1>2, <2>1, <3>2, <4>1 DEF CursorPassesOnlySettled
      <4>2. CASE m > cursor
        BY <2>2, <2>3, <3>2, <4>2 DEF NewMessages
      <4> QED
        BY <2>1, <2>3, <4>1, <4>2
    <3> QED
      BY <2>1, <2>3, <3>1, <3>2
  <2>5. /\ pc' \in {"state_row", "next"} /\ (pc' = "state_row" => storedId = 0)
        /\ hasRow' = hasRow /\ seeded' = seeded
    BY <1>7 DEF FetchListing
  <2> QED
    BY <1>2, <2>3, <2>4, <2>5 DEF TickInv
<1>8. CASE CheckStateRow
  <2>1. todo' \subseteq todo /\ \A t \in todo', m \in todo : m < t => m \in todo'
    <3>1. CASE todo' = todo
      BY <3>1
    <3>2. CASE todo' = Batch(todo)
      <4>1. todo' \subseteq todo /\ todo \in SUBSET Ids
        BY <1>2, <3>2 DEF Batch
      <4> QED
        BY <3>2, <4>1, BatchIsOldest
    <3> QED
      BY <1>8, <3>1, <3>2 DEF CheckStateRow
  <2>2. /\ pc = "state_row" /\ pc' \in {"next", "seed"} /\ (pc' = "seed" => ~hasRow)
        /\ UNCHANGED <<cur, site, crawlState, storedId, ghosts>>
    BY <1>8 DEF CheckStateRow
  <2> QED
    BY <1>1, <1>2, <2>1, <2>2 DEF TickInv
<1>9. CASE FetchMessage
  <2>1. PICK m \in todo : /\ \A k \in todo : m <= k
                         /\ cur' = m /\ todo' = todo \ {m}
    BY <1>9 DEF FetchMessage
  <2>2. /\ pc = "next" /\ pc' = "claim" /\ cur = 0
        /\ UNCHANGED <<site, crawlState, storedId, ghosts>>
    BY <1>2, <1>9 DEF FetchMessage, TickInv
  <2>3. \A k \in visible : k < m => Finished(k)'
    BY <1>1, <1>2, <2>1, <2>2 DEF TickInv
  <2> QED
    BY <1>1, <1>2, <2>1, <2>2, <2>3 DEF TickInv
<1>10. ASSUME NEW o \in D1Outcomes, SeedCursor(o)
       PROVE  TickInv'
  BY <1>2, <1>10 DEF SeedCursor, ToIdle, TickInv, WriteLastId
<1>11. ASSUME NEW o \in D1Outcomes, ClaimAttempt(o) \/ GiveUp(o) \/ ReleaseAttempts(o)
       PROVE  TickInv'
  <2>1. /\ pc \in {"claim", "skip", "submitted"} /\ pc' \in {"skip", "parse", "advance"}
        /\ UNCHANGED <<cur, site, crawlState, storedId, todo, seeded>>
    BY <1>11 DEF ClaimAttempt, GiveUp, ReleaseAttempts, BumpAttempts, Refused,
       RecordSkip, ClearAttempts
  <2>2. pc' = "advance" => Settled(cur)'
    BY <1>1, <1>2, <1>11 DEF ClaimAttempt, GiveUp, ReleaseAttempts,
       PipelineInv, Settled, Abandoned, tables, BumpAttempts, Refused,
       RecordSkip, ClearAttempts
  <2>3. cur \in Ids
    BY <1>2, <2>1 DEF TickInv
  <2> QED
    BY <1>1, <1>2, <2>1, <2>2, <2>3 DEF TickInv, Settled
<1>12. ASSUME NEW o \in D1Outcomes, AdvanceCursor(o)
       PROVE  TickInv'
  <2>1. /\ pc = "advance" /\ pc' = "next" /\ cur' = 0 /\ cur \in Ids
        /\ cursor' \in {cursor, cur} /\ (hasRow => hasRow')
        /\ (~hasRow' => cursor' = cursor)
        /\ UNCHANGED <<site, storedId, todo, ghosts>>
    BY <1>2, <1>12, D1OutcomeFacts DEF AdvanceCursor, TickInv, WriteLastId
  <2>2. \A m \in visible : m = cur => Finished(m)'
    BY <1>1, <1>2, <2>1 DEF TickInv, Finished
  <2> QED
    BY <1>1, <1>2, <2>1, <2>2 DEF TickInv
<1> QED
  BY <1>3, <1>4, <1>5, <1>6, <1>7, <1>8, <1>9, <1>10, <1>11, <1>12 DEF Next, CrawlStep

(* The cursor is moved over settled messages, or over the listing that the *)
(* first run found.                                                        *)
LEMMA NextCursorPasses ==
  ASSUME PipelineConstants, CrawlStateConstants, IdListingConstants, IInv, Next
  PROVE  CursorPassesOnlySettled'
<1>1. \A m \in Ids : Finished(m) => Finished(m)'
  BY StepProgress
<1>2. /\ TickInv /\ CursorPassesOnlySettled
      /\ visible \subseteq 1..latest /\ latest \in 0..MaxId /\ MaxId \in Nat /\ Ids = 1..MaxId
      /\ cursor \in 0..MaxId /\ cur \in Ids \cup {NoMsg} /\ todo \subseteq Ids
  BY DEF IInv, TypeOK, PipelineConstants, Ids, StateTypeOK
<1>3. \A m \in visible : m \in Ids
  BY <1>2
<1>4. CASE cursor' = cursor /\ visible' \subseteq visible
  BY <1>1, <1>2, <1>3, <1>4 DEF CursorPassesOnlySettled
<1>5. CASE Publish
  <2> PICK m \in (latest + 1)..MaxId : latest' = m /\ visible' = visible \cup {m} /\ cursor' = cursor
    BY <1>5 DEF Publish, crawlState
  <2>1. cursor <= latest
    BY <1>2 DEF TickInv
  <2>2. m > cursor
    BY <1>2, <2>1
  <2> QED
    BY <1>1, <1>2, <1>3, <2>2 DEF CursorPassesOnlySettled
<1>6. ASSUME NEW o \in D1Outcomes, SeedCursor(o), o.committed
      PROVE  CursorPassesOnlySettled'
  <2> cursor' = seeded' /\ visible' = visible /\ seeded' \in Ids
    BY <1>2, <1>6 DEF SeedCursor, site, WriteLastId
  <2> QED
    BY <1>2, <1>3 DEF CursorPassesOnlySettled, Finished
<1>7. ASSUME NEW o \in D1Outcomes, AdvanceCursor(o), o.committed
      PROVE  CursorPassesOnlySettled'
  <2>1. cursor' = cur /\ visible' = visible /\ cur # NoMsg /\ Settled(cur)
    BY <1>2, <1>7 DEF AdvanceCursor, TickInv, site, WriteLastId
  <2>2. \A m \in visible : m <= cur => Finished(m)
    BY <1>2, <1>3, <2>1 DEF TickInv, Finished
  <2> QED
    BY <1>1, <1>3, <2>1, <2>2 DEF CursorPassesOnlySettled
<1> QED
  BY <1>4, <1>5, <1>6, <1>7 DEF Next, AgeOff, CrawlStep, Pipe, Kill,
     ReadCursor, FetchListing, CheckStateRow, FetchMessage, EndTick,
     SeedCursor, ClaimAttempt, GiveUp, ReleaseAttempts, AdvanceCursor,
     crawlState, site, BumpAttempts, Refused, RecordSkip, ClearAttempts,
     WriteLastId

LEMMA NextIInv ==
  ASSUME PipelineConstants, CrawlStateConstants, IdListingConstants, IInv, [Next]_vars
  PROVE  IInv'
<1>1. CASE Next
  <2>1. PipelineInv'
    BY <1>1, PipelineStepInv, CrawlStepPipelineOK DEF Next, Pipe, PipelineOK,
       IInv, TypeOK, StateTypeOK
  <2> QED
    BY <1>1, <2>1, NextType, NextTickInv, NextCursorPasses DEF IInv
<1>2. CASE UNCHANGED vars
  <2>1. TypeOK'
    BY <1>2 DEF IInv, TypeOK, PipelineTypeOK, vars, pipelineVars, site,
       crawlState, attemptRows, ghosts, StateTypeOK
  <2>2. PipelineInv'
    BY <1>2 DEF IInv, PipelineInv, StampedMeansDelivered, Delivered, DeliveredDuplicate,
       Abandoned, vars, pipelineVars
  <2>3. TickInv' /\ CursorPassesOnlySettled'
    BY <1>2 DEF IInv, TickInv, CursorPassesOnlySettled, Finished, Settled, Abandoned,
       vars, pipelineVars, site, crawlState, attemptRows, ghosts
  <2> QED
    BY <2>1, <2>2, <2>3 DEF IInv
<1> QED
  BY <1>1, <1>2

THEOREM Invariance == Spec => []IInv
<1>1. Init => IInv
  BY InitIInv, PipelineConstants, CrawlStateConstants, IdListingConstants
<1>2. IInv /\ [Next]_vars => IInv'
  BY NextIInv, PipelineConstants, CrawlStateConstants, IdListingConstants
<1> QED
  BY <1>1, <1>2, PTL DEF Spec

(* ------------------------------ the theorems ---------------------------- *)

(* Every table, and every variable of the tick, keeps its type.            *)
THEOREM TypeCorrect == Spec => []TypeOK
<1>1. IInv => TypeOK
  BY DEF IInv
<1> QED
  BY <1>1, Invariance, PTL

(* notified_at is set for delivered alerts only (ingestAlert).             *)
THEOREM StampSound == Spec => []StampedMeansDelivered
<1>1. IInv => StampedMeansDelivered
  BY DEF IInv, PipelineInv
<1> QED
  BY <1>1, Invariance, PTL

(* The cursor never passes an owed message (crawlIdListing).               *)
THEOREM CursorSound == Spec => []CursorPassesOnlySettled
<1>1. IInv => CursorPassesOnlySettled
  BY DEF IInv
<1> QED
  BY <1>1, Invariance, PTL

(* A fault once counted stays counted, and without one every record of a   *)
(* skip is written, kept, and followed by the cursor.                      *)
LEMMA NextSkipInv ==
  ASSUME PipelineConstants, CrawlStateConstants, IdListingConstants, IInv, SkipInv, Next
  PROVE  SkipInv'
<1>1. /\ faults \in Nat /\ faults' \in Nat /\ faults' >= faults
      /\ cursor \in Nat /\ cursor' \in Nat /\ cursor' >= cursor
      /\ gaveUp \subseteq Ids /\ \A m \in Ids : m \in Nat
  <2>1. TypeOK' /\ PipelineOK /\ TypeOK
    BY NextType DEF IInv, TypeOK, PipelineOK
  <2>2. faults' = faults \/ Fault
    BY DEF Next, Publish, AgeOff, CrawlStep, Pipe, Kill, ReadCursor, FetchListing,
       CheckStateRow, FetchMessage, EndTick, SeedCursor, ClaimAttempt, GiveUp,
       ReleaseAttempts, AdvanceCursor, D1, NoFault, pipelineVars, PipelineStep, Parse,
       InsertAlert, ReadBack, StoreFails, FindDuplicate, Send, SendAccepted, SendToNobody,
       SendFails, TargetingThrows, CountFailedPush, StampNotified
  <2>3. MaxId \in Nat /\ MaxFaults \in Nat /\ Ids = 1..MaxId /\ 1 \in Ids
    BY DEF PipelineConstants, Ids
  <2>4. faults \in 0..MaxFaults /\ cursor \in 0..MaxId /\ cursor' \in 0..MaxId /\ gaveUp \subseteq Ids
    BY <2>1 DEF TypeOK, PipelineTypeOK, StateTypeOK
  <2>5. cursor' >= cursor
    BY <2>3, StepProgress
  <2> QED
    BY <2>2, <2>3, <2>4, <2>5 DEF Fault
<1>2. ASSUME faults' > 0  PROVE SkipInv'
  BY <1>2 DEF SkipInv
<1>3. ASSUME faults' = 0  PROVE SkipInv'
  <2>0. faults = 0 /\ faults' = faults
    BY <1>1, <1>3
  <2>1. \A m \in gaveUp : m \in skipped /\ (m <= cursor \/ (m = cur /\ pc = "advance"))
    BY <2>0 DEF SkipInv
  <2>2. CASE Publish \/ AgeOff \/ Pipe \/ ReadCursor \/ FetchListing \/ CheckStateRow
             \/ FetchMessage \/ EndTick
    <3>1. pc # "advance" \/ UNCHANGED <<pc, cur>>
      <4>1. CASE Pipe
        BY <4>1, PipelineStepType DEF Pipe, PipelinePCs, IInv, TypeOK, PipelineOK
      <4> QED
        BY <2>2, <4>1 DEF Publish, AgeOff, ReadCursor, FetchListing, CheckStateRow,
           FetchMessage, EndTick, pipelineVars
    <3>2. UNCHANGED <<cursor, skipped, gaveUp>>
      BY <2>2 DEF Publish, AgeOff, Pipe, ReadCursor, FetchListing, CheckStateRow,
         FetchMessage, EndTick, crawlState, attemptRows, ghosts
    <3> QED
      BY <2>1, <3>1, <3>2 DEF SkipInv
  <2>3. CASE Kill
    BY <1>1, <2>0, <2>3 DEF Kill, Fault
  <2>4. ASSUME NEW o \in D1Outcomes,
               SeedCursor(o) \/ ClaimAttempt(o) \/ GiveUp(o) \/ ReleaseAttempts(o) \/ AdvanceCursor(o)
        PROVE  SkipInv'
    <3>1. o.ok /\ o.committed
      <4>1. o.ok
        BY <1>1, <2>0, <2>4 DEF SeedCursor, ClaimAttempt, GiveUp, ReleaseAttempts,
           AdvanceCursor, D1, Fault
      <4> QED
        BY <4>1, D1OutcomeFacts
    <3>2. cur # NoMsg => cursor < cur
      BY DEF IInv, TickInv
    <3>3. CASE SeedCursor(o) \/ ClaimAttempt(o)
      <4>1. pc # "advance" /\ skipped' = skipped /\ gaveUp' = gaveUp
        BY <3>3 DEF SeedCursor, ClaimAttempt, attemptRows, ghosts
      <4>2. ASSUME NEW m \in gaveUp  PROVE m <= cursor'
        <5>1. m <= cursor
          BY <2>1, <4>1
        <5> QED
          BY <1>1, <5>1
      <4> QED
        BY <2>1, <4>1, <4>2 DEF SkipInv
    <3>4. CASE GiveUp(o)
      <4>1. /\ skipped' = skipped \cup {cur} /\ gaveUp' = gaveUp \cup {cur} /\ pc = "skip"
            /\ pc' = "advance" /\ UNCHANGED <<cursor, cur>>
        BY <3>1, <3>4 DEF GiveUp, RecordSkip, crawlState
      <4> QED
        BY <2>1, <4>1 DEF SkipInv
    <3>5. CASE ReleaseAttempts(o)
      <4>1. /\ skipped' = skipped \ {cur} /\ gaveUp' = gaveUp /\ pc = "submitted"
            /\ UNCHANGED cursor
        BY <3>1, <3>5 DEF ReleaseAttempts, ClearAttempts, crawlState, ghosts
      <4>2. cur \in Ids /\ cursor < cur
        BY <3>2, <4>1 DEF IInv, PipelineInv, PipelinePCs, TickInv
      <4>3. cur \notin gaveUp
        BY <1>1, <2>1, <4>1, <4>2
      <4> QED
        BY <2>1, <4>1, <4>3 DEF SkipInv
    <3>6. CASE AdvanceCursor(o)
      <4>1. cursor' = cur /\ skipped' = skipped /\ gaveUp' = gaveUp /\ pc = "advance"
        BY <3>1, <3>6 DEF AdvanceCursor, WriteLastId, attemptRows, ghosts
      <4>2. ASSUME NEW m \in gaveUp  PROVE m <= cursor'
        <5>1. CASE m <= cursor
          BY <1>1, <5>1
        <5>2. CASE m = cur
          BY <1>1, <4>1, <5>2
        <5> QED
          BY <2>1, <5>1, <5>2
      <4> QED
        BY <2>1, <4>1, <4>2 DEF SkipInv
    <3> QED
      BY <2>4, <3>3, <3>4, <3>5, <3>6
  <2> QED
    BY <2>2, <2>3, <2>4 DEF Next, CrawlStep
<1> QED
  BY <1>1, <1>2, <1>3

(* Nothing is skipped in silence, short of a fault (crawlIdListing's       *)
(* recordSkip before the write of the cursor).                             *)
THEOREM SkipsAreRecorded == Spec => []SkipsRecorded
<1>1. Init => SkipInv
  BY DEF Init, SkipInv
<1>2. IInv /\ SkipInv /\ [Next]_vars => SkipInv'
  <2>1. ASSUME UNCHANGED vars, SkipInv  PROVE SkipInv'
    BY <2>1 DEF SkipInv, vars, pipelineVars, crawlState, attemptRows, ghosts
  <2> QED
    BY <2>1, NextSkipInv, PipelineConstants, CrawlStateConstants, IdListingConstants
<1>3. SkipInv => SkipsRecorded
  BY DEF SkipInv, SkipsRecorded
<1> QED
  BY <1>1, <1>2, <1>3, Invariance, PTL DEF Spec

(* What a step may push: the message in hand, owed, past the cursor, with  *)
(* every older one on the listing finished with.                           *)
LEMMA PushFacts ==
  ASSUME PipelineConstants, CrawlStateConstants, IdListingConstants, IInv, Next,
         NEW m \in Ids, pushed'[m] # pushed[m]
  PROVE  /\ m = cur /\ alert[m] = "owed" /\ cursor < m
         /\ \A k \in visible : k < m => Finished(k)
<1>1. CASE Pipe
  <2> m = cur /\ alert[m] = "owed" /\ m # NoMsg
    BY <1>1, SMTT(30), PipelineStepProgress DEF Pipe, PipelineOK, IInv, TypeOK, Ids,
       NoMsg, PipelineConstants, StateTypeOK
  <2> QED
    BY DEF IInv, TickInv
<1>2. CASE Publish \/ AgeOff \/ CrawlStep \/ Kill
  BY <1>2, CrawlStepKeepsPipeline DEF IInv, provider
<1> QED
  BY <1>1, <1>2 DEF Next

(* No push follows the stamp (storeAlert's read-back).                     *)
THEOREM StampFinal == Spec => NoPushAfterStamp
<1>1. IInv /\ [Next]_vars =>
        [\A m \in Ids : alert[m] = "notified" => pushed'[m] = pushed[m]]_pipelineVars
  BY PushFacts, PipelineConstants, CrawlStateConstants, IdListingConstants DEF vars
<1> QED
  BY <1>1, Invariance, PTL DEF Spec, NoPushAfterStamp

(* Messages are pushed oldest first (crawlIdListing's reversed batch).     *)
THEOREM PushOrder == Spec => OldestFirst
<1>1. IInv /\ [Next]_vars =>
        [\A m \in Ids : pushed'[m] # pushed[m] =>
           \A k \in visible : k < m => Finished(k)]_vars
  BY PushFacts, PipelineConstants, CrawlStateConstants, IdListingConstants
<1> QED
  BY <1>1, Invariance, PTL DEF Spec, OldestFirst

(* The cursor never moves back (writeLastId).                              *)
THEOREM CursorMonotone == Spec => CursorNeverBack
<1>1. IInv /\ [Next]_vars => [cursor' >= cursor]_vars
  <2> SUFFICES ASSUME IInv, Next  PROVE cursor' >= cursor
    OBVIOUS
  <2> 1 \in Ids
    BY PipelineConstants DEF Ids, PipelineConstants
  <2> QED
    BY StepProgress, PipelineConstants, CrawlStateConstants, IdListingConstants
<1> QED
  BY <1>1, Invariance, PTL DEF Spec, CursorNeverBack

(* What the cursor has passed is not pushed again (crawlIdListing).        *)
THEOREM PassedStaysPassed == Spec => PassedNeverPushed
<1>1. IInv /\ [Next]_vars => [\A m \in Ids : m <= cursor => pushed'[m] = pushed[m]]_vars
  <2> SUFFICES ASSUME IInv, Next, NEW m \in Ids, m <= cursor, pushed'[m] # pushed[m]
               PROVE  FALSE
    OBVIOUS
  <2>1. cursor < m
    BY PushFacts, PipelineConstants, CrawlStateConstants, IdListingConstants
  <2>2. cursor \in Nat /\ m \in Nat
    BY PipelineConstants DEF IInv, TypeOK, Ids, PipelineConstants, StateTypeOK
  <2> QED
    BY <2>1, <2>2
<1> QED
  BY <1>1, Invariance, PTL DEF Spec, PassedNeverPushed

(* ------------------------- nothing is pushed twice ---------------------- *)

(* A pipeline step takes back neither a fault nor a failed push; it pushes *)
(* at the send only; and the call that has pushed answers with the stamp,  *)
(* with the abandonment, or with a failure more.                           *)
LEMMA PipelineStepCredit ==
  ASSUME PipelineConstants, PipelineOK, PipelineStep, NEW m \in Ids
  PROVE  /\ faults' >= faults /\ pushFails'[m] >= pushFails[m]
         /\ pushed'[m] # pushed[m] =>
              /\ m = cur /\ pc = "send" /\ pc' \in {"count", "stamp"}
              /\ pushed'[m] = pushed[m] + 1
         /\ m = cur /\ pc \in {"count", "stamp"} =>
              \/ alert'[m] = "notified" \/ pc' = "submitted"
              \/ faults' + pushFails'[m] > faults + pushFails[m]
<1> USE DEF PipelineConstants
<1> DEFINE Goal ==
         /\ faults' >= faults /\ pushFails'[m] >= pushFails[m]
         /\ pushed'[m] # pushed[m] =>
              /\ m = cur /\ pc = "send" /\ pc' \in {"count", "stamp"}
              /\ pushed'[m] = pushed[m] + 1
         /\ m = cur /\ pc \in {"count", "stamp"} =>
              \/ alert'[m] = "notified" \/ pc' = "submitted"
              \/ faults' + pushFails'[m] > faults + pushFails[m]
<1>1. /\ faults \in Nat /\ pushFails[m] \in 0..MAX_PUSH_ATTEMPTS /\ cur \in Ids
      /\ pushed[m] \in 0..PushCeiling /\ pushed \in [Ids -> 0..PushCeiling]
      /\ pushFails \in [Ids -> 0..MAX_PUSH_ATTEMPTS] /\ DOMAIN alert = Ids
  BY PipelineStepType DEF PipelineOK, PipelineTypeOK
<1>2. CASE Parse \/ ReadBack \/ StoreFails \/ FindDuplicate \/ TargetingThrows
  BY <1>1, <1>2 DEF Parse, ReadBack, StoreFails, FindDuplicate, TargetingThrows, tables,
     provider, NoFault, Fault
<1>3. ASSUME NEW o \in D1Outcomes, InsertAlert(o)  PROVE Goal
  BY <1>1, <1>3 DEF InsertAlert, provider, D1, NoFault, Fault
<1>4. CASE SendAccepted \/ SendToNobody \/ SendFails
  BY <1>1, <1>4 DEF SendAccepted, SendToNobody, SendFails, tables, provider, NoFault, Bump
<1>5. ASSUME NEW o \in D1Outcomes, CountFailedPush(o)  PROVE Goal
  <2>1. /\ pushed' = pushed /\ faults' \in {faults, faults + 1}
        /\ o.ok \/ faults' = faults + 1
    BY <1>5 DEF CountFailedPush, provider, D1, NoFault, Fault
  <2>2. /\ pushFails'[m] >= pushFails[m] /\ pushFails'[m] \in Nat
        /\ m = cur /\ o.ok =>
             pushFails'[m] > pushFails[m] \/ pushFails'[m] >= MAX_PUSH_ATTEMPTS
    BY <1>1, <1>5, D1OutcomeFacts DEF CountFailedPush, Bump
  <2> QED
    BY <1>1, <1>5, <2>1, <2>2 DEF CountFailedPush
<1>6. ASSUME NEW o \in D1Outcomes, StampNotified(o)  PROVE Goal
  <2>1. /\ pushed' = pushed /\ pushFails' = pushFails /\ faults' \in {faults, faults + 1}
        /\ o.ok \/ faults' = faults + 1
        /\ m = cur /\ o.ok => alert'[m] = "notified"
    BY <1>1, <1>6, D1OutcomeFacts DEF StampNotified, provider, D1, NoFault, Fault
  <2> QED
    BY <1>1, <2>1
<1> QED
  BY <1>2, <1>3, <1>4, <1>5, <1>6 DEF PipelineStep, Send

(* Faults are counted once and for all, and a kill is one.                 *)
LEMMA NextFaults ==
  ASSUME PipelineConstants, CrawlStateConstants, IdListingConstants, IInv, Next
  PROVE  /\ faults \in Nat /\ faults' \in {faults, faults + 1}
         /\ Kill => faults' = faults + 1
<1>1. faults \in Nat
  BY DEF IInv, TypeOK, PipelineTypeOK, PipelineConstants
<1>2. faults' = faults \/ Fault
  BY DEF Next, Publish, AgeOff, CrawlStep, Pipe, Kill, ReadCursor, FetchListing,
     CheckStateRow, FetchMessage, EndTick, SeedCursor, ClaimAttempt, GiveUp,
     ReleaseAttempts, AdvanceCursor, D1, NoFault, pipelineVars, PipelineStep, Parse,
     InsertAlert, ReadBack, StoreFails, FindDuplicate, Send, SendAccepted, SendToNobody,
     SendFails, TargetingThrows, CountFailedPush, StampNotified
<1> QED
  BY <1>1, <1>2 DEF Fault, Kill

(* The first run puts the cursor above the history, and nothing short of a *)
(* fault lets a tick work on the history before that.                      *)
LEMMA NextFirstRunInv ==
  ASSUME PipelineConstants, CrawlStateConstants, IdListingConstants, IInv, FirstRunInv, Next
  PROVE  FirstRunInv'
<1> USE DEF PipelineConstants, IdListingConstants, Ids, site
<1>1. /\ TypeOK /\ TickInv
      /\ History \in Nat /\ latest \in Nat /\ cursor \in Nat /\ visible \subseteq 1..latest
      /\ todo \subseteq 1..MaxId /\ MaxId \in Nat
  BY DEF IInv, TypeOK, StateTypeOK
<1>2. faults' = 0 => faults = 0 /\ ~Kill
  BY NextFaults
<1>3. /\ History <= latest'
      /\ visible' # {} => latest' \in visible'
  <2>1. CASE Publish
    BY <1>1, <2>1 DEF Publish, FirstRunInv
  <2>2. CASE AgeOff
    <3> PICK m \in visible : (\A k \in visible : m <= k) /\ visible' = visible \ {m}
      BY <2>2 DEF AgeOff
    <3>1. m = latest => visible \subseteq {latest}
      BY <1>1
    <3> QED
      BY <2>2, <3>1 DEF AgeOff, FirstRunInv
  <2>3. CASE UNCHANGED site
    BY <2>3 DEF FirstRunInv
  <2> QED
    BY <2>1, <2>2, <2>3 DEF Next, CrawlStep, Pipe, Kill, ReadCursor, FetchListing,
       CheckStateRow, FetchMessage, EndTick, SeedCursor, ClaimAttempt, GiveUp,
       ReleaseAttempts, AdvanceCursor
<1>4. ASSUME pc' \in {"state_row", "seed"}
      PROVE  \E t \in todo' : History <= t
  <2>1. CASE FetchListing
    <3>1. storedId = 0 /\ todo' = NewMessages /\ NewMessages # {}
      BY <1>4, <2>1 DEF FetchListing
    <3>2. latest \in NewMessages
      BY <1>1, <3>1 DEF NewMessages, FirstRunInv
    <3> QED
      BY <3>1, <3>2 DEF FirstRunInv
  <2>2. CASE CheckStateRow
    <3>1. pc = "state_row" /\ todo' = todo
      BY <1>4, <2>2 DEF CheckStateRow
    <3> QED
      BY <3>1 DEF FirstRunInv
  <2>3. CASE Publish \/ AgeOff
    BY <1>4, <2>3 DEF Publish, AgeOff, pipelineVars, FirstRunInv
  <2>4. CASE Pipe
    BY <1>4, <2>4, PipelineStepType DEF Pipe, PipelinePCs, IInv, TypeOK, PipelineOK
  <2>5. ~(Kill \/ ReadCursor \/ FetchMessage \/ EndTick)
    BY <1>4 DEF Kill, ReadCursor, FetchMessage, EndTick, ToIdle
  <2>6. ASSUME NEW o \in D1Outcomes
        PROVE  ~(SeedCursor(o) \/ ClaimAttempt(o) \/ GiveUp(o) \/ ReleaseAttempts(o)
                 \/ AdvanceCursor(o))
    BY <1>4 DEF SeedCursor, ToIdle, ClaimAttempt, GiveUp, ReleaseAttempts, AdvanceCursor
  <2> QED
    BY <2>1, <2>2, <2>3, <2>4, <2>5, <2>6 DEF Next, CrawlStep
<1>5. ASSUME faults' = 0, cursor' < History
      PROVE  ~hasRow' /\ pc' \in {"idle", "listing", "state_row", "seed"}
  <2>1. cursor \in Nat /\ cursor' \in Nat /\ cursor' >= cursor
    <3> 1 \in Ids
      OBVIOUS
    <3>1. cursor' >= cursor
      BY StepProgress
    <3>2. cursor' \in Nat
      BY NextType DEF TypeOK, StateTypeOK
    <3> QED
      BY <1>1, <3>1, <3>2
  <2>2. ~hasRow /\ pc \in {"idle", "listing", "state_row", "seed"} /\ faults = 0 /\ ~Kill
    BY <1>1, <1>2, <1>5, <2>1 DEF FirstRunInv
  <2>3. CASE Publish \/ AgeOff
    BY <2>2, <2>3 DEF Publish, AgeOff, pipelineVars, crawlState
  <2>4. ~Pipe
    BY <2>2, PipelineStepType DEF Pipe, PipelinePCs, IInv, TypeOK, PipelineOK
  <2>5. CASE ReadCursor \/ EndTick
    BY <2>2, <2>5 DEF ReadCursor, EndTick, ToIdle, crawlState
  <2>6. CASE FetchListing
    <3> storedId = 0
      BY <1>1, <2>2, <2>6 DEF FetchListing, TickInv
    <3> QED
      BY <2>2, <2>6 DEF FetchListing, crawlState
  <2>7. CASE CheckStateRow
    <3>1. PICK o \in {Ok, Failed} :
            /\ D1(o)
            /\ IF hasRow \/ ~o.ok
                 THEN pc' = "next" /\ todo' = Batch(todo)
                 ELSE pc' = "seed" /\ todo' = todo
      BY <2>7 DEF CheckStateRow
    <3>2. o.ok
      BY <1>5, <2>2, <3>1 DEF D1, Fault
    <3> QED
      BY <2>2, <2>7, <3>1, <3>2 DEF CheckStateRow, crawlState
  <2>8. ASSUME NEW o \in D1Outcomes, SeedCursor(o)
        PROVE  FALSE
    <3>1. o.ok /\ o.committed
      <4> o.ok
        BY <1>5, <2>2, <2>8 DEF SeedCursor, D1, Fault
      <4> QED
        BY D1OutcomeFacts
    <3>2. PICK newest \in todo : (\A m \in todo : m <= newest) /\ cursor' = newest
      BY <2>8, <3>1 DEF SeedCursor, WriteLastId
    <3>3. PICK t \in todo : History <= t
      BY <2>8 DEF SeedCursor, FirstRunInv
    <3> QED
      BY <1>1, <1>5, <3>2, <3>3
  <2>9. ASSUME NEW o \in D1Outcomes
        PROVE  ~(ClaimAttempt(o) \/ GiveUp(o) \/ ReleaseAttempts(o) \/ AdvanceCursor(o)
                 \/ FetchMessage)
    BY <2>2 DEF ClaimAttempt, GiveUp, ReleaseAttempts, AdvanceCursor, FetchMessage
  <2> QED
    BY <2>2, <2>3, <2>4, <2>5, <2>6, <2>7, <2>8, <2>9 DEF Next, CrawlStep, D1Outcomes
<1> QED
  BY <1>3, <1>4, <1>5 DEF FirstRunInv

(* A push is paid for: by being the first, by a failed send, or by a fault *)
(* before the message can be pushed again.                                 *)
LEMMA NextRepeatInv ==
  ASSUME PipelineConstants, CrawlStateConstants, IdListingConstants, IInv, FirstRunInv, RepeatInv,
         Next
  PROVE  RepeatInv'
<1> USE DEF FirstPush
<1> DEFINE Credit(m) == faults + pushFails[m] + FirstPush(m)
           Weak(m) == pushed[m] <= Credit(m)
           Strong(m) == pushed[m] = 0 \/ pushed[m] < Credit(m)
           Again(m) == cursor < m /\ alert[m] # "notified" /\ ~Unsettled(m)
<1>1. SUFFICES ASSUME NEW m \in Ids
               PROVE  Weak(m)' /\ (Again(m)' => Strong(m)')
  BY DEF RepeatInv, OnlyFailuresRepeat
<1>2. Weak(m) /\ (Again(m) => Strong(m))
  BY DEF RepeatInv, OnlyFailuresRepeat
<1>3. /\ TypeOK /\ TypeOK' /\ TickInv /\ PipelineOK /\ NoMsg = 0
      /\ pushed[m] \in Nat /\ pushFails[m] \in Nat /\ faults \in Nat
      /\ pushed'[m] \in Nat /\ pushFails'[m] \in Nat /\ faults' \in Nat
      /\ m \in Nat /\ m # 0 /\ cursor \in Nat /\ cursor' \in Nat
      /\ History \in Nat /\ FirstPush(m) \in {0, 1}
  <2>1. TypeOK /\ TypeOK' /\ TickInv /\ PipelineOK /\ NoMsg = 0
    BY NextType DEF IInv, TypeOK, PipelineOK, NoMsg
  <2>2. /\ MaxFaults \in Nat /\ MAX_PUSH_ATTEMPTS \in Nat /\ MaxId \in Nat
        /\ History \in Nat /\ m \in 1..MaxId
    BY DEF PipelineConstants, IdListingConstants, Ids
  <2>3. /\ pushed[m] \in Nat /\ pushFails[m] \in Nat /\ faults \in Nat /\ cursor \in Nat
    BY <2>1, <2>2 DEF TypeOK, PipelineTypeOK, StateTypeOK
  <2>4. /\ pushed'[m] \in Nat /\ pushFails'[m] \in Nat /\ faults' \in Nat /\ cursor' \in Nat
    BY <2>1, <2>2 DEF TypeOK, PipelineTypeOK, StateTypeOK
  <2> QED
    BY <2>1, <2>2, <2>3, <2>4
<1>4. faults' >= faults /\ (Kill => faults' = faults + 1) /\ cursor' >= cursor
  BY <1>3, NextFaults, StepProgress
<1>5. CASE Pipe
  <2>1. PipelineStep /\ cur' = cur /\ cursor' = cursor /\ cur \in Ids
        /\ pc \in PipelinePCs /\ pc' \in PipelinePCs
    BY <1>3, <1>5, PipelineStepType DEF Pipe, crawlState
  <2>2. cursor < cur /\ cur # 0
    BY <1>3, <2>1 DEF TickInv, Ids
  <2>3. CASE pushed'[m] # pushed[m]
    <3>1. /\ m = cur /\ pc = "send" /\ pc' \in {"count", "stamp"}
          /\ pushed'[m] = pushed[m] + 1 /\ pushFails'[m] >= pushFails[m]
      BY <1>3, <2>1, <2>3, PipelineStepCredit
    <3>2. Strong(m)
      BY <1>2, <1>3, <2>2, <3>1 DEF PipelineOK, PipelineInv, Unsettled
    <3>3. m \in 1..History => faults > 0
      BY <1>3, <2>2, <3>1 DEF FirstRunInv
    <3>4. Weak(m)'
      BY <1>3, <1>4, <3>1, <3>2, <3>3
    <3> QED
      BY <2>1, <3>1, <3>4 DEF Unsettled
  <2>4. CASE pushed'[m] = pushed[m]
    <3>1. pushFails'[m] >= pushFails[m]
      BY <1>3, <2>1, PipelineStepCredit
    <3>2. Weak(m)'
      BY <1>2, <1>3, <1>4, <2>4, <3>1
    <3>3. CASE Again(m)
      BY <1>2, <1>3, <1>4, <2>4, <3>1, <3>2, <3>3
    <3>4. ASSUME ~Again(m), Again(m)'  PROVE Strong(m)'
      <4>1. alert[m] # "notified"
        BY <1>3, <2>1, <3>4, PipelineStepProgress
      <4>2. Unsettled(m)
        BY <2>1, <3>4, <4>1
      <4>3. m = cur /\ pc \in {"count", "stamp"}
        <5>1. m = cur /\ pc \in {"count", "stamp", "submitted"}
          BY <2>1, <4>2 DEF Unsettled, PipelinePCs
        <5>2. pc # "submitted"
          BY <2>1 DEF PipelineStep, Parse, InsertAlert, ReadBack, StoreFails, FindDuplicate,
             Send, SendAccepted, SendToNobody, SendFails, TargetingThrows, CountFailedPush,
             StampNotified
        <5> QED
          BY <5>1, <5>2
      <4>4. faults' + pushFails'[m] > faults + pushFails[m]
        BY <1>3, <2>1, <3>4, <4>3, PipelineStepCredit DEF Unsettled
      <4> QED
        BY <1>2, <1>3, <2>4, <4>4
    <3> QED
      BY <3>2, <3>3, <3>4
  <2> QED
    BY <2>3, <2>4
<1>6. CASE Publish \/ AgeOff \/ CrawlStep \/ Kill
  <2>1. /\ UNCHANGED <<alert, pushFails, pushed>>
        /\ pc' \in PipelinePCs => pc' = pc \/ (pc' = "parse" /\ cur' \in Ids)
    BY <1>3, <1>6, CrawlStepKeepsPipeline DEF PipelineOK, tables, provider
  <2>2. Weak(m)'
    BY <1>2, <1>3, <1>4, <2>1
  <2>3. CASE Again(m)
    BY <1>2, <1>3, <1>4, <2>1, <2>2, <2>3
  <2>4. ASSUME ~Again(m), Again(m)'  PROVE faults' > faults
    <3>1. alert[m] # "notified" /\ cursor < m /\ Unsettled(m)
      BY <1>3, <1>4, <2>1, <2>4
    <3>2. m = cur /\ pc \in {"count", "stamp", "submitted", "advance"}
      BY <3>1 DEF Unsettled
    <3>3. ~(ReadCursor \/ FetchListing \/ CheckStateRow \/ FetchMessage \/ EndTick)
      BY <3>2 DEF ReadCursor, FetchListing, CheckStateRow, FetchMessage, EndTick
    <3>4. ~(Publish \/ AgeOff)
      BY <2>4, <3>2 DEF Publish, AgeOff, pipelineVars, Unsettled
    <3>5. ASSUME NEW o \in D1Outcomes
          PROVE  ~(SeedCursor(o) \/ ClaimAttempt(o) \/ GiveUp(o) \/ ReleaseAttempts(o))
      <4>1. ~(SeedCursor(o) \/ ClaimAttempt(o) \/ GiveUp(o))
        BY <3>2 DEF SeedCursor, ClaimAttempt, GiveUp
      <4>2. ~ReleaseAttempts(o)
        BY <2>4, <3>2 DEF ReleaseAttempts, Unsettled
      <4> QED
        BY <4>1, <4>2
    <3>6. ASSUME NEW o \in D1Outcomes, AdvanceCursor(o)
          PROVE  faults' = faults + 1
      <4>1. o.committed => cursor' = m
        BY <3>2, <3>6 DEF AdvanceCursor, WriteLastId
      <4>2. ~o.committed
        BY <1>3, <2>4, <4>1
      <4> QED
        BY <3>6, <4>2, D1OutcomeFacts DEF AdvanceCursor, D1, Fault
    <3> QED
      BY <1>3, <1>4, <1>6, <3>3, <3>4, <3>5, <3>6 DEF CrawlStep
  <2> QED
    BY <1>2, <1>3, <2>1, <2>2, <2>3, <2>4
<1> QED
  BY <1>5, <1>6 DEF Next

(* An alert is pushed again, and the history at all, for a failure each    *)
(* only (crawlIdListing, hasStateRow, ingestAlert's push_attempts).        *)
THEOREM RepeatsAreFailures == Spec => []OnlyFailuresRepeat
<1>1. Init => FirstRunInv /\ RepeatInv
  BY PipelineConstants, IdListingConstants DEF Init, PipelineInit, StateInit, FirstRunInv,
     RepeatInv, OnlyFailuresRepeat, FirstPush, PipelineConstants, IdListingConstants, Ids
<1>2. IInv /\ FirstRunInv /\ RepeatInv /\ [Next]_vars => (FirstRunInv /\ RepeatInv)'
  <2>1. ASSUME UNCHANGED vars, FirstRunInv, RepeatInv  PROVE (FirstRunInv /\ RepeatInv)'
    BY <2>1 DEF FirstRunInv, RepeatInv, OnlyFailuresRepeat, FirstPush, Unsettled, vars,
       pipelineVars, site, crawlState
  <2> QED
    BY <2>1, NextFirstRunInv, NextRepeatInv, PipelineConstants, CrawlStateConstants,
       IdListingConstants
<1>3. RepeatInv => OnlyFailuresRepeat
  BY DEF RepeatInv
<1> QED
  BY <1>1, <1>2, <1>3, Invariance, PTL DEF Spec

(* ------------------------------ refinement ------------------------------ *)

(* What a step does to the set of finished messages.                       *)
LEMMA FinishedStep ==
  ASSUME PipelineConstants, CrawlStateConstants, IdListingConstants, IInv, Next, UNCHANGED <<gaveUp, seeded>>,
         NEW m \in Ids, ~Pipe \/ m # cur \/ (alert'[m] = alert[m] /\ pushFails' = pushFails)
  PROVE  Finished(m)' <=> Finished(m)
<1>1. CASE Pipe
  BY <1>1, PipelineStepProgress DEF Pipe, PipelineOK, IInv, TypeOK, Finished,
     Settled, Abandoned, StateTypeOK
<1>2. CASE Publish \/ AgeOff \/ CrawlStep \/ Kill
  BY <1>2, CrawlStepKeepsPipeline DEF IInv, Finished, Settled, Abandoned, tables
<1> QED
  BY <1>1, <1>2 DEF Next

LEMMA PipeRefines ==
  ASSUME PipelineConstants, CrawlStateConstants, IdListingConstants, IInv, Pipe
  PROVE  Abstract!Next \/ UNCHANGED Abstract!promise
<1> Next
  BY DEF Next
<1>1. /\ cur \in Ids /\ cursor < cur
      /\ \A k \in visible : k < cur => k \in finished
      /\ UNCHANGED <<visible, latest, cursor, gaveUp, seeded>>
  <2>1. cur \in Ids /\ cur # NoMsg
    BY PipelineStepType DEF Pipe, PipelineOK, IInv, TypeOK, Ids, NoMsg,
       PipelineConstants, StateTypeOK
  <2>2. visible \subseteq Ids
    BY DEF IInv, TypeOK, Ids, PipelineConstants, StateTypeOK
  <2> QED
    BY <2>1, <2>2 DEF Pipe, IInv, TickInv, finished, site, crawlState, ghosts
<1>2. \A m \in Ids : m # cur => (Finished(m)' <=> Finished(m))
  BY <1>1, FinishedStep
<1>3. CASE pushed' = pushed
  <2>1. Finished(cur) => \A m \in Ids : m = cur => Finished(m)'
    BY <1>1, StepProgress
  <2>2. finished' = finished \/ finished' = finished \cup {cur}
    BY <1>1, <1>2, <2>1 DEF finished
  <2>3. CASE finished' = finished
    BY <1>1, <1>3, <2>3 DEF Abstract!promise
  <2>4. CASE finished' = finished \cup {cur}
    <3> Abstract!Settle(cur)
      BY <1>1, <1>3, <2>4 DEF Abstract!Settle, Abstract!OlderFinished
    <3> QED
      BY <1>1 DEF Abstract!Next, Abstract!Ids, Ids
  <2> QED
    BY <2>2, <2>3, <2>4
<1>4. CASE pushed' # pushed
  <2>1. /\ UNCHANGED <<alert, pushFails>>
        /\ pushed' = [pushed EXCEPT ![cur] = Bump(@, PushCeiling)]
    BY <1>4 DEF Pipe, PipelineStep, Parse, InsertAlert, ReadBack, StoreFails, FindDuplicate,
       Send, SendAccepted, SendToNobody, SendFails, TargetingThrows, CountFailedPush,
       StampNotified, tables, provider
  <2>2. finished' = finished
    BY <1>1, <2>1, FinishedStep DEF finished
  <2>3. Abstract!Push(cur)
    BY <1>1, <2>1, <2>2 DEF Abstract!Push, Abstract!OlderFinished, Bump
  <2> QED
    BY <1>1, <2>3 DEF Abstract!Next, Abstract!Ids, Ids
<1> QED
  BY <1>3, <1>4

LEMMA CrawlRefines ==
  ASSUME PipelineConstants, CrawlStateConstants, IdListingConstants, IInv, Publish \/ AgeOff \/ CrawlStep \/ Kill
  PROVE  Abstract!Next \/ UNCHANGED Abstract!promise
<1> Next
  BY DEF Next
<1>1. UNCHANGED <<tables, provider>>
  BY CrawlStepKeepsPipeline DEF IInv
<1>2. \A m \in Ids : Settled(m)' <=> alert[m] = "notified" \/ Abandoned(m) \/ m \in gaveUp'
  BY <1>1 DEF Settled, Abandoned, tables
<1>3. UNCHANGED <<gaveUp, seeded>> => finished' = finished
  BY <1>2 DEF finished, Finished, Settled
<1>4. /\ TickInv /\ pushed' = pushed
      /\ visible \subseteq 1..latest /\ latest \in 0..MaxId /\ MaxId \in Nat /\ Ids = 1..MaxId
      /\ cursor \in 0..MaxId /\ todo \subseteq Ids /\ visible \subseteq Ids
  BY <1>1 DEF IInv, TypeOK, PipelineConstants, Ids, provider, StateTypeOK
<1>5. cur # NoMsg => cursor < cur /\ cur \in Ids /\ Abstract!OlderFinished(cur)
  BY <1>4 DEF IInv, TypeOK, TickInv, Abstract!OlderFinished, finished,
     StateTypeOK
<1>6. CASE Publish
  <2> Abstract!Publish
    BY <1>3, <1>4, <1>6 DEF Publish, Abstract!Publish, ghosts, crawlState
  <2> QED
    BY DEF Abstract!Next
<1>7. CASE AgeOff
  <2> Abstract!AgeOff
    BY <1>3, <1>4, <1>7 DEF AgeOff, Abstract!AgeOff, ghosts, crawlState
  <2> QED
    BY DEF Abstract!Next
<1>8. ASSUME NEW o \in D1Outcomes, SeedCursor(o), o.committed
      PROVE  Abstract!Seed
  <2>1. PICK newest \in todo : cursor' = newest /\ seeded' = newest
    BY <1>8 DEF SeedCursor, WriteLastId
  <2>2. /\ cursor = 0 /\ seeded = 0 /\ newest \in 1..latest /\ gaveUp' = gaveUp
        /\ UNCHANGED <<visible, latest>>
    BY <1>4, <1>8, <2>1 DEF SeedCursor, TickInv, site, WriteLastId
  <2>3. finished' = finished \cup 1..newest
    BY <1>2, <1>4, <2>1, <2>2 DEF finished, Finished, Settled
  <2> QED
    BY <1>4, <2>1, <2>2, <2>3 DEF Abstract!Seed
<1>9. ASSUME NEW o \in D1Outcomes, GiveUp(o)
      PROVE  Abstract!Settle(cur) /\ cur \in Abstract!Ids
  <2>1. /\ gaveUp' = gaveUp \cup {cur} /\ cur # NoMsg
        /\ UNCHANGED <<visible, latest, cursor, seeded>>
    BY <1>4, <1>9 DEF GiveUp, TickInv, site, crawlState, RecordSkip
  <2>2. finished' = finished \cup {cur}
    BY <1>2, <1>5, <2>1 DEF finished, Finished, Settled
  <2> QED
    BY <1>4, <1>5, <2>1, <2>2 DEF Abstract!Settle, Abstract!Ids, Ids
<1>10. ASSUME NEW o \in D1Outcomes, AdvanceCursor(o), o.committed
       PROVE  Abstract!Pass(cur) /\ cur \in Abstract!Ids
  <2>1. /\ cursor' = cur /\ cur # NoMsg /\ Settled(cur)
        /\ UNCHANGED <<visible, latest, seeded, gaveUp>>
    BY <1>4, <1>10 DEF AdvanceCursor, TickInv, site, ghosts, WriteLastId
  <2> QED
    BY <1>3, <1>4, <1>5, <2>1 DEF Abstract!Pass, Abstract!Ids, Ids, finished, Finished
<1>11. \/ Publish \/ AgeOff
       \/ \E o \in D1Outcomes : \/ o.committed /\ (SeedCursor(o) \/ AdvanceCursor(o))
                                \/ GiveUp(o)
       \/ UNCHANGED <<site, cursor, ghosts>>
  BY DEF CrawlStep, Kill, ReadCursor, FetchListing, CheckStateRow,
     FetchMessage, EndTick, SeedCursor, ClaimAttempt, ReleaseAttempts,
     AdvanceCursor, crawlState, ghosts, BumpAttempts, Refused, ClearAttempts,
     WriteLastId
<1>12. CASE UNCHANGED <<site, cursor, ghosts>>
  BY <1>3, <1>4, <1>12 DEF Abstract!promise, site, ghosts
<1> QED
  BY <1>6, <1>7, <1>8, <1>9, <1>10, <1>11, <1>12 DEF Abstract!Next

(* The crawler, with its tables, ticks, kills and failed statements,       *)
(* delivers in order as OrderedDelivery says (id-listing.ts, pipeline.ts). *)
THEOREM Refinement == Spec => ImplementsOrderedDelivery
<1>1. Init => Abstract!Init
  <2> SUFFICES ASSUME Init  PROVE Abstract!Init
    OBVIOUS
  <2> finished = {}
    BY PipelineConstants DEF Init, PipelineInit, finished, Finished, Settled,
       Abandoned, Ids, PipelineConstants, StateInit
  <2> QED
    BY DEF Init, PipelineInit, Abstract!Init, Abstract!Ids, Ids, StateInit
<1>2. IInv /\ [Next]_vars => [Abstract!Next]_(Abstract!promise)
  <2>1. ASSUME IInv, Next  PROVE Abstract!Next \/ UNCHANGED Abstract!promise
    BY <2>1, PipeRefines, CrawlRefines, PipelineConstants, CrawlStateConstants, IdListingConstants DEF Next
  <2>2. ASSUME UNCHANGED vars  PROVE UNCHANGED Abstract!promise
    BY <2>2 DEF vars, pipelineVars, site, crawlState, ghosts, Abstract!promise, finished,
       Finished, Settled, Abandoned
  <2> QED
    BY <2>1, <2>2
<1> QED
  BY <1>1, <1>2, Invariance, PTL DEF Spec, ImplementsOrderedDelivery, Abstract!Spec

(* What the crawl leaves between its steps, for every listing, cap and     *)
(* number of faults (crawlIdListing, its give-ups and its cursor).         *)
THEOREM CrawlIsSafe == Spec => []CursorSafe
<1>1. TypeOK /\ CursorPassesOnlySettled /\ SkipsRecorded => CursorSafe
  BY DEF CursorSafe
<1> QED
  BY <1>1, TypeCorrect, CursorSound, SkipsAreRecorded, PTL

(* Pushes go out oldest first, forwards, and from beyond the cursor        *)
(* (crawlIdListing).                                                       *)
THEOREM OrderKept == Spec => PushesInOrder
  BY PushOrder, CursorMonotone, PassedStaysPassed DEF PushesInOrder
=============================================================================
