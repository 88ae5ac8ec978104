--------------------------- MODULE IdProbeProofs ----------------------------
(* The ViK crawler's properties for every site, every cap and any number   *)
(* of faults, by the invariant IInv of module IdProbe.                     *)
EXTENDS IdProbe, PipelineProofs

(* What the types say of the variables a step does arithmetic on.          *)
LEMMA Domains ==
  ASSUME PipelineConstants, CrawlStateConstants, IdProbeConstants, TypeOK
  PROVE  /\ MaxId \in Nat \ {0} /\ Ids = 1..MaxId
         /\ MaxPublished \in Nat /\ MaxPublished <= MaxId /\ MaxFaults \in Nat
         /\ MAX_MESSAGES_PER_TICK \in Nat \ {0} /\ MAX_CONSECUTIVE_MISSES \in Nat \ {0}
         /\ MAX_PRE_STORE_ATTEMPTS \in Nat \ {0} /\ AttemptCeiling \in Nat
         /\ cursor \in 0..MaxId /\ latest \in 0..MaxPublished /\ latest \in 0..MaxId
         /\ from \in 0..MaxId /\ id \in 0..(MaxId + 1) /\ seeded \in 0..MaxId
         /\ faults \in 0..MaxFaults
         /\ misses \in 0..MAX_CONSECUTIVE_MISSES
         /\ processed \in 0..MAX_MESSAGES_PER_TICK /\ processed \in Nat
         /\ cur \in 0..MaxId /\ (cur # NoMsg => cur \in Ids)
         /\ published \subseteq 1..latest /\ visible \subseteq published
         /\ \A m \in published : m \in Ids /\ m <= latest
         /\ missed \subseteq Ids /\ overEmpty \subseteq Ids /\ jumped \subseteq Ids
         /\ gaveUp \subseteq Ids
<1> USE DEF TypeOK, PipelineTypeOK, StateTypeOK, PipelineConstants, CrawlStateConstants,
      IdProbeConstants, Ids, NoMsg
<1>1. /\ MaxId \in Nat \ {0} /\ Ids = 1..MaxId
      /\ MaxPublished \in Nat /\ MaxPublished <= MaxId /\ MaxFaults \in Nat
      /\ MAX_MESSAGES_PER_TICK \in Nat \ {0} /\ MAX_CONSECUTIVE_MISSES \in Nat \ {0}
      /\ MAX_PRE_STORE_ATTEMPTS \in Nat \ {0} /\ AttemptCeiling \in Nat
  BY DEF AttemptCeiling
<1>2. /\ cursor \in 0..MaxId /\ latest \in 0..MaxPublished
      /\ from \in 0..MaxId /\ id \in 0..(MaxId + 1) /\ seeded \in 0..MaxId
      /\ faults \in 0..MaxFaults
      /\ misses \in 0..MAX_CONSECUTIVE_MISSES
      /\ processed \in 0..MAX_MESSAGES_PER_TICK
      /\ cur \in Ids \cup {NoMsg}
      /\ published \subseteq 1..latest /\ visible \subseteq published
      /\ missed \subseteq Ids /\ overEmpty \subseteq Ids /\ jumped \subseteq Ids
      /\ gaveUp \subseteq Ids
  OBVIOUS
<1>3. latest \in 0..MaxId /\ processed \in Nat /\ cur \in 0..MaxId /\ (cur # NoMsg => cur \in Ids)
  BY <1>1, <1>2
<1>4. \A m \in published : m \in Ids /\ m <= latest
  BY <1>1, <1>2, <1>3
<1> QED
  BY <1>1, <1>2, <1>3, <1>4

(* --------------------------- one step of Next --------------------------- *)

(* The site, the clock and the crawler's own code touch neither the alerts *)
(* nor the provider, and enter the pipeline at its first step only.        *)
LEMMA CrawlStepKeepsPipeline ==
  ASSUME PipelineConstants, CrawlStateConstants, IdProbeConstants, IInv,
         Publish \/ AgeOff \/ GrowStale \/ CrawlStep \/ Kill
  PROVE  /\ UNCHANGED <<tables, provider>>
         /\ faults' \in 0..MaxFaults
         /\ pc' \in PipelinePCs => pc' = pc \/ (pc' = "parse" /\ cur' \in Ids)
         /\ pc' = pc => cur' = cur
<1>0. /\ faults \in 0..MaxFaults
      /\ pc = "page" => cur \in Ids
  BY Domains DEF IInv, MessageInv, WithMessage
<1> USE <1>0, FaultFacts DEF PipelinePCs, ToIdle, tables, provider
<1>1. CASE Publish \/ AgeOff \/ GrowStale
  BY <1>1 DEF Publish, AgeOff, GrowStale, pipelineVars
<1>2. CASE ReadCursor \/ ReadListingToSeed \/ FetchPage \/ FindStuck \/ ReadListing
           \/ EndTick \/ Kill
  <2> faults' \in 0..MaxFaults
    <3> D1Outcomes # {}
      BY DEF D1Outcomes
    <3> QED
      BY <1>2 DEF ReadCursor, ReadListingToSeed, FetchPage, FindStuck, ReadListing, EndTick, Kill
  <2> QED
    BY <1>2 DEF ReadCursor, ReadListingToSeed, FetchPage, FindStuck, ReadListing, EndTick, Kill
<1>3. CASE CheckStateRow
  <2> Ok \in D1Outcomes /\ Failed \in D1Outcomes
    BY DEF D1Outcomes
  <2> QED
    BY <1>3 DEF CheckStateRow
<1>4. ASSUME NEW o \in D1Outcomes,
             SeedCursor(o) \/ ClaimAttempt(o) \/ GiveUp(o) \/ Miss(o)
             \/ ReleaseAttempts(o) \/ AdvanceCursor(o) \/ JumpCursor(o)
      PROVE  /\ UNCHANGED <<tables, provider>>
             /\ faults' \in 0..MaxFaults
             /\ pc' \notin PipelinePCs /\ pc' # pc
  BY <1>4 DEF SeedCursor, ClaimAttempt, GiveUp, Miss, ReleaseAttempts, AdvanceCursor, JumpCursor
<1>5. CASE Hit
  <2> faults' \in 0..MaxFaults
    BY <1>5 DEF Hit, NoFault
  <2> QED
    BY <1>5 DEF Hit
<1> QED
  BY <1>1, <1>2, <1>3, <1>4, <1>5 DEF CrawlStep

(* So every step keeps the facts about the pipeline.                       *)
LEMMA NextPipelineOK ==
  ASSUME PipelineConstants, CrawlStateConstants, IdProbeConstants, IInv, Next
  PROVE  PipelineTypeOK' /\ PipelineInv'
<1>0. CASE Pipe
  BY <1>0, PipelineStepInv DEF Pipe, PipelineOK, IInv, TypeOK
<1>a. CASE Publish \/ AgeOff \/ GrowStale \/ CrawlStep \/ Kill
  <2>1. /\ UNCHANGED <<tables, provider>>
        /\ faults' \in 0..MaxFaults
        /\ pc' \in PipelinePCs => pc' = pc \/ (pc' = "parse" /\ cur' \in Ids)
        /\ pc' = pc => cur' = cur
    BY <1>a, CrawlStepKeepsPipeline
  <2>0. PipelineTypeOK /\ PipelineInv
    BY DEF IInv, TypeOK
  <2>2. PipelineTypeOK'
    BY <2>0, <2>1 DEF PipelineTypeOK, tables, provider
  <2>3. StampedMeansDelivered'
    BY <2>0, <2>1 DEF PipelineInv, StampedMeansDelivered, Delivered, tables, provider
  <2>4. CASE pc' = pc
    BY <2>0, <2>1, <2>2, <2>3, <2>4 DEF PipelineInv, tables, provider, Delivered,
       DeliveredDuplicate, Abandoned
  <2>5. CASE pc' \notin PipelinePCs
    BY <2>2, <2>3, <2>5 DEF PipelineInv, PipelinePCs
  <2>6. CASE pc' = "parse" /\ cur' \in Ids
    BY <2>2, <2>3, <2>6 DEF PipelineInv
  <2> QED
    BY <2>1, <2>2, <2>4, <2>5, <2>6
<1> QED
  BY <1>0, <1>a DEF Next

(* The four ways a step can leave the cursor and the histories of it.      *)
LEMMA CursorStep ==
  ASSUME PipelineConstants, CrawlStateConstants, IdProbeConstants, IInv, Next
  PROVE  \/ UNCHANGED <<cursor, seeded, overEmpty, jumped>>
         \/ /\ pc = "seed" /\ cursor' = id /\ seeded' = id
            /\ UNCHANGED <<site, overEmpty, jumped>>
         \/ /\ pc = "advance" /\ cursor' = cur
            /\ overEmpty' = overEmpty \cup {m \in missed : m < cur}
            /\ UNCHANGED <<site, seeded, jumped, faults>>
         \/ /\ pc = "advance" /\ cursor' = cur
            /\ overEmpty' = overEmpty \cup {m \in missed : m < cur}
            /\ UNCHANGED <<site, seeded, jumped>> /\ faults' = faults + 1
         \/ /\ pc = "jump" /\ cursor' = id - 1
            /\ jumped' = jumped \cup (from + 1)..(id - 1)
            /\ UNCHANGED <<site, seeded, overEmpty>>
<1> DEFINE Still == UNCHANGED <<cursor, seeded, overEmpty, jumped>>
<1>1. CASE Publish \/ AgeOff \/ GrowStale \/ Pipe \/ Kill \/ ReadCursor \/ CheckStateRow
           \/ ReadListingToSeed \/ FetchPage \/ Hit \/ FindStuck \/ ReadListing \/ EndTick
  <2> Still
    BY <1>1 DEF Publish, AgeOff, GrowStale, Pipe, Kill, ReadCursor, CheckStateRow,
       ReadListingToSeed, FetchPage, Hit, FindStuck, ReadListing, EndTick, crawlState, ghosts
  <2> QED
    OBVIOUS
<1>2. ASSUME NEW o \in D1Outcomes, ClaimAttempt(o) \/ GiveUp(o) \/ Miss(o) \/ ReleaseAttempts(o)
      PROVE  Still
  BY <1>2 DEF ClaimAttempt, GiveUp, Miss, ReleaseAttempts, crawlState, ghosts
<1>3. ASSUME NEW o \in D1Outcomes, SeedCursor(o)
      PROVE  \/ Still
             \/ /\ pc = "seed" /\ cursor' = id /\ seeded' = id
                /\ UNCHANGED <<site, overEmpty, jumped>>
  BY <1>3 DEF SeedCursor, Write, WriteLastId, crawlState
<1>4. ASSUME NEW o \in D1Outcomes, AdvanceCursor(o)
      PROVE  \/ Still
             \/ /\ pc = "advance" /\ cursor' = cur
                /\ overEmpty' = overEmpty \cup {m \in missed : m < cur}
                /\ UNCHANGED <<site, seeded, jumped>>
                /\ faults' = faults \/ faults' = faults + 1
  BY <1>4 DEF AdvanceCursor, Write, WriteLastId, crawlState, D1, Fault, NoFault
<1>5. ASSUME NEW o \in D1Outcomes, JumpCursor(o)
      PROVE  \/ Still
             \/ /\ pc = "jump" /\ cursor' = id - 1
                /\ jumped' = jumped \cup (from + 1)..(id - 1)
                /\ UNCHANGED <<site, seeded, overEmpty>>
  BY <1>5 DEF JumpCursor, Write, WriteLastId, crawlState
<1> QED
  BY <1>1, <1>2, <1>3, <1>4, <1>5 DEF Next, CrawlStep

(* The site only grows upwards, and faults are counted.                    *)
LEMMA SiteStep ==
  ASSUME PipelineConstants, CrawlStateConstants, IdProbeConstants, IInv, Next
  PROVE  /\ latest' \in latest..MaxPublished
         /\ published \subseteq published' /\ published' \subseteq 1..latest'
         /\ visible' \subseteq published'
         /\ \A m \in visible' : m \in visible \/ m > latest
         /\ faults' \in faults..MaxFaults
<1>1. /\ latest \in 0..MaxPublished /\ MaxPublished \in Nat /\ published \subseteq 1..latest
      /\ visible \subseteq published /\ faults \in 0..MaxFaults /\ MaxFaults \in Nat
  BY Domains DEF IInv
<1>2. faults' \in faults..MaxFaults
  <2>1. faults' = faults \/ Fault
    BY DEF Next, Publish, AgeOff, GrowStale, Pipe, Kill, CrawlStep, ReadCursor, CheckStateRow,
       ReadListingToSeed, FetchPage, Hit, FindStuck, ReadListing, EndTick, SeedCursor,
       ClaimAttempt, GiveUp, Miss, ReleaseAttempts, AdvanceCursor, JumpCursor, D1, NoFault,
       pipelineVars, PipelineStep, Parse, InsertAlert, ReadBack, StoreFails, FindDuplicate,
       Send, SendAccepted, SendToNobody, SendFails, TargetingThrows, CountFailedPush,
       StampNotified
  <2> QED
    BY <1>1, <2>1 DEF Fault
<1>3. CASE Publish
  <2> PICK m \in (latest + 1)..MaxPublished :
        /\ latest' = m /\ published' = published \cup {m}
        /\ visible' \in {visible, visible \cup {m}}
    BY <1>3 DEF Publish
  <2>1. m > latest /\ m \in 1..MaxPublished
    BY <1>1
  <2>2. published' \subseteq 1..latest'
    BY <1>1, <2>1
  <2>3. visible' \subseteq published' /\ \A k \in visible' : k \in visible \/ k > latest
    BY <1>1, <2>1
  <2> QED
    BY <1>1, <1>2, <2>1, <2>2, <2>3
<1>4. CASE AgeOff
  <2> latest' = latest /\ published' = published /\ visible' \subseteq visible
    BY <1>4 DEF AgeOff
  <2> QED
    BY <1>1, <1>2
<1>5. CASE ~(Publish \/ AgeOff)
  <2> latest' = latest /\ published' = published /\ visible' = visible
    BY <1>5 DEF Next, GrowStale, Pipe, Kill, CrawlStep, ReadCursor, CheckStateRow,
       ReadListingToSeed, FetchPage, Hit, FindStuck, ReadListing, EndTick, SeedCursor,
       ClaimAttempt, GiveUp, Miss, ReleaseAttempts, AdvanceCursor, JumpCursor, site
  <2> QED
    BY <1>1, <1>2
<1> QED
  BY <1>3, <1>4, <1>5

(* No step changes its mind about a message that is finished with, and     *)
(* the cursor never moves back.                                            *)
LEMMA StepProgress ==
  ASSUME PipelineConstants, CrawlStateConstants, IdProbeConstants, IInv, Next
  PROVE  /\ \A m \in Ids : Settled(m) => Settled(m)'
         /\ \A m \in Ids : Finished(m) => Finished(m)'
         /\ cursor' \in cursor..MaxId /\ seeded' \in seeded..MaxId
         /\ overEmpty \subseteq overEmpty' /\ jumped \subseteq jumped'
<1>1. gaveUp \subseteq gaveUp'
  BY DEF Next, Publish, AgeOff, GrowStale, Pipe, Kill, CrawlStep, ReadCursor, CheckStateRow,
     ReadListingToSeed, FetchPage, Hit, FindStuck, ReadListing, EndTick, SeedCursor,
     ClaimAttempt, GiveUp, Miss, ReleaseAttempts, AdvanceCursor, JumpCursor, ghosts
<1>2. ASSUME NEW m \in Ids, Settled(m)
      PROVE  Settled(m)'
  <2>1. CASE Pipe
    BY <1>1, <1>2, <2>1, PipelineStepProgress DEF Pipe, Settled, PipelineOK, IInv, TypeOK
  <2>2. CASE Publish \/ AgeOff \/ GrowStale \/ CrawlStep \/ Kill
    BY <1>1, <1>2, <2>2, CrawlStepKeepsPipeline DEF Settled, Abandoned, tables
  <2> QED
    BY <2>1, <2>2 DEF Next
<1>3. /\ MaxId \in Nat /\ cursor \in 0..MaxId /\ seeded \in 0..MaxId
      /\ cur \in 0..MaxId /\ id \in 0..(MaxId + 1) /\ latest \in 0..MaxId
  BY Domains DEF IInv
<1>4. /\ pc = "seed" => cursor = 0 /\ seeded = 0 /\ id \in 1..latest
      /\ pc = "advance" => cursor < cur
      /\ pc = "jump" => cursor < id /\ id <= latest
  <2>1. pc = "seed" => cursor = 0 /\ id \in 1..latest
    BY DEF IInv, PositionInv
  <2>2. pc = "advance" => cursor < cur
    BY DEF IInv, PositionInv, MessageInv, Walking, WithMessage
  <2>3. pc = "jump" => cursor < id /\ id <= latest
    BY DEF IInv, PositionInv
  <2>4. seeded <= cursor
    BY DEF IInv, HistoryInv
  <2> QED
    BY <1>3, <2>1, <2>2, <2>3, <2>4
<1>5. /\ cursor' \in cursor..MaxId /\ seeded' \in seeded..MaxId
      /\ overEmpty \subseteq overEmpty' /\ jumped \subseteq jumped'
  BY <1>3, <1>4, CursorStep
<1>6. ASSUME NEW m \in Ids, Finished(m)
      PROVE  Finished(m)'
  <2>1. CASE m <= seeded
    <3> m <= seeded'
      BY <1>3, <1>5, <2>1 DEF Ids
    <3> QED
      BY DEF Finished
  <2>2. CASE Settled(m)
    BY <1>2, <2>2 DEF Finished
  <2> QED
    BY <1>6, <2>1, <2>2 DEF Finished
<1> QED
  BY <1>2, <1>5, <1>6

(* ------------------------- the inductive invariant ---------------------- *)

LEMMA InitIInv ==
  ASSUME PipelineConstants, CrawlStateConstants, IdProbeConstants, Init
  PROVE  IInv
<1> USE DEF PipelineConstants, CrawlStateConstants, IdProbeConstants, Init, PipelineInit, Ids,
      NoMsg, StateInit, NoWalk
<1>1. PipelineTypeOK
  BY DEF PipelineTypeOK
<1>2. StateTypeOK
  <2> AttemptCeiling \in Nat
    BY DEF AttemptCeiling
  <2> 0 \in 0..AttemptCeiling
    OBVIOUS
  <2> attempts \in [Ids -> 0..AttemptCeiling]
    OBVIOUS
  <2> cursor \in 0..MaxId
    OBVIOUS
  <2> hasRow \in BOOLEAN /\ skipped \subseteq Ids
    BY Zenon
  <2> QED
    BY DEF StateTypeOK
<1>3. pc \in PCs
  BY DEF PCs
<1>4. /\ latest \in 0..MaxPublished /\ from \in 0..MaxId /\ id \in 0..(MaxId + 1)
      /\ misses \in 0..MAX_CONSECUTIVE_MISSES
      /\ processed \in 0..MAX_MESSAGES_PER_TICK /\ seeded \in 0..MaxId
  OBVIOUS
<1>5. TypeOK
  BY <1>1, <1>2, <1>3, <1>4 DEF TypeOK
<1>6. PipelineInv
  BY DEF PipelineInv, PipelinePCs, StampedMeansDelivered
<1>7. PositionInv /\ MessageInv
  BY DEF PositionInv, MessageInv, Walking, WithMessage, PipelinePCs
<1>8. ClaimInv /\ HistoryInv
  BY DEF ClaimInv, HistoryInv, Standing
<1>9. CursorPassesOnlyRead /\ UnpublishedNotPassed
  BY DEF CursorPassesOnlyRead, UnpublishedNotPassed
<1> QED
  BY <1>5, <1>6, <1>7, <1>8, <1>9 DEF IInv

(* Every variable keeps its type.                                          *)
LEMMA NextType ==
  ASSUME PipelineConstants, CrawlStateConstants, IdProbeConstants, IInv, Next
  PROVE  TypeOK'
<1>1. /\ MaxId \in Nat \ {0} /\ Ids = 1..MaxId /\ AttemptCeiling \in Nat
      /\ MaxPublished \in Nat /\ MaxPublished <= MaxId
      /\ MAX_CONSECUTIVE_MISSES \in Nat /\ MAX_MESSAGES_PER_TICK \in Nat
      /\ cursor \in 0..MaxId /\ latest \in 0..MaxPublished
      /\ from \in 0..MaxId /\ id \in 0..(MaxId + 1)
      /\ misses \in 0..MAX_CONSECUTIVE_MISSES /\ processed \in 0..MAX_MESSAGES_PER_TICK
      /\ cur \in 0..MaxId
  BY Domains DEF IInv
<1>2. /\ pc \in WithMessage => cur \in Ids /\ cur = id /\ processed < MAX_MESSAGES_PER_TICK
                               /\ misses < MAX_CONSECUTIVE_MISSES
      /\ pc = "probe" => id > cursor
      /\ pc = "jump" => id <= latest /\ id > from
  <2> (cur # NoMsg => cur \in Ids)
    BY Domains DEF IInv
  <2> QED
    BY <1>1 DEF IInv, MessageInv, PositionInv, Walking
<1>3. PipelineTypeOK'
  BY NextPipelineOK
<1>4. StateTypeOK'
  <2>1. cursor' \in 0..MaxId
    BY <1>1, StepProgress
  <2>2. hasRow' \in BOOLEAN
    <3>1. hasRow \in BOOLEAN
      BY DEF IInv, TypeOK, StateTypeOK
    <3>2. hasRow' = hasRow \/ hasRow' = TRUE
      BY DEF Next, Publish, AgeOff, GrowStale, Pipe, Kill, CrawlStep, ReadCursor, CheckStateRow,
         ReadListingToSeed, FetchPage, Hit, FindStuck, ReadListing, EndTick, SeedCursor,
         ClaimAttempt, GiveUp, Miss, ReleaseAttempts, AdvanceCursor, JumpCursor, Write,
         WriteLastId, crawlState
    <3> QED
      BY <3>1, <3>2, Zenon
  <2>3. attempts' \in [Ids -> 0..AttemptCeiling]
    <3>0. attempts \in [Ids -> 0..AttemptCeiling]
      BY DEF IInv, TypeOK, StateTypeOK
    <3>1. ASSUME NEW o \in D1Outcomes, ClaimAttempt(o)
          PROVE  attempts' \in [Ids -> 0..AttemptCeiling]
      <4> cur \in Ids
        BY <1>2, <3>1 DEF ClaimAttempt, WithMessage
      <4> Bump(attempts[cur], AttemptCeiling) \in 0..AttemptCeiling
        BY <1>1, <3>0, BumpFacts
      <4> QED
        BY <3>0, <3>1 DEF ClaimAttempt, BumpAttempts
    <3>2. ASSUME NEW o \in D1Outcomes, ReleaseAttempts(o) \/ Miss(o)
          PROVE  attempts' \in [Ids -> 0..AttemptCeiling]
      BY <1>1, <3>0, <3>2 DEF ReleaseAttempts, Miss, ClearAttempts, attemptRows
    <3>3. CASE attempts' = attempts
      BY <3>0, <3>3
    <3> QED
      BY <3>1, <3>2, <3>3 DEF Next, Publish, AgeOff, GrowStale, Pipe, Kill, CrawlStep,
         ReadCursor, CheckStateRow, ReadListingToSeed, FetchPage, Hit, FindStuck, ReadListing,
         EndTick, SeedCursor, GiveUp, AdvanceCursor, JumpCursor, attemptRows
  <2>4. skipped' \subseteq Ids
    <3>1. skipped \subseteq Ids
      BY DEF IInv, TypeOK, StateTypeOK
    <3>2. skipped' \subseteq skipped \/ (pc = "skip" /\ skipped' \subseteq skipped \cup {cur})
      BY DEF Next, Publish, AgeOff, GrowStale, Pipe, Kill, CrawlStep, ReadCursor, CheckStateRow,
         ReadListingToSeed, FetchPage, Hit, FindStuck, ReadListing, EndTick, SeedCursor,
         ClaimAttempt, GiveUp, Miss, ReleaseAttempts, AdvanceCursor, JumpCursor, RecordSkip,
         ClearAttempts, attemptRows
    <3> QED
      BY <1>2, <3>1, <3>2 DEF WithMessage
  <2> QED
    BY <2>1, <2>2, <2>3, <2>4 DEF StateTypeOK
<1>5. pc' \in PCs /\ cur' \in Ids \cup {NoMsg}
  <2>0. pc \in PCs /\ cur \in Ids \cup {NoMsg}
    BY DEF IInv, TypeOK
  <2>1. CASE Pipe
    BY <2>0, <2>1, PipelineStepType DEF Pipe, PCs, IInv, TypeOK, PipelineOK
  <2>2. CASE Publish \/ AgeOff \/ GrowStale \/ Kill \/ ReadCursor \/ CheckStateRow
             \/ ReadListingToSeed \/ Hit \/ FindStuck \/ ReadListing \/ EndTick
    <3> /\ pc' \in {pc, "idle", "state_row", "probe", "seed_listing", "seed", "parse", "stuck", "jump"}
        /\ cur' \in {cur, NoMsg}
      BY <2>2 DEF Publish, AgeOff, GrowStale, Kill, ReadCursor, CheckStateRow, ReadListingToSeed,
         Hit, FindStuck, ReadListing, EndTick, ToIdle, pipelineVars
    <3> QED
      BY <2>0 DEF PCs, PipelinePCs
  <2>3. CASE FetchPage
    <3> id \in Ids
      BY <1>1, <1>2, <2>3 DEF FetchPage
    <3> QED
      BY <2>3 DEF FetchPage, PCs
  <2>4. ASSUME NEW o \in D1Outcomes,
               SeedCursor(o) \/ ClaimAttempt(o) \/ GiveUp(o) \/ Miss(o)
               \/ ReleaseAttempts(o) \/ AdvanceCursor(o) \/ JumpCursor(o)
        PROVE  pc' \in PCs /\ cur' \in Ids \cup {NoMsg}
    <3> pc' \in {"idle", "skip", "page", "advance", "probe"} /\ cur' \in {cur, NoMsg}
      BY <2>4 DEF SeedCursor, ClaimAttempt, GiveUp, Miss, ReleaseAttempts, AdvanceCursor,
         JumpCursor, ToIdle
    <3> QED
      BY <2>0 DEF PCs
  <2> QED
    BY <2>1, <2>2, <2>3, <2>4 DEF Next, CrawlStep
<1>6. latest' \in 0..MaxPublished /\ published' \subseteq 1..latest' /\ visible' \subseteq published'
  BY <1>1, SiteStep
<1>7. stale' \in BOOLEAN /\ empty' \in BOOLEAN
  <2>0. stale \in BOOLEAN /\ empty \in BOOLEAN
    BY DEF IInv, TypeOK
  <2>1. /\ stale' = stale \/ stale' = TRUE \/ stale' = FALSE
        /\ empty' = empty \/ empty' = FALSE \/ empty' = (id \notin published)
    BY DEF Next, Publish, AgeOff, GrowStale, Pipe, Kill, CrawlStep, ReadCursor, CheckStateRow,
       ReadListingToSeed, FetchPage, Hit, FindStuck, ReadListing, EndTick, SeedCursor,
       ClaimAttempt, GiveUp, Miss, ReleaseAttempts, AdvanceCursor, JumpCursor, Write,
       ToIdle, walk
  <2> QED
    BY <2>0, <2>1, Zenon
<1>8. /\ from' \in 0..MaxId /\ id' \in 0..(MaxId + 1)
      /\ misses' \in 0..MAX_CONSECUTIVE_MISSES /\ processed' \in 0..MAX_MESSAGES_PER_TICK
  <2>1. from' \in {from, 0, cursor}
    BY DEF Next, Publish, AgeOff, GrowStale, Pipe, Kill, CrawlStep, ReadCursor, CheckStateRow,
       ReadListingToSeed, FetchPage, Hit, FindStuck, ReadListing, EndTick, SeedCursor,
       ClaimAttempt, GiveUp, Miss, ReleaseAttempts, AdvanceCursor, JumpCursor, ToIdle, walk
  <2>2. id' \in {id, 0, cursor + 1} \cup visible \/ (pc \in WithMessage /\ id' = id + 1)
    BY DEF Next, Publish, AgeOff, GrowStale, Pipe, Kill, CrawlStep, ReadCursor, CheckStateRow,
       ReadListingToSeed, FetchPage, Hit, FindStuck, ReadListing, EndTick, SeedCursor,
       ClaimAttempt, GiveUp, Miss, ReleaseAttempts, AdvanceCursor, JumpCursor, ToIdle, walk,
       WithMessage
  <2>3. misses' \in {misses, 0} \/ (pc \in WithMessage /\ misses' = misses + 1)
    BY DEF Next, Publish, AgeOff, GrowStale, Pipe, Kill, CrawlStep, ReadCursor, CheckStateRow,
       ReadListingToSeed, FetchPage, Hit, FindStuck, ReadListing, EndTick, SeedCursor,
       ClaimAttempt, GiveUp, Miss, ReleaseAttempts, AdvanceCursor, JumpCursor, ToIdle, walk,
       WithMessage
  <2>4. processed' \in {processed, 0} \/ (pc \in WithMessage /\ processed' = processed + 1)
    BY DEF Next, Publish, AgeOff, GrowStale, Pipe, Kill, CrawlStep, ReadCursor, CheckStateRow,
       ReadListingToSeed, FetchPage, Hit, FindStuck, ReadListing, EndTick, SeedCursor,
       ClaimAttempt, GiveUp, Miss, ReleaseAttempts, AdvanceCursor, JumpCursor, ToIdle, walk,
       WithMessage
  <2>5. visible \subseteq 0..(MaxId + 1)
    BY <1>1, Domains DEF IInv
  <2>6. id' \in 0..(MaxId + 1)
    <3>1. \A m \in Ids : m + 1 \in 0..(MaxId + 1)
      BY <1>1
    <3>2. cursor + 1 \in 0..(MaxId + 1) /\ 0 \in 0..(MaxId + 1) /\ id \in 0..(MaxId + 1)
      BY <1>1
    <3> QED
      BY <1>2, <2>2, <2>5, <3>1, <3>2
  <2> QED
    BY <1>1, <1>2, <2>1, <2>3, <2>4, <2>6
<1>9. seeded' \in 0..MaxId
  <2> seeded \in 0..MaxId
    BY Domains DEF IInv
  <2> QED
    BY <1>1, StepProgress
<1>10. missed' \subseteq Ids /\ gaveUp' \subseteq Ids
  <2>0. missed \subseteq Ids /\ gaveUp \subseteq Ids
    BY DEF IInv, TypeOK
  <2>1. /\ missed' \subseteq missed \/ (pc \in WithMessage /\ missed' = missed \cup {cur})
        /\ gaveUp' = gaveUp \/ (pc \in WithMessage /\ gaveUp' = gaveUp \cup {cur})
    BY DEF Next, Publish, AgeOff, GrowStale, Pipe, Kill, CrawlStep, ReadCursor, CheckStateRow,
       ReadListingToSeed, FetchPage, Hit, FindStuck, ReadListing, EndTick, SeedCursor,
       ClaimAttempt, GiveUp, Miss, ReleaseAttempts, AdvanceCursor, JumpCursor, ToIdle, walk,
       ghosts, WithMessage
  <2> QED
    BY <1>2, <2>0, <2>1
<1>11. overEmpty' \subseteq Ids /\ jumped' \subseteq Ids
  <2>0. missed \subseteq Ids /\ overEmpty \subseteq Ids /\ jumped \subseteq Ids
    BY DEF IInv, TypeOK
  <2>1. pc = "jump" => (from + 1)..(id - 1) \subseteq Ids
    BY <1>1, <1>2
  <2> QED
    BY <2>0, <2>1, CursorStep
<1> QED
  BY <1>3, <1>4, <1>5, <1>6, <1>7, <1>8, <1>9, <1>10, <1>11 DEF TypeOK

(* A walk leaves behind it only what it has missed or finished with.       *)
LEMMA NextPosition ==
  ASSUME PipelineConstants, CrawlStateConstants, IdProbeConstants, IInv, Next
  PROVE  PositionInv'
<1>1. /\ MaxId \in Nat /\ Ids = 1..MaxId /\ cursor \in 0..MaxId /\ latest \in 0..MaxId
      /\ from \in 0..MaxId /\ id \in 0..(MaxId + 1) /\ processed \in Nat
      /\ \A m \in published : m \in Ids /\ m <= latest
      /\ visible \subseteq published
  BY Domains DEF IInv
<1>2. \A m \in Ids : Settled(m) => Settled(m)'
  BY StepProgress
<1>3. PositionInv /\ MessageInv
  BY DEF IInv
<1>4. latest' >= latest /\ \A m \in visible' : m \in visible \/ m > latest
  BY <1>1, SiteStep
<1>5. latest' \in Nat /\ \A m \in visible' : m \in Nat
  BY <1>1, SiteStep
<1>6. CASE Publish \/ AgeOff \/ GrowStale
  <2>1. UNCHANGED <<pc, cur, cursor, walk>>
    BY <1>6 DEF Publish, AgeOff, GrowStale, pipelineVars, crawlState
  <2>2. pc = "jump" => \A m \in visible' : m <= from \/ id <= m
    <3>1. ASSUME pc = "jump", NEW m \in visible'
          PROVE  m <= from \/ id <= m
      <4>1. CASE m \in visible
        BY <1>3, <3>1, <4>1 DEF PositionInv
      <4>2. CASE m > latest
        <5> id <= latest
          BY <1>3, <3>1 DEF PositionInv
        <5> QED
          BY <1>1, <1>5, <3>1, <4>2
      <4> QED
        BY <1>4, <3>1, <4>1, <4>2
    <3> QED
      BY <3>1
  <2>3. pc = "seed" => id \in 1..latest'
    <3> pc = "seed" => id \in 1..latest
      BY <1>3 DEF PositionInv
    <3> QED
      BY <1>1, <1>4, <1>5
  <2>4. pc = "jump" => cursor = from /\ from < id /\ id <= latest'
    <3> pc = "jump" => cursor = from /\ from < id /\ id <= latest
      BY <1>3 DEF PositionInv
    <3> QED
      BY <1>1, <1>4, <1>5
  <2>5. pc \in Walking =>
          /\ from <= cursor /\ cursor < id
          /\ \A m \in Ids : cursor < m /\ m < id => m \in missed \/ Settled(m)'
          /\ processed = 0 => cursor = from
    BY <1>2, <1>3 DEF PositionInv
  <2>6. /\ pc \in {"state_row", "seed_listing", "seed"} => cursor = 0
        /\ pc = "stuck" => processed = 0
    BY <1>3 DEF PositionInv
  <2> QED
    BY <2>1, <2>2, <2>3, <2>4, <2>5, <2>6 DEF PositionInv, walk
<1>7. CASE Pipe
  <2>1. pc \in PipelinePCs /\ pc' \in PipelinePCs
    BY <1>7, PipelineStepType DEF Pipe, IInv, TypeOK, PipelineOK
  <2>2. UNCHANGED <<cursor, from, id, missed, processed, latest, visible>>
    BY <1>7 DEF Pipe, crawlState, walk, site
  <2>3. pc \in Walking /\ pc' \in Walking
    BY <2>1 DEF Walking, WithMessage
  <2>4. pc' \notin {"state_row", "seed_listing", "seed", "stuck", "jump"}
    BY <2>1 DEF PipelinePCs
  <2> QED
    BY <1>2, <1>3, <2>2, <2>3, <2>4 DEF PositionInv
<1>8. CASE EndTick \/ Kill \/ \E o \in D1Outcomes : SeedCursor(o) \/ JumpCursor(o)
  <2> pc' = "idle"
    BY <1>8 DEF EndTick, Kill, SeedCursor, JumpCursor, ToIdle
  <2> QED
    BY DEF PositionInv, Walking, WithMessage, PipelinePCs
<1>9. CASE ReadCursor
  <2>1. /\ from' = cursor /\ id' = cursor + 1 /\ cursor' = cursor
        /\ pc' \in {"state_row", "probe"} /\ (pc' = "state_row" => cursor = 0)
    BY <1>9 DEF ReadCursor, crawlState
  <2>2. \A m \in Ids : ~(cursor < m /\ m < cursor + 1)
    BY <1>1
  <2>3. cursor <= cursor /\ cursor < cursor + 1
    BY <1>1
  <2> QED
    BY <2>1, <2>2, <2>3 DEF PositionInv
<1>10. CASE CheckStateRow \/ FetchPage \/ Hit \/ FindStuck
  <2>1. /\ UNCHANGED <<cursor, from, id, missed, processed>>
        /\ pc \in {"state_row", "probe", "page"}
        /\ pc' \in {"probe", "claim", "parse", "stuck"} \/ (pc = "state_row" /\ pc' = "seed_listing")
        /\ pc' = "stuck" => processed = 0
    BY <1>10 DEF CheckStateRow, FetchPage, Hit, FindStuck, crawlState, walk
  <2>2. pc \in Walking
    BY <2>1 DEF Walking, WithMessage
  <2>3. /\ from <= cursor /\ cursor < id
        /\ \A m \in Ids : cursor < m /\ m < id => m \in missed \/ Settled(m)'
        /\ processed = 0 => cursor = from
    BY <1>2, <1>3, <2>2 DEF PositionInv
  <2>4. pc' = "seed_listing" => cursor = 0
    BY <1>3, <2>1 DEF PositionInv
  <2> QED
    BY <2>1, <2>3, <2>4 DEF PositionInv
<1>11. CASE ReadListingToSeed
  <2>1. id' \in visible /\ pc = "seed_listing" /\ pc' = "seed" /\ UNCHANGED <<cursor, latest>>
    BY <1>11 DEF ReadListingToSeed, crawlState, site
  <2>2. cursor = 0
    BY <1>3, <2>1 DEF PositionInv
  <2>3. id' \in 1..latest
    BY <1>1, <2>1
  <2> QED
    BY <2>1, <2>2, <2>3 DEF PositionInv, Walking, WithMessage, PipelinePCs
<1>12. CASE ReadListing
  <2>1. /\ id' \in visible /\ id' > from /\ \A m \in visible : m > from => id' <= m
        /\ pc = "stuck" /\ pc' = "jump" /\ UNCHANGED <<cursor, from, latest, visible>>
    BY <1>12 DEF ReadListing, crawlState, site
  <2>2. cursor = from
    BY <1>3, <2>1 DEF PositionInv, Walking
  <2>3. from < id' /\ id' <= latest /\ \A m \in visible : m <= from \/ id' <= m
    BY <1>1, <2>1
  <2> QED
    BY <2>1, <2>2, <2>3 DEF PositionInv, Walking, WithMessage, PipelinePCs
<1>13. ASSUME NEW o \in D1Outcomes, ClaimAttempt(o) \/ GiveUp(o) \/ ReleaseAttempts(o)
       PROVE  PositionInv'
  <2>1. /\ UNCHANGED <<cursor, from, id, missed, processed>>
        /\ pc \in {"claim", "skip", "submitted"}
        /\ pc' \in {"skip", "page", "advance"}
    BY <1>13 DEF ClaimAttempt, GiveUp, ReleaseAttempts, crawlState, walk
  <2>2. pc \in Walking
    BY <2>1 DEF Walking, WithMessage, PipelinePCs
  <2> QED
    BY <1>2, <1>3, <2>1, <2>2 DEF PositionInv
<1>14. ASSUME NEW o \in D1Outcomes, Miss(o)
       PROVE  PositionInv'
  <2>1. /\ UNCHANGED <<cursor, from, processed>> /\ pc = "page" /\ pc' = "probe"
        /\ id' = id + 1 /\ missed' = missed \cup {cur}
    BY <1>14 DEF Miss, crawlState
  <2>2. pc \in Walking /\ cur = id
    BY <1>3, <2>1 DEF Walking, WithMessage, MessageInv
  <2>3. \A m \in Ids : m < id + 1 => m < id \/ m = id
    BY <1>1
  <2>4. from <= cursor /\ cursor < id + 1 /\ (processed = 0 => cursor = from)
    BY <1>1, <1>3, <2>2 DEF PositionInv
  <2> QED
    BY <1>2, <1>3, <2>1, <2>2, <2>3, <2>4 DEF PositionInv
<1>15. ASSUME NEW o \in D1Outcomes, AdvanceCursor(o)
       PROVE  PositionInv'
  <2>1. /\ UNCHANGED <<from, missed>> /\ pc = "advance" /\ pc' = "probe"
        /\ id' = id + 1 /\ processed' = processed + 1 /\ cursor' \in {cursor, cur}
    BY <1>15 DEF AdvanceCursor, Write, WriteLastId, crawlState
  <2>2. pc \in Walking /\ cur = id /\ Settled(cur)
    BY <1>3, <2>1 DEF Walking, WithMessage, MessageInv
  <2>3. \A m \in Ids : m < id + 1 => m < id \/ m = id
    BY <1>1
  <2>4. from <= cursor' /\ cursor' < id + 1 /\ cursor <= cursor' /\ processed' # 0
    BY <1>1, <1>3, <2>1, <2>2 DEF PositionInv
  <2>5. \A m \in Ids : cursor' < m => cursor < m
    BY <1>1, <2>1, <2>2, <2>4
  <2> QED
    BY <1>2, <1>3, <2>1, <2>2, <2>3, <2>4, <2>5 DEF PositionInv
<1> QED
  BY <1>6, <1>7, <1>8, <1>9, <1>10, <1>11, <1>12, <1>13, <1>14, <1>15 DEF Next, CrawlStep

(* The message in hand is the walk's next id; only a page that holds one   *)
(* reaches the pipeline, and only a message finished with reaches the      *)
(* cursor.                                                                 *)
LEMMA NextMessage ==
  ASSUME PipelineConstants, CrawlStateConstants, IdProbeConstants, IInv, Next
  PROVE  MessageInv'
<1>1. /\ MAX_CONSECUTIVE_MISSES \in Nat \ {0} /\ cursor \in Nat
      /\ id \in Nat
  BY Domains DEF IInv
<1>2. \A m \in Ids : Settled(m) => Settled(m)'
  BY StepProgress
<1>3. PositionInv /\ MessageInv /\ PipelineInv
  BY DEF IInv
<1>4. published \subseteq published'
  BY SiteStep
<1>5. cur # NoMsg => cur \in Ids
  BY Domains DEF IInv
<1>6. CASE Publish \/ AgeOff \/ GrowStale
  <2> UNCHANGED <<pc, cur, id, processed, misses, empty>>
    BY <1>6 DEF Publish, AgeOff, GrowStale, pipelineVars, walk
  <2> QED
    BY <1>2, <1>3, <1>4, <1>5 DEF MessageInv, WithMessage
<1>7. CASE Pipe
  <2>1. pc \in PipelinePCs /\ pc' \in PipelinePCs
    BY <1>7, PipelineStepType DEF Pipe, IInv, TypeOK, PipelineOK
  <2>2. cur' = cur
    BY <1>7, PipelineStepType DEF Pipe, IInv, TypeOK, PipelineOK
  <2>3. UNCHANGED <<id, processed, misses, empty, published>>
    BY <1>7 DEF Pipe, walk, site
  <2>4. pc \in WithMessage /\ pc' \in WithMessage /\ pc' # "advance"
    BY <2>1 DEF WithMessage, PipelinePCs
  <2> QED
    BY <1>3, <2>1, <2>2, <2>3, <2>4 DEF MessageInv
<1>8. CASE EndTick \/ Kill \/ \E o \in D1Outcomes : SeedCursor(o) \/ JumpCursor(o)
  <2> pc' = "idle" /\ cur' = NoMsg
    BY <1>8 DEF EndTick, Kill, SeedCursor, JumpCursor, ToIdle
  <2> QED
    BY DEF MessageInv, WithMessage, PipelinePCs
<1>9. CASE ReadCursor \/ CheckStateRow \/ ReadListingToSeed \/ FindStuck \/ ReadListing
  <2>1. /\ pc \in {"idle", "state_row", "seed_listing", "probe", "stuck"}
        /\ pc' \in {"state_row", "seed_listing", "seed", "probe", "stuck", "jump"} /\ cur' = cur
    BY <1>9 DEF ReadCursor, CheckStateRow, ReadListingToSeed, FindStuck, ReadListing
  <2>2. pc \notin WithMessage /\ pc' \notin WithMessage /\ pc' # "advance" /\ pc' \notin PipelinePCs
    BY <2>1 DEF WithMessage, PipelinePCs
  <2> QED
    BY <1>3, <2>1, <2>2 DEF MessageInv
<1>10. CASE FetchPage
  <2>1. /\ pc = "probe" /\ pc' = "claim" /\ cur' = id /\ empty' = (id \notin published)
        /\ processed < MAX_MESSAGES_PER_TICK /\ misses < MAX_CONSECUTIVE_MISSES
        /\ UNCHANGED <<id, processed, misses, published>>
    BY <1>10 DEF FetchPage, site
  <2>2. id # NoMsg
    BY <1>1, <1>3, <2>1 DEF PositionInv, Walking, NoMsg
  <2>3. pc' \in WithMessage /\ pc' \notin PipelinePCs
    BY <2>1 DEF WithMessage, PipelinePCs
  <2>4. ~empty' => cur' \in published'
    BY <2>1
  <2> QED
    BY <2>1, <2>2, <2>3, <2>4 DEF MessageInv
<1>11. CASE Hit
  <2>1. /\ pc = "page" /\ pc' = "parse" /\ misses' = 0 /\ ~empty
        /\ UNCHANGED <<cur, id, processed, published>>
    BY <1>11 DEF Hit, site
  <2>2. pc \in WithMessage /\ pc' \in WithMessage
    BY <2>1 DEF WithMessage, PipelinePCs
  <2>3. misses' < MAX_CONSECUTIVE_MISSES
    BY <1>1, <2>1
  <2> QED
    BY <1>3, <2>1, <2>2, <2>3 DEF MessageInv
<1>12. ASSUME NEW o \in D1Outcomes, ClaimAttempt(o) \/ GiveUp(o) \/ ReleaseAttempts(o)
       PROVE  MessageInv'
  <2>1. /\ UNCHANGED <<cur, id, processed, misses, empty, published>>
        /\ \/ pc = "claim" /\ pc' \in {"skip", "page"}
           \/ pc = "skip" /\ pc' = "advance" /\ gaveUp' = gaveUp \cup {cur}
           \/ pc = "submitted" /\ pc' = "advance"
    BY <1>12 DEF ClaimAttempt, GiveUp, ReleaseAttempts, walk, site
  <2>2. pc \in WithMessage /\ pc' \in WithMessage /\ pc' \notin PipelinePCs
    BY <2>1 DEF WithMessage, PipelinePCs
  <2>3. pc' = "advance" => Settled(cur)'
    <3>1. cur \in Ids
      BY <1>3, <1>5, <2>2 DEF MessageInv
    <3>2. CASE pc = "skip" /\ pc' = "advance" /\ gaveUp' = gaveUp \cup {cur}
      BY <2>1, <3>2 DEF Settled
    <3>3. CASE pc = "submitted"
      BY <1>2, <1>3, <2>1, <3>1, <3>3 DEF PipelineInv, Settled
    <3>4. CASE pc = "claim" /\ pc' \in {"skip", "page"}
      BY <3>4
    <3> QED
      BY <2>1, <3>2, <3>3, <3>4
  <2> QED
    BY <1>3, <2>1, <2>2, <2>3 DEF MessageInv
<1>13. CASE \E o \in D1Outcomes : Miss(o) \/ AdvanceCursor(o)
  <2> pc' = "probe" /\ cur' = NoMsg
    BY <1>13 DEF Miss, AdvanceCursor
  <2> QED
    BY DEF MessageInv, WithMessage, PipelinePCs
<1> QED
  BY <1>6, <1>7, <1>8, <1>9, <1>10, <1>11, <1>12, <1>13 DEF Next, CrawlStep

(* A claim that is neither released nor being worked on is a kill or a     *)
(* failed statement each.                                                  *)
LEMMA NextClaim ==
  ASSUME PipelineConstants, CrawlStateConstants, IdProbeConstants, IInv, Next
  PROVE  ClaimInv'
<1>1. /\ MaxId \in Nat /\ Ids = 1..MaxId /\ cursor \in Nat /\ latest \in Nat
      /\ faults \in Nat /\ AttemptCeiling \in Nat /\ MAX_PRE_STORE_ATTEMPTS \in Nat
      /\ (cur # NoMsg => cur \in Ids)
      /\ \A m \in published : m <= latest
  BY Domains DEF IInv
<1>2. /\ latest' \in Nat /\ latest' >= latest /\ cursor' \in Nat /\ cursor' >= cursor
      /\ faults' \in Nat /\ faults' >= faults
  <2>1. latest' \in latest..MaxPublished /\ faults' \in faults..MaxFaults
        /\ cursor' \in cursor..MaxId
    BY SiteStep, StepProgress
  <2>2. MaxPublished \in Nat /\ MaxFaults \in Nat
    BY Domains DEF IInv
  <2> QED
    BY <1>1, <2>1, <2>2
<1>3. PositionInv /\ MessageInv /\ ClaimInv
  BY DEF IInv
<1>4. attempts \in [Ids -> 0..AttemptCeiling]
  BY DEF IInv, TypeOK, StateTypeOK
<1>5. \A m \in Ids : attempts[m] \in Nat /\ Standing(m) \in {0, 1}
  BY <1>1, <1>4 DEF Standing
<1>6. \A m \in Ids : m > latest' /\ m > cursor' =>
        m > latest /\ m > cursor /\ attempts[m] <= faults + Standing(m)
  BY <1>1, <1>2, <1>3 DEF ClaimInv
<1>7. pc \in {"claim", "page", "skip", "advance", "submitted"} => cur \in Ids /\ cursor < cur
  <2> pc \in {"claim", "page", "skip", "advance", "submitted"} => pc \in WithMessage /\ pc \in Walking
    BY DEF WithMessage, Walking, PipelinePCs
  <2> QED
    BY <1>1, <1>3 DEF MessageInv, PositionInv
<1>8. pc = "submitted" \/ (pc = "page" /\ ~empty) => cur <= latest
  BY <1>1, <1>3 DEF MessageInv, PipelinePCs
(* Steps that leave the counters and the standing claims alone.            *)
<1>9. ASSUME attempts' = attempts,
             \A m \in Ids : m > latest' /\ m > cursor' => Standing(m) = 0 \/ Standing(m)' = 1
                                                   \/ faults' = faults + 1
      PROVE  \A m \in Ids : m > latest' /\ m > cursor' => attempts'[m] <= faults' + Standing(m)'
  <2> \A m \in Ids : Standing(m)' \in {0, 1}
    BY DEF Standing
  <2> QED
    BY <1>1, <1>2, <1>5, <1>6, <1>9
<1>10. CASE Publish \/ AgeOff \/ GrowStale
  <2>1. UNCHANGED <<pc, cur, attempts, faults>>
    BY <1>10 DEF Publish, AgeOff, GrowStale, pipelineVars, attemptRows
  <2>2. \A m \in Ids : Standing(m)' = Standing(m)
    BY <2>1 DEF Standing
  <2>3. \A m \in Ids : m > latest' /\ m > cursor' => attempts'[m] <= faults' + Standing(m)'
    BY <1>5, <1>9, <2>1, <2>2
  <2>4. pc \in {"skip", "advance"} /\ cur > latest' => faults >= MAX_PRE_STORE_ATTEMPTS
    BY <1>1, <1>2, <1>3, <1>7 DEF ClaimInv
  <2> QED
    BY <2>1, <2>3, <2>4 DEF ClaimInv
<1>11. CASE Pipe \/ ReadCursor \/ CheckStateRow \/ ReadListingToSeed \/ FetchPage
            \/ FindStuck \/ ReadListing \/ EndTick
            \/ \E o \in D1Outcomes : SeedCursor(o) \/ JumpCursor(o)
  <2>1. /\ pc \notin {"page", "skip", "advance"} /\ pc' \notin {"skip", "advance"}
        /\ attempts' = attempts
    <3>1. CASE Pipe
      <4> pc \in PipelinePCs /\ pc' \in PipelinePCs
        BY <3>1, PipelineStepType DEF Pipe, IInv, TypeOK, PipelineOK
      <4> QED
        BY <3>1 DEF Pipe, attemptRows, PipelinePCs
    <3>2. CASE ~Pipe
      BY <1>11, <3>2 DEF ReadCursor, CheckStateRow, ReadListingToSeed, FetchPage, FindStuck,
         ReadListing, EndTick, SeedCursor, JumpCursor, ToIdle, attemptRows
    <3> QED
      BY <3>1, <3>2
  <2>2. \A m \in Ids : Standing(m) = 0
    BY <2>1 DEF Standing
  <2> QED
    BY <1>9, <2>1, <2>2 DEF ClaimInv
<1>12. CASE Kill
  <2>1. attempts' = attempts /\ faults' = faults + 1 /\ pc' = "idle"
    BY <1>12 DEF Kill, ToIdle, Fault, attemptRows
  <2> QED
    BY <1>9, <2>1 DEF ClaimInv
<1>13. CASE Hit
  <2>1. attempts' = attempts /\ pc = "page" /\ pc' = "parse" /\ cur <= latest
    BY <1>8, <1>13 DEF Hit, attemptRows
  <2>2. \A m \in Ids : m > latest' => Standing(m) = 0
    BY <1>1, <1>2, <1>7, <2>1 DEF Standing
  <2> QED
    BY <1>9, <2>1, <2>2 DEF ClaimInv
<1>14. ASSUME NEW o \in D1Outcomes, GiveUp(o)
       PROVE  ClaimInv'
  <2>1. attempts' = attempts /\ pc = "skip" /\ pc' = "advance" /\ cur' = cur /\ latest' = latest
    BY <1>14 DEF GiveUp, site
  <2>2. \A m \in Ids : Standing(m)' = Standing(m)
    BY <2>1 DEF Standing
  <2>3. \A m \in Ids : m > latest' /\ m > cursor' => attempts'[m] <= faults' + Standing(m)'
    BY <1>5, <1>9, <2>1, <2>2
  <2>4. cur > latest => faults' >= MAX_PRE_STORE_ATTEMPTS
    <3> cur > latest => faults >= MAX_PRE_STORE_ATTEMPTS
      BY <1>3, <2>1 DEF ClaimInv
    <3> QED
      BY <1>1, <1>2
  <2> QED
    BY <2>1, <2>3, <2>4 DEF ClaimInv
<1>15. ASSUME NEW o \in D1Outcomes, ClaimAttempt(o)
       PROVE  ClaimInv'
  <2>1. /\ pc = "claim" /\ pc' \in {"skip", "page"} /\ (pc' = "skip" => Refused(o))
        /\ UNCHANGED <<cur, cursor, latest>> /\ BumpAttempts(o)
        /\ faults' = faults \/ faults' = faults + 1
        /\ o.ok => faults' = faults
    BY <1>15 DEF ClaimAttempt, site, crawlState, D1, Fault, NoFault
  <2>2. cur \in Ids /\ cursor < cur
    BY <1>7, <2>1
  <2>3. /\ \A m \in Ids : m = cur => Standing(m) = 0 /\ Standing(m)' = 1
        /\ \A m \in Ids : m # cur => Standing(m) = 0 /\ Standing(m)' = 0
    BY <2>1 DEF Standing
  <2>4. /\ \A m \in Ids : m # cur => attempts'[m] = attempts[m]
        /\ attempts'[cur] \in Nat /\ attempts'[cur] <= attempts[cur] + 1
    BY <1>1, <1>4, <1>5, <2>1, <2>2 DEF BumpAttempts, Bump
  <2>5. cur > latest => attempts'[cur] <= faults + 1
    BY <1>1, <1>3, <1>5, <2>2, <2>3, <2>4 DEF ClaimInv
  <2>6. ASSUME NEW m \in Ids, m > latest', m > cursor'
        PROVE  attempts'[m] <= faults' + Standing(m)'
    <3>1. CASE m = cur
      <4> attempts'[cur] <= faults + 1
        BY <2>1, <2>5, <2>6, <3>1
      <4> QED
        BY <1>1, <1>2, <2>3, <2>4, <3>1
    <3>2. CASE m # cur
      <4> attempts[m] <= faults
        BY <1>1, <1>5, <1>6, <2>3, <2>6, <3>2
      <4> QED
        BY <1>1, <1>2, <1>5, <2>3, <2>4, <3>2
    <3> QED
      BY <3>1, <3>2
  <2>7. ASSUME pc' = "skip", cur' > latest'
        PROVE  faults' >= MAX_PRE_STORE_ATTEMPTS
    <3>1. attempts'[cur] > MAX_PRE_STORE_ATTEMPTS
      BY <2>1, <2>7 DEF Refused
    <3>2. attempts'[cur] <= faults + 1
      BY <2>1, <2>5, <2>7
    <3> QED
      BY <1>1, <1>2, <2>4, <3>1, <3>2
  <2>8. pc' # "advance"
    BY <2>1
  <2> QED
    BY <2>6, <2>7, <2>8 DEF ClaimInv
<1>16. ASSUME NEW o \in D1Outcomes, Miss(o) \/ ReleaseAttempts(o)
       PROVE  ClaimInv'
  <2>1. /\ \/ pc = "page" /\ pc' = "probe"
           \/ pc = "submitted" /\ pc' = "advance" /\ cur' = cur
        /\ latest' = latest /\ ClearAttempts(o) /\ (~o.ok => faults' = faults + 1)
    BY <1>16 DEF Miss, ReleaseAttempts, site, D1, Fault
  <2>2. o.ok => o.committed
    BY D1OutcomeFacts
  <2>3. cur \in Ids
    BY <1>7, <2>1
  <2>4. \A m \in Ids : m # cur => Standing(m) = 0
    BY DEF Standing
  <2>5. \A m \in Ids : Standing(m)' \in {0, 1}
    BY DEF Standing
  <2>6. ASSUME NEW m \in Ids, m > latest', m > cursor'
        PROVE  attempts'[m] <= faults' + Standing(m)'
    <3>1. CASE o.committed /\ m = cur
      <4> attempts'[m] = 0
        BY <1>4, <2>1, <2>3, <3>1 DEF ClearAttempts
      <4> QED
        BY <1>2, <2>5
    <3>2. CASE ~o.committed
      <4> attempts' = attempts /\ faults' = faults + 1
        BY <2>1, <2>2, <3>2 DEF ClearAttempts, attemptRows
      <4> QED
        BY <1>9, <2>6
    <3>3. CASE o.committed /\ m # cur
      <4> attempts'[m] = attempts[m]
        BY <1>4, <2>1, <2>3, <3>3 DEF ClearAttempts
      <4> attempts[m] <= faults + 0
        BY <1>6, <2>4, <2>6, <3>3
      <4> QED
        BY <1>1, <1>2, <1>5, <2>5
    <3> QED
      BY <3>1, <3>2, <3>3
  <2>7. ~(pc' \in {"skip", "advance"} /\ cur' > latest')
    <3>1. CASE pc' = "probe"
      BY <3>1
    <3>2. CASE pc = "submitted" /\ cur' = cur
      <4> cur <= latest
        BY <1>8, <3>2
      <4> QED
        BY <1>1, <2>1, <2>3, <3>2
    <3> QED
      BY <2>1, <3>1, <3>2
  <2> QED
    BY <2>6, <2>7 DEF ClaimInv
<1>17. ASSUME NEW o \in D1Outcomes, AdvanceCursor(o)
       PROVE  ClaimInv'
  <2>1. /\ pc = "advance" /\ pc' = "probe" /\ attempts' = attempts
        /\ cursor' = cur \/ faults' = faults + 1
    BY <1>17, D1OutcomeFacts DEF AdvanceCursor, Write, WriteLastId, attemptRows, D1, Fault
  <2>2. \A m \in Ids : m > cur => Standing(m) = 0
    BY <1>1, <1>7, <2>1 DEF Standing
  <2> QED
    BY <1>9, <2>1, <2>2 DEF ClaimInv
<1> QED
  BY <1>10, <1>11, <1>12, <1>13, <1>14, <1>15, <1>16, <1>17 DEF Next, CrawlStep

(* The cursor moves onto a message finished with, over what the walk read  *)
(* as empty, or below everything the listing shows.                        *)
LEMMA NextCursorPasses ==
  ASSUME PipelineConstants, CrawlStateConstants, IdProbeConstants, IInv, Next
  PROVE  CursorPassesOnlyRead' /\ UnpublishedNotPassed' /\ HistoryInv'
<1>1. /\ MaxId \in Nat /\ Ids = 1..MaxId /\ cursor \in Nat /\ latest \in Nat
      /\ from \in Nat /\ id \in Nat /\ faults \in Nat /\ cur \in Nat /\ seeded \in Nat
      /\ MAX_PRE_STORE_ATTEMPTS \in Nat
      /\ visible \subseteq published /\ \A m \in published : m \in Ids /\ m <= latest
  <2> TypeOK
    BY DEF IInv
  <2>1. /\ MaxId \in Nat \ {0} /\ Ids = 1..MaxId /\ cursor \in 0..MaxId /\ latest \in 0..MaxId
        /\ from \in 0..MaxId /\ id \in 0..(MaxId + 1) /\ cur \in 0..MaxId /\ seeded \in 0..MaxId
        /\ faults \in 0..MaxFaults /\ MaxFaults \in Nat /\ MAX_PRE_STORE_ATTEMPTS \in Nat \ {0}
    BY Domains
  <2>2. visible \subseteq published /\ \A m \in published : m \in Ids /\ m <= latest
    BY Domains
  <2> QED
    BY <2>1, <2>2
<1>2. /\ latest' \in Nat /\ latest' >= latest /\ faults' \in Nat /\ faults' >= faults
      /\ \A m \in visible' : m \in visible \/ m > latest
  <2>1. latest' \in latest..MaxPublished /\ faults' \in faults..MaxFaults
    BY SiteStep
  <2>2. MaxPublished \in Nat /\ MaxFaults \in Nat
    BY Domains DEF IInv
  <2> QED
    BY <1>1, <2>1, <2>2, SiteStep
<1>3. /\ \A m \in Ids : Finished(m) => Finished(m)'
      /\ overEmpty \subseteq overEmpty' /\ jumped \subseteq jumped'
  BY StepProgress
<1>4. PositionInv /\ MessageInv /\ ClaimInv /\ HistoryInv /\ CursorPassesOnlyRead
      /\ UnpublishedNotPassed
  BY DEF IInv
<1>5. jumped \subseteq 1..latest /\ seeded <= cursor
  BY <1>4 DEF HistoryInv
<1>6. ASSUME NEW m \in Ids, m <= cursor
      PROVE  Finished(m)' \/ m \in overEmpty' \/ (m \in jumped' /\ m \notin visible')
  <2>1. CASE Finished(m) \/ m \in overEmpty
    BY <1>3, <2>1
  <2>2. CASE m \in jumped /\ m \notin visible
    <3> m <= latest
      BY <1>1, <1>5, <2>2
    <3> m \notin visible'
      BY <1>1, <1>2, <2>2
    <3> QED
      BY <1>3, <2>2
  <2> QED
    BY <1>4, <1>6, <2>1, <2>2 DEF CursorPassesOnlyRead
<1>7. CASE UNCHANGED <<cursor, seeded, overEmpty, jumped>>
  <2>1. CursorPassesOnlyRead'
    BY <1>6, <1>7 DEF CursorPassesOnlyRead
  <2>2. UnpublishedNotPassed'
    BY <1>1, <1>2, <1>4, <1>7 DEF UnpublishedNotPassed
  <2>3. HistoryInv'
    BY <1>1, <1>2, <1>5, <1>7 DEF HistoryInv
  <2> QED
    BY <2>1, <2>2, <2>3
<1>8. CASE /\ pc = "seed" /\ cursor' = id /\ seeded' = id
           /\ UNCHANGED <<site, overEmpty, jumped>>
  <2>1. id \in 1..latest /\ latest' = latest
    BY <1>4, <1>8 DEF PositionInv, site
  <2>2. CursorPassesOnlyRead'
    BY <1>8 DEF CursorPassesOnlyRead, Finished
  <2>3. UnpublishedNotPassed'
    BY <1>1, <1>8, <2>1 DEF UnpublishedNotPassed
  <2>4. HistoryInv'
    BY <1>1, <1>5, <1>8, <2>1 DEF HistoryInv
  <2> QED
    BY <2>2, <2>3, <2>4
<1>9. CASE /\ pc = "advance" /\ cursor' = cur
           /\ overEmpty' = overEmpty \cup {m \in missed : m < cur}
           /\ UNCHANGED <<site, seeded, jumped>>
  <2>1. /\ cur = id /\ Settled(cur) /\ cursor < id /\ latest' = latest
        /\ \A m \in Ids : cursor < m /\ m < id => m \in missed \/ Settled(m)
    BY <1>4, <1>9 DEF PositionInv, MessageInv, Walking, WithMessage, site
  <2>2. ASSUME NEW m \in Ids, m <= cursor'
        PROVE  Finished(m)' \/ m \in overEmpty' \/ (m \in jumped' /\ m \notin visible')
    <3>1. CASE m <= cursor
      BY <1>6, <3>1
    <3>2. CASE m = cur
      BY <1>3, <2>1, <3>2 DEF Finished
    <3>3. CASE cursor < m /\ m < cur
      <4>1. CASE m \in missed
        BY <1>9, <3>3, <4>1
      <4>2. CASE Settled(m)
        BY <1>3, <4>2 DEF Finished
      <4> QED
        BY <2>1, <3>3, <4>1, <4>2
    <3> QED
      BY <1>1, <1>9, <2>2, <3>1, <3>2, <3>3
  <2>3. UnpublishedNotPassed'
    <3> cur > latest => faults >= MAX_PRE_STORE_ATTEMPTS
      BY <1>4, <1>9 DEF ClaimInv
    <3> QED
      BY <1>1, <1>2, <1>9, <2>1 DEF UnpublishedNotPassed
  <2>4. HistoryInv'
    BY <1>1, <1>5, <1>9, <2>1 DEF HistoryInv
  <2> QED
    BY <2>2, <2>3, <2>4 DEF CursorPassesOnlyRead
<1>10. CASE /\ pc = "jump" /\ cursor' = id - 1
            /\ jumped' = jumped \cup (from + 1)..(id - 1)
            /\ UNCHANGED <<site, seeded, overEmpty>>
  <2>1. /\ cursor = from /\ from < id /\ id <= latest /\ latest' = latest /\ visible' = visible
        /\ \A m \in visible : m <= from \/ id <= m
    BY <1>4, <1>10 DEF PositionInv, site
  <2>2. ASSUME NEW m \in Ids, m <= cursor'
        PROVE  Finished(m)' \/ m \in overEmpty' \/ (m \in jumped' /\ m \notin visible')
    <3>1. CASE m <= cursor
      BY <1>6, <3>1
    <3>2. CASE m > cursor
      <4>1. m \in (from + 1)..(id - 1)
        BY <1>1, <1>10, <2>1, <2>2, <3>2
      <4>2. m \notin visible'
        BY <1>1, <2>1, <4>1
      <4> QED
        BY <1>10, <4>1, <4>2
    <3> QED
      BY <1>1, <3>1, <3>2
  <2>3. UnpublishedNotPassed'
    BY <1>1, <1>10, <2>1 DEF UnpublishedNotPassed
  <2>4. HistoryInv'
    <3> jumped' \subseteq 1..latest
      BY <1>1, <1>5, <1>10, <2>1
    <3> seeded <= id - 1
      BY <1>1, <1>5, <2>1
    <3> QED
      BY <1>10, <2>1 DEF HistoryInv
  <2> QED
    BY <2>2, <2>3, <2>4 DEF CursorPassesOnlyRead
<1> QED
  BY <1>7, <1>8, <1>9, <1>10, CursorStep

LEMMA NextIInv ==
  ASSUME PipelineConstants, CrawlStateConstants, IdProbeConstants, IInv, [Next]_vars
  PROVE  IInv'
<1>1. CASE Next
  BY <1>1, NextPipelineOK, NextType, NextPosition, NextMessage, NextClaim, NextCursorPasses
     DEF IInv
<1>2. CASE UNCHANGED vars
  <2> USE <1>2 DEF vars, pipelineVars, crawlState, attemptRows, site, walk, ghosts
  <2>1. TypeOK'
    BY DEF IInv, TypeOK, PipelineTypeOK, StateTypeOK
  <2>2. PipelineInv'
    BY DEF IInv, PipelineInv, StampedMeansDelivered, Delivered, DeliveredDuplicate, Abandoned
  <2>3. \A m \in Ids : Settled(m)' = Settled(m) /\ Finished(m)' = Finished(m)
    BY DEF Settled, Finished, Abandoned
  <2>4. PositionInv' /\ MessageInv'
    BY DEF IInv, PositionInv, MessageInv, Settled, Abandoned
  <2>5. ClaimInv' /\ HistoryInv' /\ UnpublishedNotPassed'
    BY DEF IInv, ClaimInv, HistoryInv, Standing, UnpublishedNotPassed
  <2>6. CursorPassesOnlyRead'
    BY <2>3 DEF IInv, CursorPassesOnlyRead
  <2> QED
    BY <2>1, <2>2, <2>4, <2>5, <2>6 DEF IInv
<1> QED
  BY <1>1, <1>2

THEOREM Invariance == Spec => []IInv
<1>1. Init => IInv
  BY InitIInv, PipelineConstants, CrawlStateConstants, IdProbeConstants
<1>2. IInv /\ [Next]_vars => IInv'
  BY NextIInv, PipelineConstants, CrawlStateConstants, IdProbeConstants
<1> QED
  BY <1>1, <1>2, PTL DEF Spec

(* ------------------------------ the theorems ---------------------------- *)

(* Every table, and every variable of the walk, keeps its type.            *)
THEOREM TypeCorrect == Spec => []TypeOK
<1>1. IInv => TypeOK
  BY DEF IInv
<1> QED
  BY <1>1, Invariance, PTL

(* The cursor passes no id unseen (crawlIdProbe, stepOverDeadIds).         *)
THEOREM CursorSound == Spec => []CursorPassesOnlyRead
<1>1. IInv => CursorPassesOnlyRead
  BY DEF IInv
<1> QED
  BY <1>1, Invariance, PTL

(* Probing ids ahead of the site costs them nothing, short of as many      *)
(* faults as the cap counts (the release of an empty id's claim).          *)
THEOREM UnpublishedSafe == Spec => []UnpublishedNotPassed
<1>1. IInv => UnpublishedNotPassed
  BY DEF IInv
<1> QED
  BY <1>1, Invariance, PTL

(* What a step may push: the message in hand, past the cursor, with every  *)
(* older published one missed by this walk or finished with.               *)
LEMMA PushFacts ==
  ASSUME PipelineConstants, CrawlStateConstants, IdProbeConstants, IInv, Next,
         NEW m \in Ids, pushed'[m] # pushed[m]
  PROVE  /\ cursor < m
         /\ \A k \in published : k < m => k <= cursor \/ Finished(k) \/ k \in missed
<1>1. CASE Pipe
  <2>1. m = cur /\ pc = "send"
    BY <1>1, PipelineStepProgress DEF Pipe, PipelineOK, IInv, TypeOK
  <2>2. /\ cur = id /\ cursor < id
        /\ \A k \in Ids : cursor < k /\ k < id => k \in missed \/ Settled(k)
    BY <2>1 DEF IInv, PositionInv, MessageInv, Walking, WithMessage, PipelinePCs
  <2>3. /\ \A k \in published : k \in Ids
        /\ Ids = 1..MaxId /\ MaxId \in Nat /\ cursor \in Nat
    BY Domains DEF IInv
  <2>4. ASSUME NEW k \in published, k < m
        PROVE  k <= cursor \/ Finished(k) \/ k \in missed
    BY <2>1, <2>2, <2>3, <2>4 DEF Finished
  <2> QED
    BY <2>1, <2>2, <2>4
<1>2. CASE Publish \/ AgeOff \/ GrowStale \/ CrawlStep \/ Kill
  BY <1>2, CrawlStepKeepsPipeline DEF provider
<1> QED
  BY <1>1, <1>2 DEF Next

(* Oldest first (the walk, and the stop at a rejected message).            *)
THEOREM PushOrder == Spec => OldestFirst
<1> DEFINE A == \A m \in Ids : pushed'[m] # pushed[m] =>
                 \A k \in published : k < m => k <= cursor \/ Finished(k) \/ k \in missed
<1>1. IInv /\ [Next]_vars => [A]_vars
  BY PushFacts, PipelineConstants, CrawlStateConstants, IdProbeConstants
<1> HIDE DEF A
<1>2. Spec => [][A]_vars
  BY <1>1, Invariance, PTL DEF Spec
<1> QED
  BY <1>2 DEF A, OldestFirst

(* A message the cursor has passed is never pushed by a later tick.        *)
THEOREM PassedStaysPassed == Spec => PassedNeverPushed
<1> DEFINE A == \A m \in Ids : m <= cursor => pushed'[m] = pushed[m]
<1>0. ASSUME IInv, Next
      PROVE  A
  <2> cursor \in Nat /\ \A m \in Ids : m \in Nat
    BY <1>0, Domains, SMTT(30), PipelineConstants, CrawlStateConstants, IdProbeConstants DEF IInv
  <2> QED
    BY <1>0, PushFacts, PipelineConstants, CrawlStateConstants, IdProbeConstants
<1>1. IInv /\ [Next]_vars => [A]_vars
  BY <1>0
<1> HIDE DEF A
<1>2. Spec => [][A]_vars
  BY <1>1, Invariance, PTL DEF Spec
<1> QED
  BY <1>2 DEF A, PassedNeverPushed

(* What the walk leaves between its steps, for every site, cap and number  *)
(* of faults (crawlIdProbe, stepOverDeadIds).                              *)
THEOREM WalkIsSafe == Spec => []CursorSafe
<1>1. IInv => CursorSafe
  BY DEF IInv, CursorSafe
<1> QED
  BY <1>1, Invariance, PTL

(* Pushes go out oldest first as far as the walk has read, and from beyond *)
(* the cursor (crawlIdProbe).                                              *)
THEOREM OrderKept == Spec => PushesInOrder
  BY PushOrder, PassedStaysPassed DEF PushesInOrder
=============================================================================
