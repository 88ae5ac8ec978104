---------------------------- MODULE WorkerProofs -----------------------------
(* The Worker, for any number of sources, ticks, callers, locations, names *)
(* and faults: its cron (by the invariant TickInv of module IngestTick),   *)
(* its looking up of places (by IInv of module Geocoding) and its outbound *)
(* calls (by CallInv of module Attempts).                                  *)
EXTENDS IngestTick, Geocoding, Attempts, FiniteSetTheorems, SequenceTheorems, TLAPS

(***************************************************************************)
(* The cron.                                                               *)
(***************************************************************************)
(* ------------------------------ remainders ------------------------------*)

LEMMA DivMod ==
  ASSUME NEW x \in Int, NEW p \in Nat \ {0}
  PROVE  x = p * (x \div p) + (x % p) /\ x % p \in 0..(p - 1) /\ x \div p \in Int
BY SMT

LEMMA NoSmallMultiple ==
  ASSUME NEW p \in Nat \ {0}, NEW z \in Int, NEW r \in 0..(p - 1), p * z = r
  PROVE  r = 0
<1>1. CASE z >= 1
  <2>1. p * z >= p
    BY <1>1
  <2> QED
    BY <2>1
<1>2. CASE z <= -1
  <2>1. p * z <= -p
    BY <1>2
  <2> QED
    BY <2>1
<1>3. CASE z = 0
  BY <1>3
<1> QED
  BY <1>1, <1>2, <1>3

LEMMA MultipleMod ==
  ASSUME NEW p \in Nat \ {0}, NEW k \in Int
  PROVE  (p * k) % p = 0
<1> DEFINE x == p * k
           z == k - (x \div p)
<1>1. x \in Int
  OBVIOUS
<1>2. x = p * (x \div p) + (x % p) /\ x % p \in 0..(p - 1) /\ x \div p \in Int
  BY <1>1, DivMod
<1>3. z \in Int /\ p * z = x % p
  BY <1>2
<1> QED
  BY <1>2, <1>3, NoSmallMultiple

LEMMA ModMultiple ==
  ASSUME NEW p \in Nat \ {0}, NEW x \in Int, x % p = 0
  PROVE  \E k \in Int : x = p * k
<1>1. x = p * (x \div p) + (x % p) /\ x \div p \in Int
  BY DivMod
<1>2. x = p * (x \div p)
  BY <1>1
<1> QED
  BY <1>1, <1>2

(* One of any p numbers in a row is a multiple of p.                       *)
LEMMA SomeMultiple ==
  ASSUME NEW p \in Nat \ {0}, NEW x \in Int
  PROVE  \E d \in 0..(p - 1) : (x + d) % p = 0
<1>1. x = p * (x \div p) + (x % p) /\ x % p \in 0..(p - 1) /\ x \div p \in Int
  BY DivMod
<1>2. CASE x % p = 0
  BY <1>1, <1>2
<1>3. CASE x % p # 0
  <2>1. PICK d \in 0..(p - 1) : d = p - (x % p)
    BY <1>1, <1>3
  <2>2. x + d = p * ((x \div p) + 1) /\ (x \div p) + 1 \in Int
    BY <1>1, <2>1
  <2>3. (x + d) % p = 0
    BY <2>2, MultipleMod
  <2> QED
    BY <2>1, <2>3
<1> QED
  BY <1>2, <1>3

(* ------------------------------ the schedule ----------------------------*)

LEMMA ScheduleFacts ==
  ASSUME IngestTickConstants
  PROVE  /\ N \in Nat \ {0} /\ DEADLINE \in Nat \ {0} /\ Jobs \in Nat
         /\ MaxTick \in Nat /\ MaxTick >= N /\ MaxFaults \in Nat
         /\ \A s \in Sources : QuietTicks[s] \in Nat
         /\ \A s \in Sources : Interval[s] \in Nat \ {0} /\ Turn(s) \in Nat \ {0}
         /\ \A s \in Sources : Phase(s) \in 0..(N - 1) /\ SOURCES[Phase(s) + 1] = s
<1>1. /\ N \in Nat \ {0} /\ DEADLINE \in Nat \ {0} /\ Jobs \in Nat
      /\ MaxTick \in Nat /\ MaxTick >= N /\ MaxFaults \in Nat
      /\ \A s \in Sources : QuietTicks[s] \in Nat
  BY DEF IngestTickConstants, N
<1>2. ASSUME NEW s \in Sources
      PROVE  Interval[s] \in Nat \ {0} /\ Turn(s) \in Nat \ {0}
  <2>1. Minutes[s] \in Nat \ {0} /\ TICK_MINUTES = 15
    BY DEF IngestTickConstants, TICK_MINUTES
  <2>2. (Minutes[s] + 15 - 1) \div 15 \in Nat \ {0}
    BY <2>1
  <2> QED
    BY <1>1, <2>1, <2>2 DEF Interval, Turn
<1>3. ASSUME NEW s \in Sources
      PROVE  Phase(s) \in 0..(N - 1) /\ SOURCES[Phase(s) + 1] = s
  <2>1. PICK j \in 1..N : SOURCES[j] = s
    BY DEF IngestTickConstants, N, Sources, ToSet
  <2>2. j - 1 \in 0..(N - 1) /\ SOURCES[(j - 1) + 1] = s
    BY <1>1, <2>1
  <2> QED
    BY <2>2 DEF Phase
<1> QED
  BY <1>1, <1>2, <1>3

(* A source that has its turn is due, and the first of the rotated list.   *)
LEMMA TurnComes ==
  ASSUME IngestTickConstants, IntervalsFitRounds, NEW s \in Sources, NEW t \in Nat, HasTurn(s, t)
  PROVE  IsDue(s, t) /\ Place(s, t) = 0
<1> DEFINE x == t - Phase(s)
<1>1. /\ N \in Nat \ {0} /\ Interval[s] \in Nat \ {0} /\ Turn(s) \in Nat \ {0}
      /\ Phase(s) \in 0..(N - 1) /\ x \in Int
  BY ScheduleFacts
<1>2. PICK k \in Int : x = Turn(s) * k
  BY <1>1, ModMultiple DEF HasTurn
<1>3. IsDue(s, t)
  <2>1. CASE Interval[s] = 1
    BY <1>1, <2>1 DEF IsDue
  <2>2. CASE Interval[s] # 1 /\ Interval[s] > N
    BY <2>2 DEF IsDue, HasTurn, Turn
  <2>3. CASE Interval[s] # 1 /\ ~(Interval[s] > N)
    <3>1. Interval[s] \in Int /\ Interval[s] % N = 0
      BY <1>1, <2>3 DEF IntervalsFitRounds
    <3>2. PICK m \in Int : Interval[s] = N * m
      BY <1>1, <3>1, ModMultiple
    <3>3. m >= 1
      BY <1>1, <3>2
    <3>4. N * m >= N
      BY <1>1, <3>3
    <3>5. Interval[s] = N
      BY <1>1, <2>3, <3>2, <3>4
    <3> QED
      BY <2>3, <3>5 DEF IsDue, HasTurn, Turn
  <2> QED
    BY <2>1, <2>2, <2>3
<1>4. \E m \in Int : x = N * m
  <2>1. CASE Turn(s) = N
    BY <1>2, <2>1
  <2>2. CASE Turn(s) # N
    <3>1. Turn(s) = Interval[s] /\ Interval[s] # 1
      BY <1>1, <2>2 DEF Turn
    <3>2. Interval[s] \in Int /\ Interval[s] % N = 0
      BY <1>1, <3>1 DEF IntervalsFitRounds
    <3>3. PICK m \in Int : Interval[s] = N * m
      BY <1>1, <3>2, ModMultiple
    <3>4. x = N * (m * k) /\ m * k \in Int
      BY <1>1, <1>2, <3>1, <3>3
    <3> QED
      BY <3>4
  <2> QED
    BY <2>1, <2>2
<1>5. Place(s, t) = 0
  <2>1. PICK m \in Int : x = N * m
    BY <1>4
  <2>2. Phase(s) - t = N * (-m) /\ -m \in Int
    BY <1>1, <2>1
  <2> QED
    BY <1>1, <2>2, MultipleMod DEF Place
<1> QED
  BY <1>3, <1>5

(* The rotated list has one first source, and no source before it.         *)
LEMMA OneFirst ==
  ASSUME IngestTickConstants, NEW t \in Nat, NEW r \in Sources, NEW s \in Sources,
         Place(s, t) = 0, Place(r, t) <= Place(s, t)
  PROVE  r = s
<1>1. /\ N \in Nat \ {0} /\ Phase(s) \in 0..(N - 1) /\ Phase(r) \in 0..(N - 1)
      /\ SOURCES[Phase(s) + 1] = s /\ SOURCES[Phase(r) + 1] = r
  BY ScheduleFacts
<1>2. Place(r, t) = 0
  <2>1. (Phase(r) - t) % N \in 0..(N - 1)
    <3>1. Phase(r) - t \in Int
      BY <1>1
    <3> QED
      BY <1>1, <3>1, DivMod
  <2> QED
    BY <2>1 DEF Place
<1>3. PICK k \in Int : Phase(s) - t = N * k
  <2>1. Phase(s) - t \in Int /\ (Phase(s) - t) % N = 0
    BY <1>1 DEF Place
  <2> QED
    BY <1>1, <2>1, ModMultiple
<1>4. PICK m \in Int : Phase(r) - t = N * m
  <2>1. Phase(r) - t \in Int /\ (Phase(r) - t) % N = 0
    BY <1>1, <1>2 DEF Place
  <2> QED
    BY <1>1, <2>1, ModMultiple
<1>5. N * (k - m) = Phase(s) - Phase(r) /\ N * (m - k) = Phase(r) - Phase(s)
  <2>1. \A a, b, c \in Int : a * (b - c) = a * b - a * c
    OBVIOUS
  <2>2. N * (k - m) = N * k - N * m /\ N * (m - k) = N * m - N * k
    BY <1>1, <2>1
  <2>3. (Phase(s) - t) - (Phase(r) - t) = Phase(s) - Phase(r)
        /\ (Phase(r) - t) - (Phase(s) - t) = Phase(r) - Phase(s)
    BY SMTT(20), <1>1
  <2> QED
    BY <1>3, <1>4, <2>2, <2>3
<1>6. Phase(s) = Phase(r)
  <2>1. CASE Phase(s) >= Phase(r)
    <3>1. PICK d \in 0..(N - 1), z \in Int : d = Phase(s) - Phase(r) /\ z = k - m
      BY <1>1, <2>1
    <3>2. d = 0
      BY <1>1, <1>5, <3>1, NoSmallMultiple
    <3> QED
      BY <1>1, <3>1, <3>2
  <2>2. CASE Phase(r) > Phase(s)
    <3>1. PICK d \in 0..(N - 1), z \in Int : d = Phase(r) - Phase(s) /\ z = m - k
      BY <1>1, <2>2
    <3>2. d = 0
      BY <1>1, <1>5, <3>1, NoSmallMultiple
    <3> QED
      BY <1>1, <3>1, <3>2
  <2> QED
    BY <1>1, <2>1, <2>2
<1> QED
  BY <1>1, <1>6

(* -------------------------- types of the state --------------------------*)

Ticks == 0..MaxTick
TickOrNone == Ticks \cup {None}
OfTick == [Sources -> TickOrNone]

Typed ==
  /\ tick \in Ticks /\ pc \in {"idle", "loop", "run", "record", "complete"}
  /\ due \subseteq Sources /\ spent \in 0..DEADLINE
  /\ IF pc \in {"run", "record"} THEN current \in Sources ELSE current = NoSource
  /\ running \subseteq Sources /\ observed \in Outcomes \cup {NothingObserved}
  /\ started \in TickOrNone /\ completed \in TickOrNone
  /\ firstRun \in OfTick /\ itemsAt \in OfTick /\ lastFound \in OfTick
  /\ job \in 0..Jobs
  /\ overdue \in [1..Jobs -> {"no", "failed", "killed", "not reached"}]
  /\ faults \in 0..MaxFaults
  /\ lastRun \in [Sources -> Ticks]
  /\ ended \in {"none", "under way", "done", "killed", "unrecorded"}

LEMMA TypedIsTypeOK == (TickTypeOK <=> Typed) /\ (TickTypeOK' <=> Typed')
BY DEF TickTypeOK, Typed, Ticks, TickOrNone, OfTick

LEMMA TypedFacts ==
  ASSUME IngestTickConstants, Typed
  PROVE  /\ MaxTick \in Nat /\ DEADLINE \in Nat \ {0} /\ Jobs \in Nat /\ MaxFaults \in Nat
         /\ tick \in Nat /\ tick \in TickOrNone
         /\ started \in Int /\ completed \in Int /\ None \in Int /\ None = -1
         /\ spent \in Nat /\ faults \in Nat /\ job \in Nat
<1>1. /\ MaxTick \in Nat /\ DEADLINE \in Nat \ {0} /\ Jobs \in Nat /\ MaxFaults \in Nat
  BY ScheduleFacts
<1>2. None = -1
  BY DEF None
<1>3. tick \in Nat /\ tick \in TickOrNone
  <2>1. tick \in Ticks
    BY DEF Typed
  <2> QED
    BY <1>1, <2>1 DEF Ticks, TickOrNone
<1>4. started \in Int /\ completed \in Int
  <2>1. started \in TickOrNone /\ completed \in TickOrNone
    BY DEF Typed
  <2> QED
    BY <1>1, <1>2, <2>1 DEF Ticks, TickOrNone
<1>5. spent \in Nat /\ faults \in Nat /\ job \in Nat
  <2>1. spent \in 0..DEADLINE /\ faults \in 0..MaxFaults /\ job \in 0..Jobs
    BY DEF Typed
  <2> QED
    BY <1>1, <2>1
<1> QED
  BY <1>1, <1>2, <1>3, <1>4, <1>5

(* Every step leaves the state of its type.                                *)
LEMMA StepTypeOK ==
  ASSUME IngestTickConstants, TickTypeOK, TickNext
  PROVE  TickTypeOK'
<1>1. Typed
  BY TypedIsTypeOK
<1>2. /\ MaxTick \in Nat /\ DEADLINE \in Nat \ {0} /\ Jobs \in Nat /\ MaxFaults \in Nat
      /\ tick \in Nat /\ tick \in TickOrNone /\ spent \in Nat /\ faults \in Nat /\ job \in Nat
  BY <1>1, TypedFacts
<1>3. \A ok \in BOOLEAN : D1(ok) => faults' \in 0..MaxFaults
  <2>1. faults \in 0..MaxFaults
    BY <1>1 DEF Typed
  <2>2. Fault => faults' \in 0..MaxFaults
    BY <1>2 DEF Fault
  <2> QED
    BY <2>1, <2>2 DEF D1
<1>4. Fault => faults' \in 0..MaxFaults
  BY <1>2 DEF Fault
<1>5. SUFFICES Typed'
  BY TypedIsTypeOK
<1>6. ASSUME NEW ok \in BOOLEAN, StartTick(ok)  PROVE Typed'
  <2>1. tick' \in Ticks /\ tick' \in TickOrNone
    <3>1. tick < MaxTick /\ tick' = tick + 1
      BY <1>6 DEF StartTick
    <3> QED
      BY <1>2, <3>1 DEF Ticks, TickOrNone
  <2>2. started' \in TickOrNone /\ ended' \in {"none", "under way", "done", "killed", "unrecorded"}
    BY <1>1, <1>6, <2>1 DEF StartTick, Typed
  <2>3. due' \subseteq Sources /\ spent' \in 0..DEADLINE
    <3>1. due' \subseteq Sources
      BY <1>6 DEF StartTick
    <3>2. spent' = 0
      BY <1>6 DEF StartTick
    <3>3. 0 \in 0..DEADLINE
      BY <1>2
    <3> QED
      BY <3>1, <3>2, <3>3
  <2> QED
    BY <1>1, <1>3, <1>6, <2>1, <2>2, <2>3 DEF StartTick, Typed, sourceHealth, cleanup
<1>7. CASE StartSource
  BY ZenonT(40), <1>1, <1>7 DEF StartSource, Typed, heartbeat, sourceHealth, cleanup
<1>8. CASE RunEnds
  <2>1. spent' \in 0..DEADLINE
    BY <1>2, <1>8 DEF RunEnds
  <2>2. observed' \in Outcomes \cup {NothingObserved}
    BY <1>8 DEF RunEnds
  <2>3. lastFound' \in OfTick
    BY <1>1, <1>2, <1>8 DEF RunEnds, Typed, OfTick
  <2>4. /\ pc' \in {"idle", "loop", "run", "record", "complete"}
        /\ IF pc' \in {"run", "record"} THEN current' \in Sources ELSE current' = NoSource
    BY <1>1, <1>8 DEF RunEnds, Typed, ToLoop
  <2> QED
    BY <1>1, <1>8, <2>1, <2>2, <2>3, <2>4 DEF RunEnds, Typed, heartbeat, sourceHealth, cleanup
<1>9. CASE RunTimesOut
  <2>1. DEADLINE \in 0..DEADLINE
    BY <1>2
  <2> QED
    BY <1>1, <1>9, <2>1
       DEF RunTimesOut, Typed, ToLoop, heartbeat, sourceHealth, cleanup, tickGhosts
<1>10. CASE AbandonedEnds
  BY <1>1, <1>10 DEF AbandonedEnds, Typed, work, heartbeat, sourceHealth, cleanup, tickGhosts
<1>11. ASSUME NEW ok \in BOOLEAN, Record(ok)  PROVE Typed'
  <2>1. firstRun' \in OfTick /\ itemsAt' \in OfTick
    BY <1>1, <1>2, <1>11 DEF Record, Typed, OfTick
  <2> QED
    BY <1>1, <1>3, <1>11, <2>1 DEF Record, Typed, ToLoop, heartbeat, cleanup, tickGhosts
<1>12. CASE StopLoop
  BY <1>1, <1>12 DEF StopLoop, Typed, work, heartbeat, sourceHealth, cleanup, tickGhosts
<1>13. Idle => /\ pc' = "idle" /\ due' \subseteq Sources /\ current' = NoSource
               /\ spent' \in 0..DEADLINE /\ running' \subseteq Sources
               /\ observed' \in Outcomes \cup {NothingObserved}
  BY <1>2 DEF Idle
<1>14. ASSUME NEW ok \in BOOLEAN, CompleteTick(ok)  PROVE Typed'
  <2>1. completed' \in TickOrNone /\ ended' \in {"none", "under way", "done", "killed", "unrecorded"}
    BY <1>1, <1>2, <1>14 DEF CompleteTick, Typed
  <2> QED
    BY <1>1, <1>3, <1>13, <1>14, <2>1 DEF CompleteTick, Typed, sourceHealth, cleanup
<1>15. CASE Kill
  BY <1>1, <1>4, <1>13, <1>15 DEF Kill, Typed, heartbeat, sourceHealth, cleanup
<1>16. CASE StartCleanup
  <2>1. Jobs > 0 /\ job' = 1
    BY <1>16 DEF StartCleanup
  <2>2. job' \in 0..Jobs
    BY <1>2, <2>1
  <2> QED
    BY <1>1, <1>16, <2>2 DEF StartCleanup, Typed, work, heartbeat, sourceHealth, tickGhosts
<1>17. ASSUME NEW ok \in BOOLEAN, RunJob(ok)  PROVE Typed'
  <2>1. job' \in 0..Jobs
    <3>1. job' = IF job < Jobs THEN job + 1 ELSE 0
      BY <1>17 DEF RunJob
    <3> QED
      BY <1>2, <3>1
  <2>2. overdue' \in [1..Jobs -> {"no", "failed", "killed", "not reached"}]
    BY <1>1, <1>17 DEF RunJob, Typed
  <2> QED
    BY <1>1, <1>3, <1>17, <2>1, <2>2 DEF RunJob, Typed, work, heartbeat, sourceHealth, tickGhosts
<1>18. CASE KillCleanup
  <2>1. overdue' \in [1..Jobs -> {"no", "failed", "killed", "not reached"}]
    BY <1>1, <1>18 DEF KillCleanup, Typed
  <2>2. job' \in 0..Jobs
    <3>1. job' = 0
      BY <1>18 DEF KillCleanup
    <3> QED
      BY <1>2, <3>1
  <2> QED
    BY <1>1, <1>4, <1>18, <2>1, <2>2 DEF KillCleanup, Typed, work, heartbeat, sourceHealth, tickGhosts
<1> QED
  BY <1>6, <1>7, <1>8, <1>9, <1>10, <1>11, <1>12, <1>14, <1>15, <1>16, <1>17, <1>18 DEF TickNext

(* ------------------------ the parts of the invariant --------------------*)

LEMMA BudgetFacts ==
  ASSUME IngestTickConstants, TickTypeOK
  PROVE  DEADLINE \in Nat \ {0} /\ spent \in Nat /\ spent <= DEADLINE
<1>1. Typed
  BY TypedIsTypeOK
<1>2. spent \in 0..DEADLINE
  BY <1>1 DEF Typed
<1> QED
  BY <1>2, ScheduleFacts

(* A source that is started finds no other one running.                    *)
LEMMA StepRunning ==
  ASSUME IngestTickConstants, TickTypeOK, RunningInv, TickNext
  PROVE  RunningInv'
<1>1. DEADLINE \in Nat \ {0} /\ spent \in Nat /\ spent <= DEADLINE
  BY BudgetFacts
<1>2. pc \in {"run", "record"} => current \in Sources
  BY DEF TickTypeOK
<1>3. CASE UNCHANGED running /\ UNCHANGED spent /\ UNCHANGED pc /\ UNCHANGED current
  BY <1>3 DEF RunningInv
<1>4. CASE running' = {}
  BY <1>4 DEF RunningInv
<1>5. CASE \E ok \in BOOLEAN : StartTick(ok)
  BY <1>1, <1>5 DEF StartTick, RunningInv
<1>6. CASE StartSource
  <2>1. running = {} /\ pc' = "run"
    BY <1>1, <1>6 DEF StartSource, RunningInv
  <2>2. running' = {current'}
    BY <1>6, <2>1 DEF StartSource
  <2> QED
    BY <2>1, <2>2 DEF RunningInv
<1>7. CASE RunEnds
  <2>1. spent # DEADLINE
    <3>1. PICK units \in 1..(DEADLINE - spent) : TRUE
      BY <1>7 DEF RunEnds
    <3> QED
      BY <1>1, <3>1
  <2>2. running \subseteq {current} /\ running' = running \ {current}
    BY <1>7, <2>1 DEF RunEnds, RunningInv
  <2> QED
    BY <1>4, <2>2
<1>8. CASE RunTimesOut
  <2>1. pc = "run" /\ pc' = "loop" /\ spent' = DEADLINE /\ UNCHANGED running
    BY <1>8 DEF RunTimesOut, ToLoop
  <2> QED
    BY <1>2, <2>1 DEF RunningInv
<1>9. CASE (\E ok \in BOOLEAN : Record(ok)) \/ StopLoop
  <2>1. pc \notin {"idle", "run"} /\ pc' # "idle" /\ UNCHANGED <<running, spent>>
    BY <1>9 DEF Record, StopLoop, ToLoop
  <2> QED
    BY <2>1 DEF RunningInv
<1>10. CASE AbandonedEnds \/ Kill \/ \E ok \in BOOLEAN : CompleteTick(ok)
  BY <1>4, <1>10 DEF AbandonedEnds, Kill, CompleteTick, Idle
<1>11. CASE StartCleanup \/ KillCleanup \/ \E ok \in BOOLEAN : RunJob(ok)
  BY <1>3, <1>11 DEF StartCleanup, KillCleanup, RunJob, work
<1> QED
  BY <1>5, <1>6, <1>7, <1>8, <1>9, <1>10, <1>11 DEF TickNext

(* The clean-up reaches every job, whatever becomes of the one before.     *)
LEMMA StepJobs ==
  ASSUME IngestTickConstants, TickTypeOK, JobInv, JobsIndependent, TickNext
  PROVE  JobInv' /\ JobsIndependent'
<1>1. Jobs \in Nat /\ job \in 0..Jobs
  BY TypedIsTypeOK, ScheduleFacts DEF Typed
<1>2. overdue \in [1..Jobs -> {"no", "failed", "killed", "not reached"}]
  BY TypedIsTypeOK DEF Typed
<1>3. CASE UNCHANGED cleanup
  BY <1>3 DEF cleanup, JobInv, JobsIndependent
<1>4. CASE StartCleanup
  <2>1. job' = 1
    BY <1>4 DEF StartCleanup
  <2> QED
    <3>1. \A j \in 1..(job' - 1) : FALSE
      BY <2>1
    <3>2. job' # 0
      BY <2>1
    <3>3. JobInv'
      BY <3>1 DEF JobInv
    <3>4. JobsIndependent'
      BY <3>2 DEF JobsIndependent
    <3> QED
      BY <3>3, <3>4
<1>5. ASSUME NEW ok \in BOOLEAN, RunJob(ok)  PROVE JobInv' /\ JobsIndependent'
  <2>1. job # 0 /\ job' = IF job < Jobs THEN job + 1 ELSE 0
    BY <1>5 DEF RunJob
  <2>2. overdue' = [overdue EXCEPT ![job] = IF ok THEN "no" ELSE "failed"]
    BY <1>5 DEF RunJob
  <2>3. \A j \in 1..job : overdue'[j] # "not reached"
    <3>1. \A j \in 1..Jobs : overdue'[j] = IF j = job THEN IF ok THEN "no" ELSE "failed"
                                           ELSE overdue[j]
      BY <1>2, <2>2
    <3>2. \A j \in 1..(job - 1) : overdue[j] # "not reached"
      BY <2>1 DEF JobInv
    <3>3. \A j \in 1..job : j \in 1..Jobs /\ (j = job \/ j \in 1..(job - 1))
      BY <1>1
    <3> QED
      BY <3>1, <3>2, <3>3
  <2>4. JobInv'
    <3>1. job' # 0 => \A j \in 1..(job' - 1) : j \in 1..job
      BY <1>1, <2>1
    <3> QED
      BY <2>3, <3>1 DEF JobInv
  <2>5. JobsIndependent'
    <3>1. job' = 0 => job = Jobs
      BY <1>1, <2>1
    <3> QED
      BY <2>3, <3>1 DEF JobsIndependent
  <2> QED
    BY <2>4, <2>5
<1>6. CASE KillCleanup
  BY <1>6 DEF KillCleanup, JobInv, JobsIndependent
<1> QED
  BY <1>3, <1>4, <1>5, <1>6
     DEF TickNext, StartSource, RunEnds, RunTimesOut, AbandonedEnds, StopLoop, Kill, StartTick,
         Record, CompleteTick

(* The heartbeat between the two writes of a tick.                         *)
LEMMA StepHeartbeat ==
  ASSUME IngestTickConstants, TickTypeOK, HeartbeatInv, TickNext
  PROVE  HeartbeatInv'
<1>1. tick \in Nat /\ started \in Int /\ completed \in Int /\ None = -1
  BY TypedIsTypeOK, TypedFacts
<1>2. CASE UNCHANGED <<tick, started, completed, ended>> /\ (pc = "idle" <=> pc' = "idle")
  BY <1>2 DEF HeartbeatInv, Recorded, NeverCompleted
<1>3. started <= tick /\ completed <= tick /\ (pc # "idle" => completed < tick)
  BY DEF HeartbeatInv
<1>4. ASSUME NEW ok \in BOOLEAN, StartTick(ok)  PROVE HeartbeatInv'
  <2>1. /\ pc = "idle" /\ pc' = "loop" /\ tick' = tick + 1 /\ completed' = completed
        /\ started' = IF ok THEN tick' ELSE started
        /\ ended' = IF ok THEN "under way" ELSE ended
    BY <1>4 DEF StartTick
  <2>2. started' <= tick' /\ completed' < tick' /\ completed' <= tick'
    <3>1. tick' = tick + 1 /\ completed' = completed /\ started' \in {tick', started}
      BY <2>1
    <3> QED
      BY <1>1, <1>3, <3>1
  <2>3. CASE ok
    <3>1. Recorded' /\ ended' = "under way"
      BY <2>1, <2>3 DEF Recorded
    <3> QED
      BY <2>1, <2>2, <3>1 DEF HeartbeatInv
  <2>4. CASE ~ok
    <3>1. /\ started' = started /\ ended' = ended
          /\ ~Recorded'
      BY <1>1, <1>3, <2>1, <2>4 DEF Recorded
    <3>2. NeverCompleted' <=> NeverCompleted
      BY <2>1, <3>1 DEF NeverCompleted
    <3>3. /\ ended # "under way"
          /\ NeverCompleted <=> ended \in {"killed", "unrecorded"}
      BY <2>1 DEF HeartbeatInv
    <3> QED
      BY <2>1, <2>2, <3>1, <3>2, <3>3 DEF HeartbeatInv
  <2> QED
    BY <2>3, <2>4
<1>5. ASSUME NEW ok \in BOOLEAN, CompleteTick(ok)  PROVE HeartbeatInv'
  <2>1. /\ pc # "idle" /\ pc' = "idle" /\ tick' = tick /\ started' = started
        /\ completed' = IF ok /\ started # None THEN tick ELSE completed
        /\ ended' = IF ok THEN "done" ELSE IF Recorded THEN "unrecorded" ELSE ended
    BY <1>5 DEF CompleteTick, Idle
  <2>2. started' <= tick' /\ completed' <= tick'
    BY <1>1, <1>3, <2>1
  <2>3. CASE ok
    <3>1. ~NeverCompleted' /\ ended' = "done"
      BY <1>1, <1>3, <2>1, <2>3 DEF NeverCompleted
    <3> QED
      BY <2>1, <2>2, <3>1 DEF HeartbeatInv
  <2>4. CASE ~ok /\ Recorded
    <3>1. ended' = "unrecorded" /\ completed' = completed
      BY <2>1, <2>4
    <3>2. NeverCompleted'
      BY <1>1, <1>3, <2>1, <2>4, <3>1 DEF NeverCompleted, Recorded
    <3> QED
      BY <2>1, <2>2, <3>1, <3>2 DEF HeartbeatInv
  <2>5. CASE ~ok /\ ~Recorded
    <3>1. /\ ended' = ended /\ completed' = completed
          /\ NeverCompleted' <=> NeverCompleted
      BY <2>1, <2>5 DEF NeverCompleted
    <3>2. /\ ended # "under way"
          /\ NeverCompleted <=> ended \in {"killed", "unrecorded"}
      BY <2>5 DEF HeartbeatInv
    <3> QED
      BY <2>1, <2>2, <3>1, <3>2 DEF HeartbeatInv
  <2> QED
    BY <2>3, <2>4, <2>5
<1>6. CASE Kill
  <2>1. /\ pc # "idle" /\ pc' = "idle" /\ UNCHANGED <<tick, started, completed>>
        /\ ended' = IF Recorded THEN "killed" ELSE ended
    BY <1>6 DEF Kill, Idle, heartbeat
  <2>2. started' <= tick' /\ completed' <= tick'
    BY <1>3, <2>1
  <2>3. NeverCompleted' <=> NeverCompleted
    BY <2>1 DEF NeverCompleted
  <2>4. CASE Recorded
    <3>1. NeverCompleted
      BY <1>1, <1>3, <2>1, <2>4 DEF NeverCompleted, Recorded
    <3> QED
      BY <2>1, <2>2, <2>3, <2>4, <3>1 DEF HeartbeatInv
  <2>5. CASE ~Recorded
    <3>1. /\ ended # "under way"
          /\ NeverCompleted <=> ended \in {"killed", "unrecorded"}
      BY <2>5 DEF HeartbeatInv
    <3> QED
      BY <2>1, <2>2, <2>3, <2>5, <3>1 DEF HeartbeatInv
  <2> QED
    BY <2>4, <2>5
<1>7. CASE StartSource \/ RunEnds \/ RunTimesOut \/ StopLoop \/ \E ok \in BOOLEAN : Record(ok)
  BY <1>2, <1>7 DEF StartSource, RunEnds, RunTimesOut, StopLoop, Record, ToLoop, heartbeat, tickGhosts
<1>8. CASE AbandonedEnds \/ StartCleanup \/ KillCleanup \/ \E ok \in BOOLEAN : RunJob(ok)
  BY <1>2, <1>8 DEF AbandonedEnds, StartCleanup, KillCleanup, RunJob, heartbeat, tickGhosts
<1> QED
  BY <1>4, <1>5, <1>6, <1>7, <1>8 DEF TickNext

(* What a source's record says of its finds.                               *)
LEMMA StepFound ==
  ASSUME IngestTickConstants, TickTypeOK, FoundInv, TickNext
  PROVE  FoundInv'
<1>1. tick \in Nat /\ None = -1
  BY TypedIsTypeOK, TypedFacts
<1>2. /\ \A s \in Sources : itemsAt[s] \in Int /\ lastFound[s] \in Int
      /\ itemsAt \in OfTick /\ lastFound \in OfTick
  <2>1. itemsAt \in OfTick /\ lastFound \in OfTick
    BY TypedIsTypeOK DEF Typed
  <2>2. TickOrNone \subseteq Int
    BY <1>1, ScheduleFacts DEF TickOrNone, Ticks
  <2> QED
    BY <2>1, <2>2 DEF OfTick
<1>3. pc \in {"run", "record"} => current \in Sources
  BY DEF TickTypeOK
<1>4. ASSUME UNCHANGED <<itemsAt, lastFound>>, tick' \in {tick, tick + 1}, pc' # "record"
      PROVE  FoundInv'
  <2>1. \A s \in Sources : lastFound[s] <= tick'
    BY <1>1, <1>2, <1>4 DEF FoundInv
  <2> QED
    BY <1>4, <2>1 DEF FoundInv
<1>5. CASE UNCHANGED <<tick, itemsAt, lastFound, pc, observed, current>>
  BY <1>5 DEF FoundInv
<1>6. CASE RunEnds
  <2>1. /\ current \in Sources /\ UNCHANGED <<itemsAt, tick>>
        /\ lastFound' = IF observed' = "items" THEN [lastFound EXCEPT ![current] = tick]
                        ELSE lastFound
        /\ pc' = "record" => current' = current
    BY <1>3, <1>6 DEF RunEnds, ToLoop, sourceHealth
  <2>2. \A s \in Sources : lastFound'[s] = IF observed' = "items" /\ s = current THEN tick
                                           ELSE lastFound[s]
    BY <1>2, <2>1 DEF OfTick
  <2>3. \A s \in Sources : /\ itemsAt'[s] # None => itemsAt'[s] <= lastFound'[s]
                           /\ lastFound'[s] <= tick'
    BY <1>1, <1>2, <2>1, <2>2 DEF FoundInv
  <2> QED
    BY <2>1, <2>2, <2>3 DEF FoundInv
<1>7. ASSUME NEW ok \in BOOLEAN, Record(ok)  PROVE FoundInv'
  <2>1. /\ current \in Sources /\ UNCHANGED <<lastFound, tick>> /\ pc' = "loop"
        /\ itemsAt' = IF ok /\ observed = "items" THEN [itemsAt EXCEPT ![current] = tick]
                      ELSE itemsAt
        /\ observed = "items" => lastFound[current] = tick
    BY <1>3, <1>7 DEF Record, ToLoop, tickGhosts, FoundInv
  <2>2. \A s \in Sources : itemsAt'[s] = IF ok /\ observed = "items" /\ s = current THEN tick
                                         ELSE itemsAt[s]
    BY <1>2, <2>1 DEF OfTick
  <2>3. \A s \in Sources : /\ itemsAt'[s] # None => itemsAt'[s] <= lastFound'[s]
                           /\ lastFound'[s] <= tick'
    BY <1>1, <1>2, <2>1, <2>2 DEF FoundInv
  <2> QED
    BY <2>1, <2>3 DEF FoundInv
<1>8. CASE StartSource \/ RunTimesOut \/ StopLoop \/ Kill
           \/ \E ok \in BOOLEAN : StartTick(ok) \/ CompleteTick(ok)
  BY <1>4, <1>8 DEF StartSource, RunTimesOut, StopLoop, Kill, StartTick, CompleteTick, ToLoop,
                    Idle, sourceHealth, tickGhosts
<1>9. CASE AbandonedEnds \/ StartCleanup \/ KillCleanup \/ \E ok \in BOOLEAN : RunJob(ok)
  BY <1>5, <1>9 DEF AbandonedEnds, StartCleanup, KillCleanup, RunJob, work, sourceHealth, tickGhosts
<1> QED
  BY <1>6, <1>7, <1>8, <1>9 DEF TickNext

(* A turn is taken in the tick it falls in, or a fault was in the way.     *)
LEMMA StepTurn ==
  ASSUME IngestTickConstants, IntervalsFitRounds, TickTypeOK, TurnInv, TickNext
  PROVE  TurnInv'
<1>1. /\ tick \in Nat /\ faults \in Nat
      /\ lastRun \in [Sources -> Ticks] /\ \A s \in Sources : lastRun[s] \in Nat
  <2>1. Typed
    BY TypedIsTypeOK
  <2>2. tick \in Nat /\ faults \in Nat /\ MaxTick \in Nat
    BY <2>1, TypedFacts
  <2>3. lastRun \in [Sources -> Ticks]
    BY <2>1 DEF Typed
  <2>4. Ticks \subseteq Nat
    BY <2>2 DEF Ticks
  <2> QED
    BY <2>2, <2>3, <2>4
<1>2. Fault => faults' # 0
  BY <1>1 DEF Fault
<1>3. \A ok \in BOOLEAN : D1(ok) /\ faults' = 0 => faults = 0
  BY <1>2 DEF D1
<1>4. SUFFICES ASSUME faults' = 0, NEW s \in Sources
               PROVE  /\ \A t \in (lastRun'[s] + 1)..(tick' - 1) : ~HasTurn(s, t)
                      /\ lastRun'[s] < tick' /\ HasTurn(s, tick') => IsFirst(s)'
  BY DEF TurnInv, HasTurn, Turn
<1>5. faults = 0 => /\ \A t \in (lastRun[s] + 1)..(tick - 1) : ~HasTurn(s, t)
                    /\ lastRun[s] < tick /\ HasTurn(s, tick) => IsFirst(s)
  BY DEF TurnInv
<1>6. ASSUME UNCHANGED <<faults, lastRun, tick>>, IsFirst(s) => IsFirst(s)'
      PROVE  /\ \A t \in (lastRun'[s] + 1)..(tick' - 1) : ~HasTurn(s, t)
             /\ lastRun'[s] < tick' /\ HasTurn(s, tick') => IsFirst(s)'
  <2>1. lastRun'[s] = lastRun[s] /\ tick' = tick /\ faults = 0
    BY <1>4, <1>6
  <2> QED
    BY <1>5, <1>6, <2>1
<1>7. ASSUME NEW ok \in BOOLEAN, StartTick(ok)
      PROVE  /\ \A t \in (lastRun'[s] + 1)..(tick' - 1) : ~HasTurn(s, t)
             /\ lastRun'[s] < tick' /\ HasTurn(s, tick') => IsFirst(s)'
  <2>1. /\ pc = "idle" /\ pc' = "loop" /\ tick' = tick + 1 /\ lastRun' = lastRun
        /\ due' = {r \in Sources : IsDue(r, tick')} /\ spent' = 0
    BY <1>7 DEF StartTick
  <2>2. faults = 0
    BY <1>3, <1>4, <1>7 DEF StartTick
  <2>3. ~IsFirst(s)
    BY <2>1 DEF IsFirst
  <2>4. ASSUME NEW t \in (lastRun'[s] + 1)..(tick' - 1)  PROVE ~HasTurn(s, t)
    <3>1. lastRun[s] \in Nat /\ t \in (lastRun[s] + 1)..tick
      BY <1>1, <2>1
    <3>2. CASE t = tick
      <4>1. lastRun[s] < tick
        BY <1>1, <3>1, <3>2
      <4> QED
        BY <1>5, <2>2, <2>3, <3>2, <4>1
    <3>3. CASE t # tick
      <4>1. t \in (lastRun[s] + 1)..(tick - 1)
        BY <1>1, <3>1, <3>3
      <4> QED
        BY <1>5, <2>2, <4>1
    <3> QED
      BY <3>2, <3>3
  <2>5. ASSUME HasTurn(s, tick')  PROVE IsFirst(s)'
    <3>1. tick' \in Nat
      BY <1>1, <2>1
    <3>2. IsDue(s, tick')
      BY <2>5, <3>1, TurnComes
    <3> QED
      BY <2>1, <3>2 DEF IsFirst
  <2> QED
    BY <2>4, <2>5
<1>8. ASSUME StartSource
      PROVE  /\ \A t \in (lastRun'[s] + 1)..(tick' - 1) : ~HasTurn(s, t)
             /\ lastRun'[s] < tick' /\ HasTurn(s, tick') => IsFirst(s)'
  <2>1. PICK r \in due : /\ \A q \in due : Place(r, tick) <= Place(q, tick)
                         /\ lastRun' = [lastRun EXCEPT ![r] = tick]
    BY <1>8 DEF StartSource
  <2>2. tick' = tick /\ faults' = faults /\ r \in Sources
    BY <1>8 DEF StartSource, TickTypeOK
  <2>3. CASE s = r
    <3>1. lastRun'[s] = tick
      BY <1>1, <2>1, <2>3
    <3> QED
      BY <1>1, <2>2, <3>1
  <2>4. CASE s # r
    <3>1. lastRun'[s] = lastRun[s]
      BY <1>1, <2>1, <2>4
    <3>2. ~(lastRun[s] < tick /\ HasTurn(s, tick))
      <4>1. SUFFICES ASSUME lastRun[s] < tick, HasTurn(s, tick)  PROVE FALSE
        OBVIOUS
      <4>2. s \in due
        BY <1>4, <1>5, <2>2, <4>1 DEF IsFirst
      <4>3. Place(s, tick) = 0
        BY <1>1, <4>1, TurnComes
      <4> QED
        BY <1>1, <2>1, <2>2, <2>4, <4>2, <4>3, OneFirst
    <3> QED
      BY <1>4, <1>5, <2>2, <3>1, <3>2
  <2> QED
    BY <2>3, <2>4
<1>9. CASE RunEnds \/ RunTimesOut \/ \E ok \in BOOLEAN : Record(ok)
  <2>1. ~IsFirst(s) /\ UNCHANGED <<lastRun, tick>>
    BY <1>9 DEF RunEnds, RunTimesOut, Record, IsFirst, tickGhosts
  <2>2. faults = 0
    BY <1>3, <1>4, <1>9 DEF RunEnds, RunTimesOut, Record
  <2>3. lastRun'[s] = lastRun[s] /\ tick' = tick
    BY <2>1
  <2> QED
    BY <1>5, <2>1, <2>2, <2>3
<1>10. CASE StopLoop
  <2>1. ~IsFirst(s)
    <3>1. due = {} \/ spent >= DEADLINE
      BY <1>10 DEF StopLoop
    <3> QED
      BY <3>1, BudgetFacts DEF IsFirst
  <2> QED
    BY <1>6, <1>10, <2>1 DEF StopLoop, tickGhosts
<1>11. CASE \E ok \in BOOLEAN : CompleteTick(ok)
  <2>1. ~IsFirst(s) /\ UNCHANGED <<lastRun, tick>>
    BY <1>11 DEF CompleteTick, IsFirst
  <2>2. faults = 0
    BY <1>3, <1>4, <1>11 DEF CompleteTick
  <2>3. lastRun'[s] = lastRun[s] /\ tick' = tick
    BY <2>1
  <2> QED
    BY <1>5, <2>1, <2>2, <2>3
<1>12. CASE AbandonedEnds \/ StartCleanup
  BY <1>6, <1>12 DEF AbandonedEnds, StartCleanup, IsFirst, work, tickGhosts
<1>13. CASE \E ok \in BOOLEAN : RunJob(ok)
  <2>1. UNCHANGED <<lastRun, tick, pc, due, spent>>
    BY <1>13 DEF RunJob, work, tickGhosts
  <2>2. faults = 0
    BY <1>3, <1>4, <1>13 DEF RunJob
  <2>3. lastRun'[s] = lastRun[s] /\ tick' = tick /\ (IsFirst(s) => IsFirst(s)')
    BY <2>1 DEF IsFirst
  <2> QED
    BY <1>5, <2>2, <2>3
<1>14. CASE Kill \/ KillCleanup
  BY <1>2, <1>4, <1>14 DEF Kill, KillCleanup
<1> QED
  BY <1>7, <1>8, <1>9, <1>10, <1>11, <1>12, <1>13, <1>14 DEF TickNext

(* ------------------------------ the invariant ---------------------------*)

LEMMA TickStart ==
  ASSUME IngestTickConstants, TickInit
  PROVE  TickInv
<1>1. /\ N \in Nat \ {0} /\ DEADLINE \in Nat \ {0} /\ Jobs \in Nat
      /\ MaxTick \in Nat /\ MaxTick >= N /\ MaxFaults \in Nat
  BY ScheduleFacts
<1>2. tick \in 0..(N - 1) /\ lastRun = [s \in Sources |-> tick]
  BY DEF TickInit
<1>3. tick \in Ticks /\ tick \in Nat
  BY <1>1, <1>2 DEF Ticks
<1>4. TickTypeOK
  <2>1. 0 \in 0..DEADLINE /\ 0 \in 0..Jobs /\ 0 \in 0..MaxFaults
    BY <1>1
  <2>2. lastRun \in [Sources -> Ticks]
    BY <1>2, <1>3
  <2>3. /\ firstRun \in OfTick /\ itemsAt \in OfTick /\ lastFound \in OfTick
        /\ started \in TickOrNone /\ completed \in TickOrNone
    BY DEF TickInit, OfTick, TickOrNone
  <2>4. overdue \in [1..Jobs -> {"no", "failed", "killed", "not reached"}]
    BY DEF TickInit
  <2>5. Typed
    BY <1>3, <2>1, <2>2, <2>3, <2>4 DEF TickInit, Typed
  <2> QED
    BY <2>5, TypedIsTypeOK
<1>5. RunningInv /\ JobInv /\ JobsIndependent
  BY DEF TickInit, RunningInv, JobInv, JobsIndependent
<1>6. TurnInv
  <2>1. \A s \in Sources : lastRun[s] = tick
    BY <1>2
  <2>2. \A t \in (tick + 1)..(tick - 1) : FALSE
    BY <1>3
  <2>3. ~(tick < tick)
    BY <1>3
  <2> QED
    BY <2>1, <2>2, <2>3 DEF TurnInv
<1>7. HeartbeatInv
  <2>1. /\ started = None /\ completed = None /\ pc = "idle" /\ ended = "none"
        /\ None = -1
    BY DEF TickInit, None
  <2>2. started <= tick /\ completed <= tick
    BY <1>3, <2>1
  <2> QED
    BY <2>1, <2>2 DEF HeartbeatInv, NeverCompleted
<1>8. FoundInv
  <2>1. /\ pc = "idle" /\ \A s \in Sources : itemsAt[s] = None /\ lastFound[s] = None
    BY DEF TickInit
  <2>2. None <= tick
    BY <1>3 DEF None
  <2> QED
    BY <2>1, <2>2 DEF FoundInv
<1> QED
  BY <1>4, <1>5, <1>6, <1>7, <1>8 DEF TickInv

LEMMA TickStep ==
  ASSUME IngestTickConstants, IntervalsFitRounds, TickInv, [TickNext]_tickVars
  PROVE  TickInv'
<1>1. CASE TickNext
  BY <1>1, StepTypeOK, StepRunning, StepJobs, StepTurn, StepHeartbeat, StepFound DEF TickInv
<1>2. CASE UNCHANGED tickVars
  <2> USE <1>2 DEF tickVars, work, heartbeat, sourceHealth, cleanup, tickGhosts
  <2>1. TickTypeOK'
    BY DEF TickInv, TickTypeOK
  <2>2. RunningInv' /\ JobInv' /\ JobsIndependent'
    BY DEF TickInv, RunningInv, JobInv, JobsIndependent
  <2>3. TurnInv'
    BY DEF TickInv, TurnInv, HasTurn, Turn, IsFirst
  <2>4. HeartbeatInv'
    BY DEF TickInv, HeartbeatInv, Recorded, NeverCompleted
  <2>5. FoundInv'
    BY DEF TickInv, FoundInv
  <2> QED
    BY <2>1, <2>2, <2>3, <2>4, <2>5 DEF TickInv
<1> QED
  BY <1>1, <1>2

(* The inductive invariant of the cron: every conjunct of TickInv holds in *)
(* every state that ticks, runs, kills, failed D1 statements and clean-ups *)
(* lead to (runIngestion, scheduled).                                      *)
THEOREM TickInvariance == TickSpec => []TickInv
<1>1. TickInit => TickInv
  BY TickStart, IngestTickConstants
<1>2. TickInv /\ [TickNext]_tickVars => TickInv'
  BY TickStep, IngestTickConstants, IntervalsFitRounds
<1> QED
  BY <1>1, <1>2, PTL DEF TickSpec

(* One source of a tick runs at a time and the tick keeps to its budget,   *)
(* although withTimeout leaves work running that it no longer waits for;   *)
(* and the daily clean-up reaches every job (runIngestion,                 *)
(* runDailyCleanup).                                                       *)
THEOREM TickIsSafe == TickSpec => []TickSafe
<1>1. TickInv => TickSafe
  <2>1. SUFFICES ASSUME TickInv  PROVE TickSafe
    OBVIOUS
  <2>2. spent <= DEADLINE
    BY <2>1, BudgetFacts, IngestTickConstants DEF TickInv
  <2>3. Cardinality(running) <= 1
    <3>1. CASE running = {}
      BY <3>1, FS_EmptySet
    <3>2. CASE running # {}
      <4>1. PICK s : running = {s}
        BY <2>1, <3>2 DEF TickInv, RunningInv
      <4>2. Cardinality(running) = 1
        BY <4>1, FS_Singleton
      <4> QED
        BY <4>2
    <3> QED
      BY <3>1, <3>2
  <2> QED
    BY <2>1, <2>2, <2>3 DEF TickInv, TickSafe, OneSourceAtATime
<1> QED
  BY <1>1, TickInvariance, PTL

(* The health route shows a tick that never completed exactly when the     *)
(* last recorded one was killed or lost its completion write               *)
(* (markTickStarted, markTickCompleted, started_but_never_completed).      *)
THEOREM HeartbeatTells == TickSpec => []HeartbeatTellsKills
<1>1. TickInv => HeartbeatTellsKills
  BY DEF TickInv, HeartbeatInv, HeartbeatTellsKills
<1> QED
  BY <1>1, TickInvariance, PTL

(* A source that found nothing for longer than its quiet spell is listed   *)
(* as silent, whatever its runs came to (recordSourceRun, assessSilence).  *)
THEOREM SilenceTold == TickSpec => []SilenceIsTold
<1>1. TickInv => SilenceIsTold
  <2>1. SUFFICES ASSUME TickInv, NEW s \in Sources,
                        firstRun[s] # None, tick - firstRun[s] > QuietTicks[s],
                        lastFound[s] = None \/ tick - lastFound[s] > QuietTicks[s]
                 PROVE  Silent(s)
    BY DEF SilenceIsTold
  <2>2. Typed
    BY <2>1, TypedIsTypeOK DEF TickInv
  <2>3. /\ tick \in Nat /\ None = -1 /\ MaxTick \in Nat /\ QuietTicks[s] \in Nat
    BY <2>2, TypedFacts, ScheduleFacts, IngestTickConstants
  <2>4. itemsAt[s] \in TickOrNone /\ lastFound[s] \in TickOrNone
    BY <2>2 DEF Typed, OfTick
  <2>5. itemsAt[s] \in Int /\ lastFound[s] \in Int /\ itemsAt[s] >= None
    BY <2>3, <2>4 DEF TickOrNone, Ticks
  <2>6. CASE itemsAt[s] = None
    BY <2>1, <2>6 DEF Silent
  <2>7. CASE itemsAt[s] # None
    <3>1. itemsAt[s] <= lastFound[s]
      BY <2>1, <2>7 DEF TickInv, FoundInv
    <3>2. lastFound[s] # None
      BY <2>3, <2>5, <2>7, <3>1
    <3>3. tick - lastFound[s] > QuietTicks[s]
      BY <2>1, <3>2
    <3>4. tick - itemsAt[s] > QuietTicks[s]
      BY <2>3, <2>5, <3>1, <3>3
    <3> QED
      BY <2>1, <2>7, <3>4 DEF Silent
  <2> QED
    BY <2>6, <2>7
<1> QED
  BY <1>1, TickInvariance, PTL

(* Without faults every source runs once in its interval or in a round of  *)
(* the sources, even if the others take the whole budget of their ticks    *)
(* (the rotation of runIngestion, isDue), for intervals like the code's.   *)
THEOREM NoneStarves == TickSpec => []NoSourceStarves
<1>1. TickInv => NoSourceStarves
  <2>1. SUFFICES ASSUME TickInv, pc = "idle", faults = 0, NEW s \in Sources
                 PROVE  tick - lastRun[s] < Turn(s)
    BY DEF NoSourceStarves
  <2>2. /\ N \in Nat \ {0} /\ MaxTick \in Nat /\ Turn(s) \in Nat \ {0}
        /\ Phase(s) \in 0..(N - 1)
    BY ScheduleFacts, IngestTickConstants
  <2>3. tick \in Nat /\ lastRun[s] \in Nat
    <3>1. tick \in Ticks /\ lastRun \in [Sources -> Ticks]
      BY <2>1, TypedIsTypeOK DEF TickInv, Typed
    <3>2. tick \in Ticks /\ lastRun[s] \in Ticks
      BY <3>1
    <3> QED
      BY <2>2, <3>2 DEF Ticks
  <2>4. /\ \A t \in (lastRun[s] + 1)..(tick - 1) : ~HasTurn(s, t)
        /\ ~(lastRun[s] < tick /\ HasTurn(s, tick))
    BY <2>1 DEF TickInv, TurnInv, IsFirst
  <2>5. PICK x \in Int : x = lastRun[s] + 1 - Phase(s)
    BY <2>2, <2>3
  <2>6. PICK d \in 0..(Turn(s) - 1) : (x + d) % Turn(s) = 0
    BY <2>2, SomeMultiple
  <2>7. PICK t \in Int : t = lastRun[s] + 1 + d
    BY <2>2, <2>3
  <2>8. HasTurn(s, t)
    <3>1. t - Phase(s) = x + d
      BY <2>2, <2>3, <2>5, <2>7
    <3> QED
      BY <2>6, <3>1 DEF HasTurn
  <2>9. SUFFICES ASSUME tick - lastRun[s] >= Turn(s)  PROVE FALSE
    BY <2>2, <2>3
  <2>10. t >= lastRun[s] + 1 /\ t <= tick
    BY <2>2, <2>3, <2>7, <2>9
  <2>11. CASE t = tick
    BY <2>3, <2>4, <2>8, <2>10, <2>11
  <2>12. CASE t # tick
    <3>1. t \in (lastRun[s] + 1)..(tick - 1)
      BY <2>3, <2>10, <2>12
    <3> QED
      BY <2>4, <2>8, <3>1
  <2> QED
    BY <2>11, <2>12
<1> QED
  BY <1>1, TickInvariance, PTL

(***************************************************************************)
(* Looking places up.                                                      *)
(***************************************************************************)
(* ------------------------- types and constants --------------------------*)

Pins == [name : Names \cup {Absent}, point : Points \cup {NoPoint},
         source : Providers \cup {"seed", "settlement", "none", "address"}]
Stops == {"start", "chain", "sleep", "sent", "done"}
Out == {"start", "sent", "done"}

(* A caller joins a chain at its end.                                      *)
LEMMA Queued ==
  ASSUME NEW S, NEW q \in Seq(S), NEW c \in S
  PROVE  LET r == Append(q, c) IN
         /\ r \in Seq(S) /\ Len(q) \in Nat /\ DOMAIN r = 1..(Len(q) + 1)
         /\ DOMAIN q = 1..Len(q)
         /\ \A i \in DOMAIN q : i \in DOMAIN r /\ r[i] = q[i]
         /\ Len(q) + 1 \in DOMAIN r /\ r[Len(q) + 1] = c
         /\ \A i \in DOMAIN r : i \in DOMAIN q \/ i = Len(q) + 1
OBVIOUS

(* The first of a chain leaves, and the others move up.                    *)
LEMMA Popped ==
  ASSUME NEW S, NEW q \in Seq(S), q # <<>>
  PROVE  /\ Head(q) \in S /\ Head(q) = q[1] /\ 1 \in DOMAIN q
         /\ Tail(q) \in Seq(S)
         /\ \A i \in DOMAIN Tail(q) : i \in Nat /\ i >= 1 /\ i + 1 \in DOMAIN q
                                       /\ Tail(q)[i] = q[i + 1]
         /\ \A i \in DOMAIN q : i # 1 => i \in Int /\ i - 1 \in DOMAIN Tail(q)
                                          /\ Tail(q)[i - 1] = q[i]
OBVIOUS

LEMMA ConstantFacts ==
  ASSUME GeocodingConstants
  PROVE  /\ MIN_SPACING \in Nat \ {0} /\ ROOM \in Nat \ {0} /\ REQUEST_TIMEOUT \in Nat \ {0}
         /\ MAX_STREETS \in Nat /\ MaxFaults \in Nat
         /\ Unbounded = -1 /\ Absent \notin Names /\ NoPoint \notin Points
         /\ Places \cap Users = {} /\ Places \subseteq Callers /\ Users \subseteq Callers
         /\ \A c \in Callers \ Users : c \in Places
         /\ NoPin \in Pins /\ NoPin.source = "none" /\ NoPin.point = NoPoint
         /\ \A n \in Names, x \in Points \cup {NoPoint},
               s \in Providers \cup {"seed", "settlement", "none", "address"} :
              /\ Pin(n, x, s) \in Pins /\ Pin(n, x, s).name = n
              /\ Pin(n, x, s).point = x /\ Pin(n, x, s).source = s
BY DEF GeocodingConstants, Unbounded, Callers, Pins, NoPin, Pin

LEMMA AnswerFacts ==
  ASSUME NEW a \in Answers
  PROVE  a.provider \in Providers /\ a.point \in Points \cup {NoPoint}
         /\ Answer(a.provider, a.point) = a
BY DEF Answers, Answer

(* The names a location walks are names.                                   *)
LEMMA CandidatesType ==
  ASSUME GeocodingConstants, NEW w \in Places
  PROVE  Candidates(w) \in Seq(Names)
<1> DEFINE streets == LOCATION[w].streets
           n == IF Len(streets) < MAX_STREETS THEN Len(streets) ELSE MAX_STREETS
           area == LOCATION[w].area
           settlement == LOCATION[w].settlement
<1>1. /\ area \in Names \cup {Absent} /\ settlement \in Names \cup {Absent}
      /\ streets \in Seq(Names) /\ MAX_STREETS \in Nat
  BY DEF GeocodingConstants
<1>2. Stated(area) \in Seq(Names) /\ Stated(settlement) \in Seq(Names)
  BY <1>1 DEF Stated
<1>3. SubSeq(streets, 1, n) \in Seq(Names)
  <2>1. Len(streets) \in Nat /\ \A i \in 1..Len(streets) : streets[i] \in Names
    BY <1>1
  <2>2. n \in Int /\ \A i \in 1..n : streets[i] \in Names
    BY <1>1, <2>1
  <2> HIDE DEF n, streets
  <2> QED
    BY <2>2, SubSeqProperties
<1> HIDE DEF n, area, settlement, streets
<1>4. Stated(area) \o SubSeq(streets, 1, n) \in Seq(Names)
  BY <1>2, <1>3, ConcatProperties
<1>5. Stated(area) \o SubSeq(streets, 1, n) \o Stated(settlement) \in Seq(Names)
  BY <1>2, <1>4, ConcatProperties
<1> QED
  BY <1>5 DEF Candidates, n, area, settlement, streets

(* ----------------------- what a step does to the chains -----------------*)

clocks == <<since, idle, spaced, left, timer>>

MovesOut(c) == \E x \in Out : at' = [at EXCEPT ![c] = x]

StaysOut(c) == ~Waiting(c) /\ MovesOut(c) /\ UNCHANGED <<queue, asking, clocks>>
JoinsFrom(c) == ~Waiting(c) /\ (\E p \in Providers : Join(c, p)) /\ UNCHANGED clocks
Leaves(c) ==
  /\ Waiting(c) /\ queue[asking[c]][1] = c
  /\ Leave(c) /\ MovesOut(c) /\ UNCHANGED asking
  /\ \/ UNCHANGED clocks
     \/ Send(c)

LEMMA StepKind ==
  ASSUME GeocodingConstants, TypeOK, ChainInv, Next
  PROVE  \/ Tick
         \/ \E c \in Callers : StaysOut(c) \/ JoinsFrom(c) \/ Leaves(c) \/ StartSleep(c)
<1> USE DEF Out
<1>1. \A p \in Providers : queue[p] \in Seq(Callers)
  BY DEF TypeOK
<1>2. \A c \in Callers : asking[c] \in Providers
  BY DEF TypeOK
<1>3. \A c \in Callers : Waiting(c) => queue[asking[c]] # <<>>
  BY <1>1, <1>2 DEF ChainInv
<1>4. \A c \in Callers : Waiting(c) => Head(queue[asking[c]]) = queue[asking[c]][1]
  BY <1>1, <1>2, <1>3
<1>5. ASSUME NEW c \in Callers, Chain(c)
      PROVE  Leaves(c) \/ StartSleep(c)
  <2>1. CASE Send(c)
    <3>1. at[c] = "sleep" /\ MovesOut(c) /\ Leave(c) /\ UNCHANGED asking
      BY <2>1 DEF Send, MovesOut
    <3>2. Waiting(c) /\ queue[asking[c]][1] = c
      BY <3>1 DEF Waiting, ChainInv
    <3> QED
      BY <2>1, <3>1, <3>2 DEF Leaves
  <2>2. CASE NoSlot(c)
    <3>1. ItsTurn(c) /\ Leave(c) /\ UNCHANGED <<asking, clocks>>
      BY <2>2 DEF NoSlot, clocks, ghosts
    <3>2. MovesOut(c)
      BY <2>2 DEF NoSlot, NextName, MovesOut
    <3>3. Waiting(c) /\ queue[asking[c]][1] = c
      BY <1>4, <3>1 DEF ItsTurn, Waiting
    <3> QED
      BY <3>1, <3>2, <3>3 DEF Leaves
  <2> QED
    BY <1>5, <2>1, <2>2 DEF Chain
<1>6. ASSUME NEW w \in Places, Forward(w)
      PROVE  StaysOut(w) \/ JoinsFrom(w)
  <2>1. ~Waiting(w)
    BY <1>6 DEF Forward, PinSeeded, NoneLeft, Transient, Refused, ReadCache, Answered, Waiting
  <2>2. CASE PinSeeded(w) \/ NoneLeft(w) \/ Refused(w)
    BY <2>1, <2>2 DEF PinSeeded, NoneLeft, Refused, Done, NextName, StaysOut, MovesOut, clocks,
                      chains, ghosts
  <2>3. CASE Transient(w)
    BY <2>1, <2>3 DEF Transient, NextName, StaysOut, JoinsFrom, MovesOut, clocks, ghosts, Providers
  <2>4. ASSUME NEW ok \in BOOLEAN, ReadCache(w, ok)
        PROVE  StaysOut(w) \/ JoinsFrom(w)
    <3>1. UNCHANGED clocks
      BY <2>4 DEF ReadCache, clocks, ghosts
    <3>2. \/ NextName(w) /\ UNCHANGED <<queue, asking>>
          \/ Got(w, cache[Name(w)]) /\ UNCHANGED <<queue, asking>>
          \/ Join(w, "nominatim")
      BY <2>4 DEF ReadCache
    <3> QED
      BY <2>1, <3>1, <3>2 DEF Got, Done, NextName, StaysOut, JoinsFrom, MovesOut, Providers
  <2>5. ASSUME NEW ok \in BOOLEAN, NEW a \in Answers, Answered(w, a, ok)
        PROVE  StaysOut(w)
    <3>1. UNCHANGED <<queue, asking, clocks>>
      BY <2>5 DEF Answered, clocks, chains
    <3>2. NextName(w) \/ Got(w, a)
      BY <2>5 DEF Answered
    <3> QED
      BY <2>1, <3>1, <3>2 DEF Got, Done, NextName, StaysOut, MovesOut
  <2> QED
    BY <1>6, <2>2, <2>3, <2>4, <2>5 DEF Forward
<1>7. ASSUME NEW u \in Users, ReverseLookup(u)
      PROVE  StaysOut(u) \/ JoinsFrom(u)
  BY <1>7 DEF ReverseLookup, StartReverse, ReverseEnds, StaysOut, JoinsFrom, MovesOut, Waiting,
              clocks, chains, ghosts, Providers
<1> QED
  BY <1>5, <1>6, <1>7 DEF Next, Callers

(* A chain holds who waits in it, and its head only is asleep.             *)
LEMMA StepChain ==
  ASSUME GeocodingConstants, TypeOK, ChainInv, Next
  PROVE  ChainInv' /\ queue' \in [Providers -> Seq(Callers)]
<1>1. /\ queue \in [Providers -> Seq(Callers)] /\ \A p \in Providers : queue[p] \in Seq(Callers)
      /\ asking \in [Callers -> Providers] /\ \A c \in Callers : asking[c] \in Providers
      /\ at \in [Callers -> Stops]
  BY DEF TypeOK, Stops
<1>2. \A p \in Providers, i \in Nat : i \in DOMAIN queue[p] => queue[p][i] \in Callers
  BY <1>1
<1>3. \A c \in Callers : Waiting(c) => queue[asking[c]] # <<>>
  BY <1>1 DEF ChainInv
<1>4. CASE Tick
  BY <1>1, <1>4 DEF Tick, ChainInv, Waiting
<1>5. ASSUME NEW c \in Callers, StaysOut(c)
      PROVE  ChainInv' /\ queue' \in [Providers -> Seq(Callers)]
  <2>1. UNCHANGED <<queue, asking>>
    BY <1>5 DEF StaysOut
  <2>2. \A d \in Callers : (at'[d] \in {"chain", "sleep"} <=> Waiting(d)) /\ (at'[d] = "sleep" <=> at[d] = "sleep")
    BY <1>1, <1>5 DEF StaysOut, MovesOut, Out, Waiting
  <2> QED
    BY <1>1, <2>1, <2>2 DEF ChainInv, Waiting
<1>6. ASSUME NEW c \in Callers, JoinsFrom(c)
      PROVE  ChainInv' /\ queue' \in [Providers -> Seq(Callers)]
  <2>1. PICK p \in Providers : Join(c, p)
    BY <1>6 DEF JoinsFrom
  <2>2. ~Waiting(c)
    BY <1>6 DEF JoinsFrom
  <2>3. \A d \in Callers : /\ asking'[d] = IF d = c THEN p ELSE asking[d]
                           /\ at'[d] = IF d = c THEN "chain" ELSE at[d]
    BY <1>1, <2>1 DEF Join
  <2>4. \A d \in Callers : /\ at'[d] \in {"chain", "sleep"} <=> Waiting(d) \/ d = c
                           /\ at'[d] = "sleep" => at[d] = "sleep" /\ d # c
    BY <2>3 DEF Waiting
  <2>5. \A q \in Providers : queue'[q] = IF q = p THEN Append(queue[p], c) ELSE queue[q]
    BY <1>1, <2>1 DEF Join
  <2>6. queue' \in [Providers -> Seq(Callers)]
    BY <1>1, <2>1, Queued DEF Join
  <2>7. /\ \A i \in DOMAIN queue[p] : i \in DOMAIN queue'[p] /\ queue'[p][i] = queue[p][i]
        /\ Len(queue[p]) + 1 \in DOMAIN queue'[p] /\ queue'[p][Len(queue[p]) + 1] = c
        /\ \A i \in DOMAIN queue'[p] : i \in DOMAIN queue[p] \/ i = Len(queue[p]) + 1
        /\ \A i \in DOMAIN queue[p] : i # Len(queue[p]) + 1
    <3> DEFINE old == queue[p]
               new == queue'[p]
    <3>1. old \in Seq(Callers) /\ new = Append(old, c)
      BY <1>1, <2>5
    <3> HIDE DEF old, new
    <3>2. /\ \A i \in DOMAIN old : i \in DOMAIN new /\ new[i] = old[i]
          /\ Len(old) + 1 \in DOMAIN new /\ new[Len(old) + 1] = c
          /\ \A i \in DOMAIN new : i \in DOMAIN old \/ i = Len(old) + 1
          /\ DOMAIN old = 1..Len(old) /\ Len(old) \in Nat
      BY <3>1, Queued
    <3>3. \A i \in DOMAIN old : i # Len(old) + 1
      BY <3>2
    <3> QED
      BY <3>2, <3>3 DEF old, new
  <2>8. \A q \in Providers : \A i \in DOMAIN queue[q] : queue[q][i] \in Callers /\ queue[q][i] # c
    BY <1>1, <2>2 DEF ChainInv
  <2>9. ASSUME NEW q \in Providers, NEW i \in DOMAIN queue[q]
         PROVE  i \in DOMAIN queue'[q] /\ queue'[q][i] = queue[q][i]
    <3>1. CASE q = p
      BY <2>7, <2>9, <3>1
    <3>2. CASE q # p
      <4>1. queue'[q] = queue[q]
        BY <2>5, <3>2
      <4> QED
        BY <2>9, <4>1
    <3> QED
      BY <3>1, <3>2
  <2>10. ASSUME NEW d \in Callers, at'[d] \in {"chain", "sleep"}
        PROVE  \E i \in DOMAIN queue'[asking'[d]] : queue'[asking'[d]][i] = d
    <3>1. CASE d = c
      BY <2>3, <2>7, <3>1
    <3>2. CASE d # c
      <4>1. PICK i \in DOMAIN queue[asking[d]] : queue[asking[d]][i] = d
        BY <2>4, <2>10, <3>2 DEF ChainInv
      <4>2. asking'[d] = asking[d] /\ asking[d] \in Providers
        BY <1>1, <2>3, <3>2
      <4> QED
        BY <2>9, <4>1, <4>2
    <3> QED
      BY <3>1, <3>2
  <2>11. ASSUME NEW q \in Providers, NEW i \in DOMAIN queue'[q]
         PROVE  /\ at'[queue'[q][i]] \in {"chain", "sleep"} /\ asking'[queue'[q][i]] = q
                /\ \A j \in DOMAIN queue'[q] : queue'[q][i] = queue'[q][j] => i = j
    <3>1. CASE q # p
      <4>1. queue'[q] = queue[q] /\ i \in DOMAIN queue[q]
        BY <2>5, <2>11, <3>1
      <4>2. /\ queue[q][i] \in Callers /\ queue[q][i] # c
            /\ Waiting(queue[q][i]) /\ asking[queue[q][i]] = q
        BY <2>8, <4>1 DEF ChainInv
      <4>3. \A j \in DOMAIN queue[q] : queue[q][i] = queue[q][j] => i = j
        BY <4>1 DEF ChainInv
      <4> QED
        BY <2>3, <2>4, <4>1, <4>2, <4>3
    <3>2. CASE q = p /\ i \in DOMAIN queue[p]
      <4>1. queue'[q][i] = queue[p][i] /\ queue[p][i] \in Callers /\ queue[p][i] # c
        BY <2>7, <2>8, <3>2
      <4>2. Waiting(queue[p][i]) /\ asking[queue[p][i]] = p
        BY <3>2 DEF ChainInv
      <4>3. \A j \in DOMAIN queue'[p] : queue[p][i] = queue'[p][j] => i = j
        BY <2>7, <3>2, <4>1 DEF ChainInv
      <4> QED
        BY <2>3, <2>4, <3>2, <4>1, <4>2, <4>3
    <3>3. CASE q = p /\ i \notin DOMAIN queue[p]
      <4>1. i = Len(queue[p]) + 1 /\ queue'[q][i] = c
        BY <2>7, <2>11, <3>3
      <4>2. \A j \in DOMAIN queue'[p] : c = queue'[p][j] => j = i
        BY <2>7, <2>8, <4>1
      <4> QED
        BY <2>3, <2>4, <3>3, <4>1, <4>2
    <3> QED
      BY <3>1, <3>2, <3>3
  <2>12. ASSUME NEW d \in Callers, at'[d] = "sleep"  PROVE queue'[asking'[d]][1] = d
    <3>1. at[d] = "sleep" /\ d # c /\ asking'[d] = asking[d] /\ Waiting(d)
      BY <2>3, <2>4, <2>12 DEF Waiting
    <3>2. queue[asking[d]][1] = d /\ queue[asking[d]] # <<>>
      BY <1>3, <3>1 DEF ChainInv
    <3>3. 1 \in DOMAIN queue[asking[d]]
      BY <1>1, <3>2, Popped
    <3> QED
      BY <1>1, <2>9, <3>1, <3>2, <3>3
  <2> QED
    BY <2>6, <2>10, <2>11, <2>12 DEF ChainInv, Waiting
<1>7. ASSUME NEW c \in Callers, Leaves(c)
      PROVE  ChainInv' /\ queue' \in [Providers -> Seq(Callers)]
  <2> DEFINE p == asking[c]
  <2>1. /\ p \in Providers /\ Waiting(c) /\ queue[p][1] = c /\ queue[p] # <<>>
        /\ UNCHANGED asking
    BY <1>1, <1>3, <1>7 DEF Leaves
  <2>2. \A q \in Providers : queue'[q] = IF q = p THEN Tail(queue[p]) ELSE queue[q]
    BY <1>1, <1>7 DEF Leaves, Leave
  <2>3. \A d \in Callers : /\ at'[d] \in {"chain", "sleep"} <=> Waiting(d) /\ d # c
                           /\ at'[d] = "sleep" => at[d] = "sleep" /\ d # c
    BY <1>1, <1>7 DEF Leaves, MovesOut, Out, Waiting
  <2>4. queue' \in [Providers -> Seq(Callers)]
    BY <1>1, <1>7, <2>1, Popped DEF Leaves, Leave
  <2> HIDE DEF p
  <2>5. /\ 1 \in DOMAIN queue[p]
        /\ \A i \in DOMAIN queue'[p] : i \in Nat /\ i >= 1 /\ i + 1 \in DOMAIN queue[p]
                                       /\ queue'[p][i] = queue[p][i + 1]
        /\ \A i \in DOMAIN queue[p] : i # 1 => i \in Int /\ i - 1 \in DOMAIN queue'[p]
                                               /\ queue'[p][i - 1] = queue[p][i]
    <3> DEFINE old == queue[p]
               new == queue'[p]
    <3>1. old \in Seq(Callers) /\ old # <<>> /\ new = Tail(old)
      BY <1>1, <2>1, <2>2
    <3> HIDE DEF old, new
    <3>2. /\ 1 \in DOMAIN old
          /\ \A i \in DOMAIN new : i \in Nat /\ i >= 1 /\ i + 1 \in DOMAIN old
                                    /\ new[i] = old[i + 1]
          /\ \A i \in DOMAIN old : i # 1 => i \in Int /\ i - 1 \in DOMAIN new
                                            /\ new[i - 1] = old[i]
      BY <3>1, Popped
    <3> QED
      BY <3>2 DEF old, new
  <2>6. \A i \in DOMAIN queue[p] : queue[p][i] = c => i = 1
    BY <2>1, <2>5 DEF ChainInv
  <2>7. ASSUME NEW d \in Callers, at'[d] \in {"chain", "sleep"}
        PROVE  \E i \in DOMAIN queue'[asking'[d]] : queue'[asking'[d]][i] = d
    <3>1. d # c /\ asking'[d] = asking[d]
      BY <2>1, <2>3, <2>7
    <3>2. PICK i \in DOMAIN queue[asking[d]] : queue[asking[d]][i] = d
      BY <2>3, <2>7 DEF ChainInv
    <3>3. CASE asking[d] = p
      <4>1. i # 1
        BY <2>1, <3>1, <3>2, <3>3
      <4> QED
        BY <2>5, <3>1, <3>2, <3>3, <4>1
    <3>4. CASE asking[d] # p
      BY <1>1, <2>2, <3>1, <3>2, <3>4
    <3> QED
      BY <3>3, <3>4
  <2>8. ASSUME NEW q \in Providers, NEW i \in DOMAIN queue'[q]
        PROVE  /\ at'[queue'[q][i]] \in {"chain", "sleep"} /\ asking'[queue'[q][i]] = q
               /\ \A j \in DOMAIN queue'[q] : queue'[q][i] = queue'[q][j] => i = j
    <3>1. CASE q # p
      <4>1. queue'[q] = queue[q] /\ i \in DOMAIN queue[q]
        BY <2>2, <2>8, <3>1
      <4>2. queue[q][i] \in Callers /\ Waiting(queue[q][i]) /\ asking[queue[q][i]] = q
        BY <1>1, <4>1 DEF ChainInv
      <4>3. queue[q][i] # c
        <5>1. p = asking[c]
          BY DEF p
        <5> QED
          BY <3>1, <4>2, <5>1
      <4> QED
        BY <2>1, <2>3, <4>1, <4>2, <4>3 DEF ChainInv
    <3>2. CASE q = p
      <4>1. /\ i \in Nat /\ i + 1 \in DOMAIN queue[p] /\ queue'[p][i] = queue[p][i + 1]
            /\ i + 1 # 1
        BY <2>5, <2>8, <3>2
      <4>2. /\ queue[p][i + 1] \in Callers /\ Waiting(queue[p][i + 1])
            /\ asking[queue[p][i + 1]] = p /\ queue[p][i + 1] # c
        BY <1>1, <2>1, <2>6, <4>1 DEF ChainInv
      <4>3. ASSUME NEW j \in DOMAIN queue'[p], queue'[p][i] = queue'[p][j]  PROVE i = j
        <5>1. /\ j \in Nat /\ j + 1 \in DOMAIN queue[p] /\ queue'[p][j] = queue[p][j + 1]
          BY <2>5
        <5>2. queue[p][i + 1] = queue[p][j + 1]
          BY <4>1, <4>3, <5>1
        <5>3. i + 1 = j + 1
          BY <2>1, <4>1, <5>1, <5>2 DEF ChainInv
        <5> QED
          BY <4>1, <5>1, <5>3
      <4> QED
        BY <2>1, <2>3, <3>2, <4>1, <4>2, <4>3
    <3> QED
      BY <3>1, <3>2
  <2>9. ASSUME NEW d \in Callers, at'[d] = "sleep"  PROVE queue'[asking'[d]][1] = d
    <3>1. at[d] = "sleep" /\ d # c /\ asking'[d] = asking[d]
      BY <2>1, <2>3, <2>9
    <3>2. queue[asking[d]][1] = d
      BY <3>1 DEF ChainInv
    <3>3. asking[d] # p
      BY <2>1, <3>1, <3>2
    <3> QED
      BY <1>1, <2>2, <3>1, <3>2, <3>3
  <2> QED
    BY <2>4, <2>7, <2>8, <2>9 DEF ChainInv, Waiting
<1>8. ASSUME NEW c \in Callers, StartSleep(c)
      PROVE  ChainInv' /\ queue' \in [Providers -> Seq(Callers)]
  <2>1. /\ UNCHANGED <<queue, asking>> /\ Waiting(c) /\ Head(queue[asking[c]]) = c
        /\ at' = [at EXCEPT ![c] = "sleep"]
    BY <1>8 DEF StartSleep, ItsTurn, Waiting, chains
  <2>2. queue[asking[c]][1] = c
    BY <1>1, <1>3, <2>1
  <2>3. \A d \in Callers : /\ at'[d] \in {"chain", "sleep"} <=> Waiting(d)
                           /\ at'[d] = "sleep" => at[d] = "sleep" \/ d = c
    BY <1>1, <2>1 DEF Waiting
  <2> QED
    BY <1>1, <2>1, <2>2, <2>3 DEF ChainInv, Waiting
<1> QED
  BY <1>4, <1>5, <1>6, <1>7, <1>8, StepKind

(* ------------------------------- the clocks -----------------------------*)

LEMMA TypeFacts ==
  ASSUME GeocodingConstants, TypeOK
  PROVE  /\ MIN_SPACING \in Nat \ {0} /\ ROOM \in Nat \ {0} /\ Unbounded = -1
         /\ asking \in [Callers -> Providers] /\ \A c \in Callers : asking[c] \in Providers
         /\ at \in [Callers -> Stops]
         /\ timer \in [Callers -> Nat] /\ \A c \in Callers : timer[c] \in Nat
         /\ since \in [Providers -> 0..MIN_SPACING] /\ idle \in [Providers -> 0..MIN_SPACING]
         /\ \A p \in Providers : /\ since[p] \in Nat /\ since[p] <= MIN_SPACING
                                 /\ Wait(p) \in Nat
         /\ left \in [Callers -> Nat \cup {Unbounded}]
         /\ \A c \in Callers : left[c] \in Int /\ (left[c] # Unbounded => left[c] \in Nat)
<1>1. MIN_SPACING \in Nat \ {0} /\ ROOM \in Nat \ {0} /\ Unbounded = -1
  BY ConstantFacts
<1>2. /\ asking \in [Callers -> Providers] /\ \A c \in Callers : asking[c] \in Providers
      /\ at \in [Callers -> Stops]
      /\ timer \in [Callers -> Nat] /\ \A c \in Callers : timer[c] \in Nat
      /\ since \in [Providers -> 0..MIN_SPACING] /\ idle \in [Providers -> 0..MIN_SPACING]
      /\ left \in [Callers -> Nat \cup {Unbounded}]
  BY DEF TypeOK, Stops
<1>3. \A p \in Providers : since[p] \in Nat /\ since[p] <= MIN_SPACING /\ Wait(p) \in Nat
  <2>1. SUFFICES ASSUME NEW p \in Providers
                 PROVE  since[p] \in Nat /\ since[p] <= MIN_SPACING /\ Wait(p) \in Nat
    OBVIOUS
  <2>2. since[p] \in 0..MIN_SPACING
    BY <1>2
  <2> QED
    BY <1>1, <2>2 DEF Wait
<1>4. \A c \in Callers : left[c] \in Int /\ (left[c] # Unbounded => left[c] \in Nat)
  BY <1>1, <1>2
<1> QED
  BY <1>1, <1>2, <1>3, <1>4

Clocks ==
  /\ timer \in [Callers -> Nat]
  /\ since \in [Providers -> 0..MIN_SPACING] /\ idle \in [Providers -> 0..MIN_SPACING]
  /\ left \in [Callers -> Nat \cup {Unbounded}]

(* A provider's requests are spaced, and who sleeps has the room its       *)
(* request needs: the head of a chain is the only one that may send.       *)
LEMMA StepClocks ==
  ASSUME GeocodingConstants, TypeOK, ChainInv, SpacingInv, RoomToAnswer, Spaced, Next
  PROVE  Clocks' /\ SpacingInv' /\ RoomToAnswer' /\ Spaced'
<1> USE TypeFacts
<1>1. \A c \in Callers : at[c] = "sleep" => timer[c] = Wait(asking[c])
  BY DEF SpacingInv
<1>2. \A c \in Callers : at[c] = "sleep" => left[c] = Unbounded \/ left[c] >= timer[c] + ROOM
  BY DEF RoomToAnswer, HasLeft
<1>3. idle = since
  BY DEF SpacingInv
<1>4. SUFFICES /\ Clocks' /\ idle' = since' /\ Spaced'
               /\ \A c \in Callers : at'[c] = "sleep" =>
                    /\ timer'[c] = MIN_SPACING - since'[asking'[c]]
                    /\ left'[c] = Unbounded \/ left'[c] >= timer'[c] + ROOM
  BY DEF SpacingInv, RoomToAnswer, HasLeft, Wait
<1> DEFINE Goal ==
      /\ Clocks' /\ idle' = since' /\ Spaced'
      /\ \A c \in Callers : at'[c] = "sleep" =>
           /\ timer'[c] = MIN_SPACING - since'[asking'[c]]
           /\ left'[c] = Unbounded \/ left'[c] >= timer'[c] + ROOM
<1>5. ASSUME UNCHANGED clocks,
             \A d \in Callers : at'[d] = "sleep" => at[d] = "sleep" /\ asking'[d] = asking[d]
      PROVE  Goal
  BY <1>1, <1>2, <1>3, <1>5 DEF clocks, Clocks, Spaced, Wait
<1>6. ASSUME NEW c \in Callers, StaysOut(c) \/ JoinsFrom(c)  PROVE Goal
  <2>1. UNCHANGED clocks
    BY <1>6 DEF StaysOut, JoinsFrom
  <2>2. \A d \in Callers : at'[d] = "sleep" => at[d] = "sleep" /\ asking'[d] = asking[d]
    BY <1>6 DEF StaysOut, JoinsFrom, MovesOut, Out, Join
  <2> QED
    BY <1>5, <2>1, <2>2
<1>7. ASSUME NEW c \in Callers, Leaves(c)  PROVE Goal
  <2>1. \A d \in Callers : at'[d] = "sleep" => at[d] = "sleep" /\ d # c /\ asking'[d] = asking[d]
    BY <1>7 DEF Leaves, MovesOut, Out
  <2>2. CASE UNCHANGED clocks
    BY <1>5, <2>1, <2>2
  <2>3. CASE Send(c)
    <3> DEFINE p == asking[c]
    <3>1. /\ at[c] = "sleep" /\ timer[c] = 0 /\ p \in Providers /\ left' = left
          /\ since' = [since EXCEPT ![p] = 0] /\ idle' = [idle EXCEPT ![p] = 0]
          /\ spaced' = [spaced EXCEPT ![p] = spaced[p] /\ idle[p] = MIN_SPACING]
          /\ timer' = [timer EXCEPT ![c] = IF HasLeft(c, REQUEST_TIMEOUT) THEN REQUEST_TIMEOUT
                                           ELSE left[c]]
      BY <2>3 DEF Send
    <3> HIDE DEF p
    <3>2. idle[p] = MIN_SPACING
      <4>1. Wait(p) = 0
        BY <1>1, <3>1 DEF p
      <4> QED
        BY <1>3, <3>1, <4>1 DEF Wait
    <3>3. \A d \in Callers : at'[d] = "sleep" => asking[d] # p
      BY <1>7, <2>1 DEF ChainInv, Leaves, p
    <3>4. Spaced'
      BY <3>1, <3>2 DEF Spaced, TypeOK
    <3>5. (IF HasLeft(c, REQUEST_TIMEOUT) THEN REQUEST_TIMEOUT ELSE left[c]) \in Nat
      BY ConstantFacts DEF HasLeft
    <3>6. Clocks' /\ idle' = since'
      <4>1. 0 \in 0..MIN_SPACING
        OBVIOUS
      <4> QED
        BY <1>3, <3>1, <3>5, <4>1 DEF Clocks
    <3>7. ASSUME NEW d \in Callers, at'[d] = "sleep"
          PROVE  /\ timer'[d] = MIN_SPACING - since'[asking'[d]]
                 /\ left'[d] = Unbounded \/ left'[d] >= timer'[d] + ROOM
      <4>1. at[d] = "sleep" /\ asking'[d] = asking[d] /\ asking[d] # p /\ d # c
        BY <2>1, <3>3, <3>7
      <4>2. /\ timer'[d] = timer[d] /\ since'[asking'[d]] = since[asking[d]]
            /\ left'[d] = left[d]
        BY <3>1, <4>1
      <4> QED
        BY <1>1, <1>2, <4>1, <4>2 DEF Wait
    <3> QED
      BY <3>4, <3>6, <3>7
  <2> QED
    BY <1>7, <2>2, <2>3 DEF Leaves
<1>8. ASSUME NEW c \in Callers, StartSleep(c)  PROVE Goal
  <2>1. /\ at' = [at EXCEPT ![c] = "sleep"] /\ timer' = [timer EXCEPT ![c] = Wait(asking[c])]
        /\ UNCHANGED <<since, asking, left, idle, spaced>> /\ Fits(c)
    BY <1>8 DEF StartSleep, chains, ghosts
  <2>2. Wait(asking[c]) \in Nat /\ Wait(asking[c]) = MIN_SPACING - since[asking[c]]
    BY DEF Wait
  <2>3. left[c] = Unbounded \/ left[c] >= Wait(asking[c]) + ROOM
    BY <2>1 DEF Fits, HasLeft
  <2>4. Clocks' /\ idle' = since' /\ Spaced'
    BY <1>3, <2>1, <2>2 DEF Clocks, Spaced
  <2>5. ASSUME NEW d \in Callers, at'[d] = "sleep"
        PROVE  /\ timer'[d] = MIN_SPACING - since'[asking'[d]]
               /\ left'[d] = Unbounded \/ left'[d] >= timer'[d] + ROOM
    <3>1. CASE d = c
      <4>1. timer'[c] = Wait(asking[c]) /\ left' = left /\ since' = since /\ asking' = asking
        BY <2>1
      <4> QED
        BY <2>2, <2>3, <3>1, <4>1
    <3>2. CASE d # c
      <4>1. at[d] = "sleep" /\ timer'[d] = timer[d] /\ left' = left /\ since' = since
            /\ asking' = asking
        BY <2>1, <2>5, <3>2
      <4> QED
        BY <1>1, <1>2, <4>1 DEF Wait
    <3> QED
      BY <3>1, <3>2
  <2> QED
    BY <2>4, <2>5
<1>9. CASE Tick
  <2>1. /\ since' = [p \in Providers |-> More(since[p])] /\ idle' = [p \in Providers |-> More(idle[p])]
        /\ timer' = [c \in Callers |-> Less(timer[c])] /\ UNCHANGED <<at, asking, spaced>>
        /\ left' = [c \in Callers |-> IF left[c] = Unbounded \/ (c \in Users /\ at[c] = "start")
                                      THEN left[c] ELSE Less(left[c])]
    BY <1>9 DEF Tick
  <2>2. \A c \in Callers : Less(timer[c]) \in Nat
    BY DEF Less
  <2>3. \A p \in Providers : More(since[p]) \in 0..MIN_SPACING
    BY DEF More
  <2>4. \A c \in Callers : left[c] # Unbounded => Less(left[c]) \in Nat
    BY DEF Less
  <2>5. Clocks' /\ idle' = since' /\ Spaced'
    <3>1. timer' \in [Callers -> Nat]
      BY <2>1, <2>2
    <3>2. since' \in [Providers -> 0..MIN_SPACING] /\ idle' = since'
      BY <1>3, <2>1, <2>3
    <3>3. left' \in [Callers -> Nat \cup {Unbounded}]
      BY <2>1, <2>4
    <3> QED
      BY <2>1, <3>1, <3>2, <3>3 DEF Clocks, Spaced
  <2>6. ASSUME NEW c \in Callers, at'[c] = "sleep"
        PROVE  /\ timer'[c] = MIN_SPACING - since'[asking'[c]]
               /\ left'[c] = Unbounded \/ left'[c] >= timer'[c] + ROOM
    <3>1. at[c] = "sleep" /\ timer[c] # 0
      BY <1>9, <2>1, <2>6 DEF Tick, Due
    <3>2. /\ timer'[c] = Less(timer[c]) /\ asking' = asking
          /\ since'[asking[c]] = More(since[asking[c]])
          /\ left'[c] = IF left[c] = Unbounded THEN left[c] ELSE Less(left[c])
      BY <2>1, <3>1
    <3>3. timer[c] = MIN_SPACING - since[asking[c]]
      BY <1>1, <3>1 DEF Wait
    <3>4. timer'[c] = timer[c] - 1 /\ since'[asking[c]] = since[asking[c]] + 1
      BY <3>1, <3>2, <3>3 DEF Less, More
    <3>5. CASE left[c] = Unbounded
      BY <3>2, <3>3, <3>4, <3>5
    <3>6. CASE left[c] # Unbounded
      <4>1. left[c] >= timer[c] + ROOM /\ left[c] \in Nat
        BY <1>2, <3>1, <3>6
      <4>2. left'[c] = left[c] - 1
        BY <3>1, <3>2, <3>6, <4>1 DEF Less
      <4> QED
        BY SMTT(20), <3>2, <3>3, <3>4, <4>1, <4>2
    <3> QED
      BY <3>5, <3>6
  <2> QED
    BY <2>5, <2>6
<1> QED
  BY <1>6, <1>7, <1>8, <1>9, StepKind

(* -------------------------- answers and pins ----------------------------*)

LookedUp(w) == todo[w] # <<>> /\ Name(w) \notin seeded

Memory ==
  /\ cache \in [Names -> Answers \cup {NotCached}]
  /\ heard \in [Names -> SUBSET Answers]

LEMMA NameType ==
  ASSUME TypeOK, NEW w \in Places, todo[w] # <<>>
  PROVE  Name(w) \in Names /\ Tail(todo[w]) \in Seq(Names)
<1>1. todo[w] \in Seq(Names)
  BY DEF TypeOK
<1> QED
  BY <1>1, Popped DEF Name

(* An answer is remembered as heard, and kept by the rule of the cache.    *)
Remembers(w, a) ==
  /\ heard' = [heard EXCEPT ![Name(w)] = @ \cup {a}]
  /\ UNCHANGED cache \/ (Keeps(a) /\ cache' = [cache EXCEPT ![Name(w)] = a])

LEMMA StepMemory ==
  ASSUME GeocodingConstants, TypeOK, LookupInv, CacheIsHonest, Next
  PROVE  /\ UNCHANGED seeded /\ Memory' /\ CacheIsHonest'
         /\ \A n \in Names : heard[n] \subseteq heard'[n]
<1>1. Memory
  BY DEF TypeOK, Memory
<1>2. ASSUME UNCHANGED <<seeded, cache, heard>>
      PROVE  /\ UNCHANGED seeded /\ Memory' /\ CacheIsHonest'
             /\ \A n \in Names : heard[n] \subseteq heard'[n]
  BY <1>1, <1>2 DEF Memory, CacheIsHonest
<1>3. ASSUME NEW w \in Places, NEW a \in Answers, Name(w) \in Names, Remembers(w, a)
      PROVE  /\ Memory' /\ CacheIsHonest' /\ \A n \in Names : heard[n] \subseteq heard'[n]
  <2> DEFINE m == Name(w)
  <2>1. \A n \in Names : heard'[n] = IF n = m THEN heard[n] \cup {a} ELSE heard[n]
    BY <1>1, <1>3 DEF Memory, Remembers
  <2>2. heard' \in [Names -> SUBSET Answers]
    BY <1>1, <1>3 DEF Memory, Remembers
  <2>3. cache' \in [Names -> Answers \cup {NotCached}]
    BY <1>1, <1>3 DEF Memory, Remembers
  <2>4. m \in Names /\ (UNCHANGED cache \/ (Keeps(a) /\ cache' = [cache EXCEPT ![m] = a]))
    BY <1>3 DEF Remembers
  <2> HIDE DEF m
  <2>5. ASSUME NEW n \in Names, cache'[n] # NotCached
        PROVE  /\ cache'[n] \in heard'[n]
               /\ cache'[n].point = NoPoint => cache'[n].provider = "nominatim"
    <3>1. CASE cache'[n] = cache[n]
      BY <2>1, <2>5, <3>1 DEF CacheIsHonest
    <3>2. CASE cache'[n] # cache[n]
      <4>1. n = m /\ Keeps(a) /\ cache'[n] = a
        BY <1>1, <2>4, <3>2 DEF Memory
      <4> QED
        BY <2>1, <4>1 DEF Keeps
    <3> QED
      BY <3>1, <3>2
  <2> QED
    BY <2>1, <2>2, <2>3, <2>5 DEF Memory, CacheIsHonest
<1>4. CASE \E c \in Callers : Chain(c)
  BY <1>2, <1>4 DEF Chain, StartSleep, Send, NoSlot, ghosts
<1>5. ASSUME NEW w \in Places, NEW ok \in BOOLEAN, NEW a \in Answers, Answered(w, a, ok)
      PROVE  Name(w) \in Names /\ Remembers(w, a) /\ UNCHANGED seeded
  <2>1. todo[w] # <<>>
    BY <1>5 DEF Answered, LookupInv
  <2>2. Name(w) \in Names
    BY <2>1, NameType
  <2>3. heard' = [heard EXCEPT ![Name(w)] = @ \cup {a}] /\ UNCHANGED seeded
    BY <1>5 DEF Answered
  <2>4. UNCHANGED cache \/ (Keeps(a) /\ cache' = [cache EXCEPT ![Name(w)] = a])
    <3>1. CASE ~Keeps(a)
      BY <1>5, <3>1 DEF Answered
    <3>2. CASE Keeps(a) /\ ok
      BY <1>5, <3>2 DEF Answered
    <3>3. CASE Keeps(a) /\ ~ok
      <4>1. cache' = [cache EXCEPT ![Name(w)] = cache[Name(w)]]
        BY <1>5, <3>3 DEF Answered
      <4> QED
        BY <1>1, <4>1 DEF Memory
    <3> QED
      BY <3>1, <3>2, <3>3
  <2> QED
    BY <2>2, <2>3, <2>4 DEF Remembers
<1>6. ASSUME NEW w \in Places,
             PinSeeded(w) \/ NoneLeft(w) \/ Transient(w) \/ Refused(w)
               \/ \E ok \in BOOLEAN : ReadCache(w, ok)
      PROVE  UNCHANGED <<seeded, cache, heard>>
  BY <1>6 DEF PinSeeded, NoneLeft, Transient, Refused, ReadCache, ghosts
<1>7. CASE \E u \in Users : ReverseLookup(u)
  BY <1>2, <1>7 DEF ReverseLookup, StartReverse, ReverseEnds, ghosts
<1>8. CASE Tick
  BY <1>2, <1>8 DEF Tick
<1>9. CASE \E w \in Places : Forward(w)
  BY <1>2, <1>3, <1>5, <1>6, <1>9 DEF Forward
<1> QED
  BY <1>4, <1>7, <1>8, <1>9 DEF Next

(* What a step may do to the names still to try and to the pins.           *)
HonestPin(w, k, h) ==
  /\ k \in Pins
  /\ k.source \in Providers => k.name \in Names /\ Answer(k.source, k.point) \in h[k.name]
  /\ LOCATION[w].settlement \in seeded => k.point # "far"

LooksOn ==
  /\ UNCHANGED <<todo, pin>>
  /\ \A w \in Places : at'[w] \in {"chain", "sleep", "sent"} =>
       at[w] \in {"chain", "sleep", "sent"} \/ LookedUp(w)

Lookups(w) ==
  \/ NextName(w) /\ todo[w] # <<>>
  \/ \E k \in Pins : Done(w, k) /\ HonestPin(w, k, heard')

LEMMA GotIsHonest ==
  ASSUME GeocodingConstants, TypeOK, NEW w \in Places, LookedUp(w),
         NEW a \in Answers, a \in heard'[Name(w)], Got(w, a)
  PROVE  Lookups(w)
<1> DEFINE source == IF AtSettlement(w) THEN "settlement" ELSE a.provider
           k == Pin(Name(w), a.point, source)
<1>1. Name(w) \in Names
  BY NameType DEF LookedUp
<1>2. a.provider \in Providers /\ a.point \in Points \cup {NoPoint} /\ Answer(a.provider, a.point) = a
  BY AnswerFacts
<1>3. source \in Providers \cup {"seed", "settlement", "none", "address"}
      /\ (source \in Providers => source = a.provider)
  BY <1>2 DEF Providers
<1> HIDE DEF source
<1>4. k \in Pins /\ k.name = Name(w) /\ k.point = a.point /\ k.source = source
  BY <1>1, <1>2, <1>3, ConstantFacts
<1>5. CASE a.point # NoPoint /\ Plausible(w, a.point)
  <2>1. Done(w, k)
    BY <1>5 DEF Got, source
  <2> HIDE DEF k
  <2>2. k.source \in Providers => k.name \in Names /\ Answer(k.source, k.point) \in heard'[k.name]
    BY <1>1, <1>2, <1>3, <1>4
  <2>3. LOCATION[w].settlement \in seeded => k.point # "far"
    BY <1>4, <1>5 DEF Plausible, AtSettlement, LookedUp
  <2> QED
    BY <1>4, <2>1, <2>2, <2>3 DEF Lookups, HonestPin
<1>6. CASE ~(a.point # NoPoint /\ Plausible(w, a.point))
  BY <1>6 DEF Got, Lookups, LookedUp
<1> QED
  BY <1>5, <1>6

LEMMA PinKind ==
  ASSUME GeocodingConstants, TypeOK, LookupInv, CacheIsHonest, Next
  PROVE  \/ LooksOn
         \/ \E w \in Places : Lookups(w)
         \/ \E u \in Users, ok \in BOOLEAN : ReverseEnds(u, ok)
<1>1. \A w \in Places : at[w] \in {"chain", "sleep", "sent"} => LookedUp(w)
  BY DEF LookupInv, LookedUp, Waiting
<1>2. \A c \in Callers \ Users : c \in Places
  BY ConstantFacts
<1>3. ASSUME NEW c \in Callers, Chain(c)
      PROVE  LooksOn \/ \E w \in Places : Lookups(w)
  <2>1. CASE StartSleep(c) \/ Send(c)
    <3>1. UNCHANGED <<todo, pin>>
      BY <2>1 DEF StartSleep, Send
    <3>2. at[c] \in {"chain", "sleep"} /\ \A d \in Callers : at'[d] # at[d] => d = c
      BY <2>1 DEF StartSleep, Send, ItsTurn, TypeOK
    <3> QED
      BY <3>1, <3>2 DEF LooksOn, Callers
  <2>2. CASE NoSlot(c) /\ c \in Users
    <3>1. UNCHANGED <<todo, pin>> /\ at' = [at EXCEPT ![c] = "done"]
      BY <2>2 DEF NoSlot
    <3> QED
      BY <3>1 DEF LooksOn, TypeOK, Callers
  <2>3. CASE NoSlot(c) /\ c \notin Users
    <3>1. c \in Places /\ NextName(c) /\ at[c] = "chain"
      BY <1>2, <2>3 DEF NoSlot, ItsTurn
    <3> QED
      BY <1>1, <3>1 DEF Lookups, LookedUp
  <2> QED
    BY <1>3, <2>1, <2>2, <2>3 DEF Chain
<1>4. ASSUME NEW w \in Places, Forward(w)
      PROVE  LooksOn \/ Lookups(w)
  <2>1. CASE PinSeeded(w)
    <3> DEFINE source == IF AtSettlement(w) THEN "settlement" ELSE "seed"
               k == Pin(Name(w), "near", source)
    <3>1. Done(w, k) /\ Name(w) \in Names
      BY <2>1, NameType DEF PinSeeded
    <3>2. /\ "near" \in Points /\ source \notin Providers
          /\ source \in Providers \cup {"seed", "settlement", "none", "address"}
      BY DEF Points, Providers
    <3> HIDE DEF source
    <3>3. k \in Pins /\ k.point = "near" /\ k.source = source
      BY <3>1, <3>2, ConstantFacts
    <3> QED
      BY <3>1, <3>2, <3>3 DEF Lookups, HonestPin
  <2>2. CASE NoneLeft(w)
    <3>1. Done(w, NoPin)
      BY <2>2 DEF NoneLeft
    <3>2. NoPin \in Pins /\ NoPin.source = "none" /\ NoPin.point # "far" /\ "none" \notin Providers
      BY ConstantFacts DEF Points, Providers
    <3> QED
      BY <3>1, <3>2 DEF Lookups, HonestPin
  <2>3. CASE Transient(w) \/ Refused(w)
    <3>1. LookedUp(w)
      BY <1>1, <2>3 DEF Transient, Refused
    <3>2. NextName(w) \/ (Join(w, "photon") /\ UNCHANGED <<todo, pin>>)
      BY <2>3 DEF Transient, Refused
    <3>3. CASE NextName(w)
      BY <3>1, <3>3 DEF Lookups, LookedUp
    <3>4. CASE Join(w, "photon") /\ UNCHANGED <<todo, pin>>
      BY <3>1, <3>4 DEF Join, LooksOn, TypeOK, Callers
    <3> QED
      BY <3>2, <3>3, <3>4
  <2>4. ASSUME NEW ok \in BOOLEAN, ReadCache(w, ok)  PROVE LooksOn \/ Lookups(w)
    <3>1. LookedUp(w) /\ Name(w) \in Names
      BY <2>4, NameType DEF ReadCache, LookedUp
    <3>2. \/ NextName(w)
          \/ cache[Name(w)] # NotCached /\ Got(w, cache[Name(w)])
          \/ Join(w, "nominatim") /\ UNCHANGED <<todo, pin>>
      BY <2>4 DEF ReadCache
    <3>3. CASE NextName(w)
      BY <3>1, <3>3 DEF Lookups, LookedUp
    <3>4. CASE cache[Name(w)] # NotCached /\ Got(w, cache[Name(w)])
      <4>1. cache[Name(w)] \in Answers /\ cache[Name(w)] \in heard[Name(w)]
        BY <3>1, <3>4 DEF TypeOK, CacheIsHonest
      <4>2. cache[Name(w)] \in heard'[Name(w)]
        BY <3>1, <4>1, StepMemory
      <4> QED
        BY <3>1, <3>4, <4>1, <4>2, GotIsHonest
    <3>5. CASE Join(w, "nominatim") /\ UNCHANGED <<todo, pin>>
      BY <3>1, <3>5 DEF Join, LooksOn, TypeOK, Callers
    <3> QED
      BY <3>2, <3>3, <3>4, <3>5
  <2>5. ASSUME NEW ok \in BOOLEAN, NEW a \in Answers, Answered(w, a, ok)  PROVE Lookups(w)
    <3>1. LookedUp(w) /\ Name(w) \in Names
      BY <1>1, <2>5, NameType DEF Answered, LookedUp
    <3>2. NextName(w) \/ Got(w, a)
      BY <2>5 DEF Answered
    <3>3. a \in heard'[Name(w)]
      BY <2>5, <3>1 DEF Answered, TypeOK
    <3>4. CASE NextName(w)
      BY <3>1, <3>4 DEF Lookups, LookedUp
    <3> QED
      BY <3>1, <3>2, <3>3, <3>4, GotIsHonest
  <2> QED
    BY <1>4, <2>1, <2>2, <2>3, <2>4, <2>5 DEF Forward
<1>5. ASSUME NEW u \in Users, StartReverse(u)  PROVE LooksOn
  <2>1. UNCHANGED <<todo, pin>> /\ \A d \in Callers : d # u => at'[d] = at[d]
    BY <1>5 DEF StartReverse, Join, TypeOK
  <2>2. \A w \in Places : w # u /\ w \in Callers
    BY ConstantFacts
  <2> QED
    BY <2>1, <2>2 DEF LooksOn
<1>6. CASE Tick
  BY <1>6 DEF Tick, LooksOn
<1> QED
  BY <1>3, <1>4, <1>5, <1>6 DEF Next, ReverseLookup

(* Pins stay honest, and a lookup is at a name without a reference row.    *)
LEMMA StepPins ==
  ASSUME GeocodingConstants, TypeOK, LookupInv, CacheIsHonest, PinIsHonest, Next
  PROVE  /\ LookupInv' /\ PinIsHonest'
         /\ todo' \in [Places -> Seq(Names)] /\ pin' \in [Callers -> Pins]
<1>1. UNCHANGED seeded /\ \A n \in Names : heard[n] \subseteq heard'[n]
  BY StepMemory
<1>2. /\ todo \in [Places -> Seq(Names)] /\ pin \in [Callers -> Pins]
      /\ at \in [Callers -> Stops] /\ \A w \in Places : w \in Callers
  BY ConstantFacts DEF TypeOK, Pins, Stops
<1>3. ASSUME NEW w \in Places  PROVE HonestPin(w, pin[w], heard')
  <2>1. HonestPin(w, pin[w], heard)
    BY <1>2 DEF PinIsHonest, LookupInv, HonestPin
  <2> QED
    BY <1>1, <2>1 DEF HonestPin
<1>4. \A w \in Places : at[w] \in {"chain", "sleep", "sent"} => LookedUp(w)
  BY DEF LookupInv, LookedUp, Waiting
<1>5. SUFFICES /\ todo' \in [Places -> Seq(Names)] /\ pin' \in [Callers -> Pins]
               /\ \A w \in Places : HonestPin(w, pin'[w], heard')
               /\ \A w \in Places : at'[w] \in {"chain", "sleep", "sent"} =>
                    todo'[w] # <<>> /\ Head(todo'[w]) \notin seeded
  BY <1>1 DEF LookupInv, PinIsHonest, HonestPin, Waiting, Name
<1> DEFINE Goal ==
      /\ todo' \in [Places -> Seq(Names)] /\ pin' \in [Callers -> Pins]
      /\ \A w \in Places : HonestPin(w, pin'[w], heard')
      /\ \A w \in Places : at'[w] \in {"chain", "sleep", "sent"} =>
           todo'[w] # <<>> /\ Head(todo'[w]) \notin seeded
<1>6. CASE LooksOn
  <2>1. UNCHANGED <<todo, pin>>
    BY <1>6 DEF LooksOn
  <2>2. \A w \in Places : at'[w] \in {"chain", "sleep", "sent"} => LookedUp(w)
    BY <1>4, <1>6 DEF LooksOn
  <2> QED
    BY <1>2, <1>3, <2>1, <2>2 DEF LookedUp, Name
<1>7. ASSUME NEW w \in Places, NextName(w), todo[w] # <<>>  PROVE Goal
  <2>1. /\ todo' = [todo EXCEPT ![w] = Tail(todo[w])] /\ pin' = pin
        /\ at' = [at EXCEPT ![w] = "start"]
    BY <1>7 DEF NextName
  <2>2. Tail(todo[w]) \in Seq(Names)
    BY <1>7, NameType
  <2>3. todo' \in [Places -> Seq(Names)]
    BY <1>2, <2>1, <2>2
  <2>4. ASSUME NEW v \in Places, at'[v] \in {"chain", "sleep", "sent"}
        PROVE  todo'[v] # <<>> /\ Head(todo'[v]) \notin seeded
    <3>1. v # w /\ at'[v] = at[v] /\ todo'[v] = todo[v]
      BY <1>2, <2>1, <2>4
    <3> QED
      BY <1>4, <2>4, <3>1 DEF LookedUp, Name
  <2> QED
    BY <1>2, <1>3, <2>1, <2>3, <2>4
<1>8. ASSUME NEW w \in Places, NEW k \in Pins, Done(w, k), HonestPin(w, k, heard')
      PROVE  Goal
  <2>1. /\ todo' = [todo EXCEPT ![w] = <<>>] /\ pin' = [pin EXCEPT ![w] = k]
        /\ at' = [at EXCEPT ![w] = "done"]
    BY <1>8 DEF Done
  <2>2. todo' \in [Places -> Seq(Names)] /\ pin' \in [Callers -> Pins]
    BY <1>2, <2>1
  <2>3. ASSUME NEW v \in Places  PROVE HonestPin(v, pin'[v], heard')
    <3>1. pin'[v] = IF v = w THEN k ELSE pin[v]
      BY <1>2, <2>1
    <3> QED
      BY <1>3, <1>8, <3>1
  <2>4. ASSUME NEW v \in Places, at'[v] \in {"chain", "sleep", "sent"}
        PROVE  todo'[v] # <<>> /\ Head(todo'[v]) \notin seeded
    <3>1. v # w /\ at'[v] = at[v] /\ todo'[v] = todo[v]
      BY <1>2, <2>1, <2>4
    <3> QED
      BY <1>4, <2>4, <3>1 DEF LookedUp, Name
  <2> QED
    BY <2>2, <2>3, <2>4
<1>9. ASSUME NEW u \in Users, NEW ok \in BOOLEAN, ReverseEnds(u, ok)  PROVE Goal
  <2>1. /\ UNCHANGED todo /\ at' = [at EXCEPT ![u] = "done"]
        /\ pin' = [pin EXCEPT ![u].source = IF ok THEN "address" ELSE "none"]
    BY <1>9 DEF ReverseEnds
  <2>2. u \in Callers /\ u \notin Places
    BY ConstantFacts
  <2>3. pin' \in [Callers -> Pins]
    <3> DEFINE x == IF ok THEN "address" ELSE "none"
    <3>1. x \in Providers \cup {"seed", "settlement", "none", "address"}
      OBVIOUS
    <3>2. pin' = [pin EXCEPT ![u] = [pin[u] EXCEPT !.source = x]] /\ pin[u] \in Pins
      BY <1>2, <2>1, <2>2
    <3> HIDE DEF x
    <3>3. [pin[u] EXCEPT !.source = x] \in Pins
      BY <3>1, <3>2 DEF Pins
    <3> QED
      BY <1>2, <3>2, <3>3
  <2>4. \A v \in Places : pin'[v] = pin[v] /\ at'[v] = at[v]
    BY <1>2, <2>1, <2>2
  <2> QED
    BY <1>2, <1>3, <1>4, <2>1, <2>3, <2>4 DEF LookedUp, Name
<1> QED
  BY <1>6, <1>7, <1>8, <1>9, PinKind DEF Lookups

(* ------------------------------ the invariant ---------------------------*)

(* The fields that no invariant above is about.                            *)
LEMMA StepPlaces ==
  ASSUME GeocodingConstants, TypeOK, ChainInv, Next
  PROVE  /\ at' \in [Callers -> Stops] /\ asking' \in [Callers -> Providers]
         /\ faults' \in 0..MaxFaults
<1>1. /\ at \in [Callers -> Stops] /\ asking \in [Callers -> Providers]
      /\ faults \in 0..MaxFaults /\ MaxFaults \in Nat
  BY ConstantFacts DEF TypeOK, Stops
<1>2. at' \in [Callers -> Stops] /\ asking' \in [Callers -> Providers]
  <2>1. ASSUME NEW c \in Callers, StaysOut(c) \/ JoinsFrom(c) \/ Leaves(c) \/ StartSleep(c)
        PROVE  at' \in [Callers -> Stops] /\ asking' \in [Callers -> Providers]
    BY ZenonT(40), <1>1, <2>1 DEF StaysOut, JoinsFrom, Leaves, StartSleep, MovesOut, Join, Out, Stops
  <2>2. CASE Tick
    BY <1>1, <2>2 DEF Tick
  <2> QED
    BY <2>1, <2>2, StepKind
<1>3. faults' \in 0..MaxFaults
  <2>1. \A ok \in BOOLEAN : D1(ok) => faults' \in 0..MaxFaults
    BY <1>1 DEF D1, Fault
  <2>2. \A ok \in BOOLEAN, w \in Places, a \in Answers : Answered(w, a, ok) => UNCHANGED faults \/ D1(ok)
    BY DEF Answered
  <2>3. \A ok \in BOOLEAN, w \in Places : ReadCache(w, ok) => D1(ok)
    BY DEF ReadCache
  <2>4. \A w \in Places : PinSeeded(w) \/ NoneLeft(w) \/ Transient(w) \/ Refused(w) => UNCHANGED faults
    BY DEF PinSeeded, NoneLeft, Transient, Refused
  <2>5. \A w \in Places : Forward(w) => faults' \in 0..MaxFaults
    BY <1>1, <2>1, <2>2, <2>3, <2>4 DEF Forward
  <2>6. \A c \in Callers : Chain(c) => UNCHANGED faults
    BY DEF Chain, StartSleep, Send, NoSlot
  <2>7. \A u \in Users : ReverseLookup(u) => UNCHANGED faults
    BY DEF ReverseLookup, StartReverse, ReverseEnds
  <2>8. Tick => UNCHANGED faults
    BY DEF Tick
  <2> QED
    BY <1>1, <2>5, <2>6, <2>7, <2>8 DEF Next
<1> QED
  BY <1>2, <1>3

LEMMA StepSpaced ==
  ASSUME GeocodingConstants, TypeOK, Next
  PROVE  spaced' \in [Providers -> BOOLEAN]
<1>1. \A c \in Callers : Send(c) => spaced' \in [Providers -> BOOLEAN]
  BY DEF Send, TypeOK
<1>2. \A c \in Callers : Chain(c) => Send(c) \/ UNCHANGED spaced
  BY DEF Chain, StartSleep, NoSlot, ghosts
<1>3. \A w \in Places : Forward(w) => UNCHANGED spaced
  BY DEF Forward, PinSeeded, NoneLeft, Transient, Refused, ReadCache, Answered, ghosts
<1>4. \A u \in Users : ReverseLookup(u) => UNCHANGED spaced
  BY DEF ReverseLookup, StartReverse, ReverseEnds, ghosts
<1>5. Tick => UNCHANGED spaced
  BY DEF Tick
<1>6. spaced \in [Providers -> BOOLEAN]
  BY DEF TypeOK
<1> QED
  BY <1>1, <1>2, <1>3, <1>4, <1>5, <1>6 DEF Next

LEMMA NextIInv ==
  ASSUME GeocodingConstants, IInv, [Next]_vars
  PROVE  IInv'
<1>1. CASE Next
  <2>1. /\ TypeOK /\ Spaced /\ RoomToAnswer /\ CacheIsHonest /\ PinIsHonest
        /\ ChainInv /\ SpacingInv /\ LookupInv
    BY DEF IInv, ThrottleSafe, AnswersHonest
  <2>2. ChainInv' /\ queue' \in [Providers -> Seq(Callers)]
    BY <1>1, <2>1, StepChain
  <2>3. Clocks' /\ SpacingInv' /\ RoomToAnswer' /\ Spaced'
    BY <1>1, <2>1, StepClocks
  <2>4. UNCHANGED seeded /\ Memory' /\ CacheIsHonest'
    BY <1>1, <2>1, StepMemory
  <2>5. /\ LookupInv' /\ PinIsHonest'
        /\ todo' \in [Places -> Seq(Names)] /\ pin' \in [Callers -> Pins]
    BY <1>1, <2>1, StepPins
  <2>6. /\ at' \in [Callers -> Stops] /\ asking' \in [Callers -> Providers]
        /\ faults' \in 0..MaxFaults
    BY <1>1, <2>1, StepPlaces
  <2>7. spaced' \in [Providers -> BOOLEAN]
    BY <1>1, <2>1, StepSpaced
  <2>8. TypeOK'
    BY <2>1, <2>2, <2>3, <2>4, <2>5, <2>6, <2>7 DEF TypeOK, Clocks, Memory, Pins, Stops
  <2> QED
    BY <2>2, <2>3, <2>4, <2>5, <2>8 DEF IInv, ThrottleSafe, AnswersHonest
<1>2. CASE UNCHANGED vars
  <2> USE <1>2 DEF vars, chains, ghosts
  <2>1. TypeOK' /\ Spaced'
    BY DEF IInv, ThrottleSafe, TypeOK, Spaced
  <2>2. RoomToAnswer' /\ SpacingInv'
    BY DEF IInv, RoomToAnswer, SpacingInv, HasLeft, Wait
  <2>3. CacheIsHonest' /\ PinIsHonest'
    BY DEF IInv, AnswersHonest, CacheIsHonest, PinIsHonest
  <2>4. ChainInv'
    BY DEF IInv, ChainInv, Waiting
  <2>5. LookupInv'
    BY DEF IInv, LookupInv, Waiting, Name
  <2> QED
    BY <2>1, <2>2, <2>3, <2>4, <2>5 DEF IInv, ThrottleSafe, AnswersHonest
<1> QED
  BY <1>1, <1>2

LEMMA InitIInv ==
  ASSUME GeocodingConstants, Init
  PROVE  IInv
<1> USE ConstantFacts
<1>1. \A w \in Places : Candidates(w) \in Seq(Names)
  BY CandidatesType
<1>2. NoPin \in Pins
  OBVIOUS
<1>3. TypeOK
  <2>1. /\ seeded \subseteq Names
        /\ cache \in [Names -> Answers \cup {NotCached}]
        /\ heard \in [Names -> SUBSET Answers]
    BY DEF Init
  <2>2. queue \in [Providers -> Seq(Callers)] /\ todo \in [Places -> Seq(Names)]
    BY <1>1 DEF Init
  <2>3. MIN_SPACING \in 0..MIN_SPACING /\ 0 \in 0..MaxFaults
    OBVIOUS
  <2>4. /\ since \in [Providers -> 0..MIN_SPACING] /\ idle \in [Providers -> 0..MIN_SPACING]
        /\ timer \in [Callers -> Nat] /\ faults \in 0..MaxFaults
    BY <2>3 DEF Init
  <2>5. /\ at \in [Callers -> Stops] /\ asking \in [Callers -> Providers]
        /\ pin \in [Callers -> Pins]
    BY <1>2 DEF Init, Stops, Providers
  <2>6. left \in [Callers -> Nat \cup {Unbounded}]
    BY DEF Init, GeocodingConstants
  <2>7. spaced \in [Providers -> BOOLEAN]
    BY DEF Init
  <2> QED
    BY <2>1, <2>2, <2>4, <2>5, <2>6, <2>7 DEF TypeOK, Pins, Stops
<1>4. Spaced /\ SpacingInv /\ RoomToAnswer
  BY DEF Init, Spaced, SpacingInv, RoomToAnswer
<1>5. CacheIsHonest
  BY DEF Init, CacheIsHonest
<1>6. PinIsHonest /\ LookupInv
  <2>1. \A w \in Places : at[w] = "start" /\ pin[w] = NoPin
    BY DEF Init
  <2>2. NoPin.source = "none" /\ NoPin.point = NoPoint /\ "far" \in Points
        /\ "none" \notin Providers
    BY DEF Points, Providers
  <2> QED
    BY <2>1, <2>2 DEF PinIsHonest, LookupInv, Waiting
<1>7. ChainInv
  <2>1. \A p \in Providers : DOMAIN queue[p] = {}
    BY DEF Init
  <2>2. \A c \in Callers : at[c] = "start"
    BY DEF Init
  <2> QED
    BY <2>1, <2>2 DEF ChainInv, Waiting
<1> QED
  BY <1>3, <1>4, <1>5, <1>6, <1>7 DEF IInv, ThrottleSafe, AnswersHonest

(* The inductive invariant of the lookups: every conjunct of IInv holds    *)
(* whatever callers, providers, timers and the cache do (geocoding.ts,     *)
(* placeLocation).                                                         *)
THEOREM Invariance == Spec => []IInv
<1>1. Init => IInv
  BY InitIInv, GeocodingConstants
<1>2. IInv /\ [Next]_vars => IInv'
  BY NextIInv, GeocodingConstants
<1> QED
  BY <1>1, <1>2, PTL DEF Spec

(* However many lookups run at once, each provider gets its requests at    *)
(* least MIN_SPACING apart (slotChain, reserve).                           *)
THEOREM ThrottleIsSafe == Spec => []ThrottleSafe
<1>1. IInv => ThrottleSafe
  BY DEF IInv
<1> QED
  BY <1>1, Invariance, PTL

(* A lookup that has been given its slot has room for its request before   *)
(* its own deadline when the slot comes (reserve).                         *)
THEOREM SlotLeavesRoom == Spec => []RoomToAnswer
<1>1. IInv => RoomToAnswer
  BY DEF IInv
<1> QED
  BY <1>1, Invariance, PTL

(* A cached answer and a pin are what a provider said of that very name, a *)
(* cached miss is the primary's, and no pin is out of its settlement's     *)
(* reach (geocode, placeLocation).                                         *)
THEOREM AnswersAreHonest == Spec => []AnswersHonest
<1>1. IInv => AnswersHonest
  BY DEF IInv
<1> QED
  BY <1>1, Invariance, PTL

(***************************************************************************)
(* One outbound call.                                                      *)
(***************************************************************************)

(* Two of the three attempts are the primary's, whatever the fallback is.  *)
LEMMA PrimaryTwice ==
  ASSUME NEW fallback
  PROVE  Cardinality({n \in 1..ATTEMPTS : AttemptModels(fallback)[n] = "primary"}) >= 2
<1> DEFINE S == {n \in 1..ATTEMPTS : AttemptModels(fallback)[n] = "primary"}
<1>1. 1 \in S /\ 3 \in S
  BY DEF AttemptModels, ATTEMPTS
<1>2. IsFiniteSet(S)
  <2>1. IsFiniteSet(1..ATTEMPTS)
    BY FS_Interval, 1 \in Int, 3 \in Int DEF ATTEMPTS
  <2> QED
    BY <2>1, FS_Subset
<1>3. IsFiniteSet({1, 3}) /\ Cardinality({1, 3}) = 2
  <2>1. IsFiniteSet({1}) /\ Cardinality({1}) = 1
    BY FS_Singleton
  <2>2. {1} \cup {3} = {1, 3} /\ 3 \notin {1}
    OBVIOUS
  <2>3. IsFiniteSet({1} \cup {3}) /\ Cardinality({1} \cup {3}) = Cardinality({1}) + 1
    BY <2>1, <2>2, FS_AddElement
  <2> QED
    BY <2>1, <2>2, <2>3
<1> HIDE DEF S
<1>4. Cardinality({1, 3}) <= Cardinality(S)
  BY <1>1, <1>2, FS_Subset
<1>5. Cardinality(S) \in Nat
  BY <1>2, FS_CardinalityType
<1> QED
  BY <1>3, <1>4, <1>5 DEF S

(* The pause and what a call needs are times.                              *)
LEMMA Times ==
  ASSUME CallConstants, CallTypeOK
  PROVE  /\ Left \in Int /\ Left = deadline - now
         /\ NEED[purpose] \in Nat /\ TIMEOUT[purpose] \in Nat \ {0}
         /\ Pause \in Nat
<1>1. purpose \in Kinds /\ attempt \in Nat /\ deadline \in Int /\ now \in Nat
  BY DEF CallTypeOK, ATTEMPTS
<1>2. NEED[purpose] \in Nat /\ TIMEOUT[purpose] \in Nat \ {0} /\ PAUSE[purpose] \in Nat
  BY <1>1 DEF CallConstants
<1>3. PAUSE[purpose] * attempt \in Nat
  <2> DEFINE p == PAUSE[purpose]
  <2>1. p \in Nat
    BY <1>2
  <2> HIDE DEF p
  <2>2. p * attempt \in Nat
    BY <1>1, <2>1
  <2> QED
    BY <2>2 DEF p
<1> QED
  BY <1>1, <1>2, <1>3 DEF Left, Pause

(* A failed attempt is paused after while there is another and time for it *)
(* (sleepWithin).                                                          *)
LEMMA RetryStep ==
  ASSUME CallConstants, CallInv, step = "asked", NEW why \in {"busy", "broken"}, Retry(why)
  PROVE  CallInv'
<1>1. /\ Left \in Int /\ Left = deadline - now /\ NEED[purpose] \in Nat /\ Pause \in Nat
      /\ CallTypeOK /\ WaitInv /\ AttemptsWellSpent /\ now <= deadline
  BY Times DEF CallInv, WaitInv, CallTypeOK
<1>2. UNCHANGED <<purpose, deadline, models, now, attempt>> /\ answer' = why
  BY DEF Retry, Same
<1>3. UNCHANGED <<Left, Pause>>
  BY <1>2 DEF Left, Pause
<1>4. \/ attempt < ATTEMPTS /\ Left > Pause /\ step' = "pause" /\ until' = now + Pause
      \/ ~(attempt < ATTEMPTS /\ Left > Pause) /\ step' = "done" /\ until' = until
  BY DEF Retry, CanPause
<1>5. CallTypeOK'
  BY <1>1, <1>2, <1>4 DEF CallTypeOK
<1>6. WaitInv'
  BY <1>1, <1>2, <1>4 DEF WaitInv, CallTypeOK
<1>7. InTime' /\ GoneIsFinal'
  BY <1>1, <1>2 DEF InTime, GoneIsFinal
<1>8. GivesUpForTimeOnly'
  BY <1>1, <1>2, <1>3, <1>4 DEF GivesUpForTimeOnly, CallTypeOK
<1>9. PrimaryAskedTwice'
  BY <1>2, <1>5, PrimaryTwice DEF PrimaryAskedTwice, CallTypeOK
<1> QED
  BY <1>5, <1>6, <1>7, <1>8, <1>9 DEF CallInv, AttemptsWellSpent

LEMMA CallStep ==
  ASSUME CallConstants, CallInv, [CallNext]_callVars
  PROVE  CallInv'
<1>1. /\ Left \in Int /\ Left = deadline - now /\ Pause \in Nat
      /\ NEED[purpose] \in Nat /\ TIMEOUT[purpose] \in Nat \ {0}
      /\ CallTypeOK /\ WaitInv
      /\ InTime /\ GoneIsFinal /\ GivesUpForTimeOnly /\ PrimaryAskedTwice
  BY Times DEF CallInv, AttemptsWellSpent
<1>2. CallTypeOK' => PrimaryAskedTwice'
  BY PrimaryTwice DEF PrimaryAskedTwice, CallTypeOK
<1> USE <1>1, <1>2 DEF CallInv, AttemptsWellSpent, InTime, GoneIsFinal
<1>3. CASE Call
  <2>1. CallTypeOK'
    BY <1>3 DEF Call, CallTypeOK, CallConstants
  <2>2. WaitInv' /\ InTime' /\ GoneIsFinal'
    BY <1>3 DEF Call, WaitInv
  <2>3. GivesUpForTimeOnly'
    BY <1>3 DEF Call, GivesUpForTimeOnly
  <2> QED
    BY <2>1, <2>2, <2>3
<1>4. CASE Ask
  <2>1. UNCHANGED <<purpose, deadline, models, now, attempt, answer>> /\ step = "next" /\ step' = "asked"
    BY <1>4 DEF Ask, Same
  <2>2. until' = now + (IF TIMEOUT[purpose] < Left THEN TIMEOUT[purpose] ELSE Left)
    BY <1>4 DEF Ask, Timer
  <2>3. Left > 0
    BY <1>4 DEF Ask, Expired
  <2>4. until' \in Nat /\ now <= until' /\ until' <= deadline
    BY <2>2, <2>3 DEF CallTypeOK
  <2>5. CallTypeOK' /\ WaitInv'
    BY <2>1, <2>4 DEF CallTypeOK, WaitInv
  <2> QED
    BY <2>1, <2>5 DEF GivesUpForTimeOnly
<1>5. CASE NoBudget
  <2>1. UNCHANGED <<purpose, deadline, models, now, attempt, until, answer>> /\ step = "next" /\ step' = "done"
    BY <1>5 DEF NoBudget, Same
  <2>2. Left' <= NEED[purpose]'
    BY <1>5, <2>1 DEF NoBudget, Expired, Left
  <2>3. CallTypeOK' /\ WaitInv'
    BY <2>1 DEF CallTypeOK, WaitInv
  <2> QED
    BY <2>1, <2>2, <2>3 DEF GivesUpForTimeOnly
<1>6. CASE AnswerComes \/ Gone \/ BodyRead \/ BodyLost
  <2>1. UNCHANGED <<purpose, deadline, models, now, attempt, until>>
    BY <1>6 DEF AnswerComes, Gone, BodyRead, BodyLost, Same
  <2>2. /\ step \in {"asked", "body"} /\ step' \in {"body", "done"}
        /\ answer' \in {"ok", "gone", "broken"} /\ (answer' = "gone" => step' = "done")
        /\ step' = "body" => answer' = "ok" /\ step = "asked"
    BY <1>6 DEF AnswerComes, Gone, BodyRead, BodyLost, WaitInv
  <2>3. CallTypeOK'
    BY <2>1, <2>2 DEF CallTypeOK
  <2>4. WaitInv'
    BY <2>1, <2>2 DEF WaitInv
  <2> QED
    BY <2>1, <2>2, <2>3, <2>4 DEF GivesUpForTimeOnly
<1>7. CASE AnswerFails
  BY <1>7, RetryStep DEF AnswerFails
<1>8. CASE TimesOut
  BY <1>8, RetryStep DEF TimesOut
<1>9. CASE Resume
  <2>1. /\ UNCHANGED <<purpose, deadline, models, now, until, answer>>
        /\ step = "pause" /\ step' = "next" /\ attempt' = attempt + 1
    BY <1>9 DEF Resume, Same
  <2>2. attempt' \in 1..ATTEMPTS
    BY <2>1 DEF WaitInv, CallTypeOK, ATTEMPTS
  <2>3. CallTypeOK' /\ WaitInv'
    BY <2>1, <2>2 DEF CallTypeOK, WaitInv
  <2> QED
    BY <2>1, <2>3 DEF GivesUpForTimeOnly
<1>10. CASE TimePasses
  <2>1. /\ UNCHANGED <<purpose, deadline, models, attempt, until, step, answer>>
        /\ step \in {"asked", "body", "pause"} /\ now < until /\ now' = now + 1
    BY <1>10 DEF TimePasses, Same
  <2>2. now' \in Nat /\ now' <= until' /\ until' <= deadline'
    BY <2>1 DEF WaitInv, CallTypeOK
  <2>3. CallTypeOK' /\ WaitInv'
    BY <2>1, <2>2 DEF CallTypeOK, WaitInv
  <2>4. InTime'
    BY <2>1, <2>2, <2>3 DEF CallTypeOK
  <2> QED
    BY <2>1, <2>3, <2>4 DEF GivesUpForTimeOnly
<1>11. CASE UNCHANGED callVars
  BY <1>11 DEF callVars, CallTypeOK, WaitInv, GivesUpForTimeOnly, PrimaryAskedTwice, Left, Pause
<1> QED
  BY <1>3, <1>4, <1>5, <1>6, <1>7, <1>8, <1>9, <1>10, <1>11 DEF CallNext

(* A call ends before its deadline, gives up early only for want of time,  *)
(* never asks again for a page that is gone, and asks the primary model    *)
(* twice of three times (fetchPage, aiParse, attemptModels).               *)
THEOREM CallsAreWellSpent == CallSpec => []AttemptsWellSpent
<1>1. CallInit => CallInv
  <2> SUFFICES ASSUME CallInit PROVE CallInv
    OBVIOUS
  <2>1. CallTypeOK
    BY DEF CallInit, CallTypeOK, Kinds, ATTEMPTS
  <2>2. PrimaryAskedTwice
    BY <2>1, PrimaryTwice DEF PrimaryAskedTwice, CallTypeOK
  <2> QED
    BY <2>1, <2>2 DEF CallInit, CallInv, WaitInv, AttemptsWellSpent, InTime, GoneIsFinal, GivesUpForTimeOnly
<1>2. CallInv /\ [CallNext]_callVars => CallInv'
  BY CallStep, CallConstants
<1>3. CallInv => AttemptsWellSpent
  BY DEF CallInv
<1> QED
  BY <1>1, <1>2, <1>3, PTL DEF CallSpec
=============================================================================
