----------------------------- MODULE IngestTick ------------------------------
(***************************************************************************)
(* The cron side of the Worker (index.ts, ingestion/runner.ts): which      *)
(* sources a tick runs and in which order, under one budget; the heartbeat *)
(* and the per-source record it leaves in D1; what the health route reads  *)
(* from them; the daily clean-up.  Time is counted in ticks, and inside a  *)
(* tick in units of which the budget holds DEADLINE.                       *)
(***************************************************************************)
EXTENDS Faults, FiniteSets, SequencesExt

CONSTANTS
  SOURCES,      \* the sources, in the order of the code
  Minutes,      \* SOURCE_INTERVAL_MINUTES
  QuietTicks,   \* ticks a source may find nothing
  DEADLINE,     \* DEADLINE_MS, in units
  Jobs,         \* number of RETENTION_JOBS
  MaxTick       \* bound: ticks in one behaviour

Sources == ToSet(SOURCES)
N == Len(SOURCES)

ASSUME IngestTickConstants ==
  /\ SOURCES \in Seq(Sources) /\ N > 0 /\ IsInjective(SOURCES)
  /\ Minutes \in [Sources -> Nat \ {0}]
  /\ QuietTicks \in [Sources -> Nat]
  /\ DEADLINE \in Nat \ {0} /\ Jobs \in Nat
  /\ MaxTick \in Nat /\ MaxTick >= N /\ MaxFaults \in Nat

VARIABLES
  tick,      \* number of the current or last tick
  pc,        \* where the tick is, "idle" between ticks
  due,       \* sources the tick has still to run
  current,   \* the source it is at, NoSource without one
  spent,     \* units of its budget used
  running,   \* sources with work under way in the tick's isolate
  observed,  \* what the last run reported
  started, completed,  \* ingest_health: ticks, None without one
  firstRun, itemsAt,   \* source_health: ticks, None without one
  job,       \* retention job the clean-up is at, 0 between clean-ups
  lastRun,   \* history: the tick each source last ran in
  lastFound, \* history: the tick its parser last found something in
  ended,     \* history: how the last tick with a recorded start ended
  overdue    \* history: jobs that have not run since the last clean-up, and why

work == <<due, current>>
heartbeat == <<started, completed>>
sourceHealth == <<firstRun, itemsAt>>
cleanup == <<job, overdue>>
tickGhosts == <<lastRun, lastFound, ended>>
tickVars == <<tick, pc, work, spent, running, observed, heartbeat, sourceHealth, cleanup,
              faults, tickGhosts>>

None == -1
(* "nothing" is an empty page, a parse error or a fetch error.             *)
Outcomes == {"items", "nothing"}
NothingObserved == "null"
NoSource == "none"

TickInit ==
  /\ tick \in 0..(N - 1)
  /\ pc = "idle" /\ due = {} /\ current = NoSource
  /\ spent = 0 /\ running = {}
  /\ observed = NothingObserved
  /\ started = None /\ completed = None
  /\ firstRun = [s \in Sources |-> None] /\ itemsAt = [s \in Sources |-> None]
  /\ job = 0 /\ overdue = [j \in 1..Jobs |-> "no"]
  /\ faults = 0
  /\ lastRun = [s \in Sources |-> tick] /\ lastFound = [s \in Sources |-> None]
  /\ ended = "none"

TickTypeOK ==
  /\ tick \in 0..MaxTick
  /\ pc \in {"idle", "loop", "run", "record", "complete"}
  /\ due \subseteq Sources /\ spent \in 0..DEADLINE
  /\ IF pc \in {"run", "record"} THEN current \in Sources ELSE current = NoSource
  /\ running \subseteq Sources
  /\ observed \in Outcomes \cup {NothingObserved}
  /\ {started, completed} \subseteq 0..MaxTick \cup {None}
  /\ {firstRun, itemsAt, lastFound} \subseteq [Sources -> 0..MaxTick \cup {None}]
  /\ job \in 0..Jobs
  /\ overdue \in [1..Jobs -> {"no", "failed", "killed", "not reached"}]
  /\ faults \in 0..MaxFaults
  /\ lastRun \in [Sources -> 0..MaxTick]
  /\ ended \in {"none", "under way", "done", "killed", "unrecorded"}

(* ------------------------------ schedule -------------------------------- *)

Phase(s) == CHOOSE i \in 0..(N - 1) : SOURCES[i + 1] = s

TICK_MINUTES == 15

(* ticksFor: a source waits a whole number of ticks, rounded up.           *)
Interval == [s \in Sources |-> (Minutes[s] + TICK_MINUTES - 1) \div TICK_MINUTES]

(* The code's intervals are one tick, or a whole number of rounds of the   *)
(* sources (SOURCE_INTERVAL_MINUTES: 15, or 240 with four sources).        *)
ASSUME IntervalsFitRounds == \A s \in Sources : Interval[s] = 1 \/ Interval[s] % N = 0

(* The place of a source in the list, rotated by the number of the tick.   *)
Place(s, t) == (Phase(s) - t) % N

(* Mutant: the phase is the place in the rotated list.                     *)
IsDueInRotation(s, t) == (t - Place(s, t)) % Interval[s] = 0

IsDue(s, t) == (t - Phase(s)) % Interval[s] = 0

(* ------------------------------ one tick -------------------------------- *)

(* markTickStarted, and the sources that are due.                          *)
StartTick(ok) ==
  /\ pc = "idle" /\ tick < MaxTick
  /\ tick' = tick + 1
  /\ started' = IF ok THEN tick' ELSE started
  /\ ended' = IF ok THEN "under way" ELSE ended
  /\ due' = {s \in Sources : IsDue(s, tick')}
  /\ spent' = 0
  /\ pc' = "loop"
  /\ D1(ok)
  /\ UNCHANGED <<current, running, observed, completed, sourceHealth, cleanup, lastRun,
                 lastFound>>

(* The next of them in the rotated list.                                   *)
StartSource ==
  /\ pc = "loop" /\ spent < DEADLINE
  /\ \E s \in due :
       /\ \A r \in due : Place(s, tick) <= Place(r, tick)
       /\ current' = s
       /\ due' = due \ {s}
       /\ running' = running \cup {s}
       /\ lastRun' = [lastRun EXCEPT ![s] = tick]
  /\ pc' = "run"
  /\ UNCHANGED <<tick, spent, observed, heartbeat, sourceHealth, cleanup, faults,
                 lastFound, ended>>

ToLoop == pc' = "loop" /\ current' = NoSource

(* The source returns what its parser found, or null, or throws.           *)
RunEnds ==
  /\ pc = "run"
  /\ \E units \in 1..(DEADLINE - spent) : spent' = spent + units
  /\ observed' \in Outcomes \cup {NothingObserved}
  /\ IF observed' = NothingObserved THEN ToLoop ELSE pc' = "record" /\ UNCHANGED current
  /\ running' = running \ {current}
  /\ lastFound' = IF observed' = "items" THEN [lastFound EXCEPT ![current] = tick]
                  ELSE lastFound
  /\ UNCHANGED <<tick, due, heartbeat, sourceHealth, cleanup, faults, lastRun, ended>>

(* Mutant: a source gets a share of the budget, and is then left behind.   *)
RunTimesOutEarly ==
  /\ pc = "run"
  /\ spent' = spent + 1
  /\ ToLoop
  /\ UNCHANGED <<tick, due, running, observed, heartbeat, sourceHealth, cleanup, faults, tickGhosts>>

(* withTimeout: the runner stops waiting at the deadline.  The source goes *)
(* on: what it awaits has no abort.                                        *)
RunTimesOut ==
  /\ pc = "run"
  /\ spent' = DEADLINE
  /\ ToLoop
  /\ UNCHANGED <<tick, due, running, observed, heartbeat, sourceHealth, cleanup, faults, tickGhosts>>

AbandonedEnds ==
  /\ pc # "run" /\ running # {}
  /\ running' = {}
  /\ UNCHANGED <<tick, pc, work, spent, observed, heartbeat, sourceHealth, cleanup, faults,
                 tickGhosts>>

(* Mutant: every run moves items_at.                                       *)
RecordAnyRun(ok) ==
  LET s == current IN
  /\ pc = "record"
  /\ firstRun' = IF ok /\ firstRun[s] = None THEN [firstRun EXCEPT ![s] = tick] ELSE firstRun
  /\ itemsAt' = IF ok THEN [itemsAt EXCEPT ![s] = tick] ELSE itemsAt
  /\ ToLoop
  /\ D1(ok)
  /\ UNCHANGED <<tick, due, spent, running, observed, heartbeat, cleanup, tickGhosts>>

(* recordObservation, which swallows its failure.                          *)
Record(ok) ==
  LET s == current IN
  /\ pc = "record"
  /\ firstRun' = IF ok /\ firstRun[s] = None THEN [firstRun EXCEPT ![s] = tick] ELSE firstRun
  /\ itemsAt' = IF ok /\ observed = "items" THEN [itemsAt EXCEPT ![s] = tick] ELSE itemsAt
  /\ ToLoop
  /\ D1(ok)
  /\ UNCHANGED <<tick, due, spent, running, observed, heartbeat, cleanup, tickGhosts>>

(* The list is done or the deadline is reached.                            *)
StopLoop ==
  /\ pc = "loop"
  /\ due = {} \/ spent >= DEADLINE
  /\ pc' = "complete"
  /\ UNCHANGED <<tick, work, spent, running, observed, heartbeat, sourceHealth, cleanup,
                 faults, tickGhosts>>

Idle ==
  /\ pc' = "idle" /\ due' = {} /\ current' = NoSource
  /\ spent' = 0 /\ running' = {} /\ observed' = NothingObserved

Recorded == started = tick

(* markTickCompleted: an UPDATE of the row, if there is one.               *)
CompleteTick(ok) ==
  /\ pc = "complete"
  /\ completed' = IF ok /\ started # None THEN tick ELSE completed
  /\ ended' = IF ok THEN "done" ELSE IF Recorded THEN "unrecorded" ELSE ended
  /\ Idle
  /\ D1(ok)
  /\ UNCHANGED <<tick, started, sourceHealth, cleanup, lastRun, lastFound>>

(* Mutant: the heartbeat is completed in a `finally'.                      *)
KillCompletes ==
  /\ pc # "idle" /\ Fault
  /\ ended' = IF Recorded THEN "killed" ELSE ended
  /\ completed' = IF started # None THEN tick ELSE completed
  /\ Idle
  /\ UNCHANGED <<tick, started, sourceHealth, cleanup, lastRun, lastFound>>

(* The isolate dies on its CPU limit, or ingestion throws as a whole.      *)
Kill ==
  /\ pc # "idle" /\ Fault
  /\ ended' = IF Recorded THEN "killed" ELSE ended
  /\ Idle
  /\ UNCHANGED <<tick, heartbeat, sourceHealth, cleanup, lastRun, lastFound>>

(* ---------------------------- daily clean-up ---------------------------- *)

StartCleanup ==
  /\ job = 0 /\ pc = "idle" /\ Jobs > 0
  /\ job' = 1
  /\ overdue' = [j \in 1..Jobs |-> "not reached"]
  /\ UNCHANGED <<tick, pc, work, spent, running, observed, heartbeat, sourceHealth, faults,
                 tickGhosts>>

(* Mutant: a failed job ends the clean-up.                                 *)
RunJobOrStop(ok) ==
  /\ job # 0
  /\ overdue' = [overdue EXCEPT ![job] = IF ok THEN "no" ELSE "failed"]
  /\ job' = IF ok /\ job < Jobs THEN job + 1 ELSE 0
  /\ D1(ok)
  /\ UNCHANGED <<tick, pc, work, spent, running, observed, heartbeat, sourceHealth, tickGhosts>>

RunJob(ok) ==
  /\ job # 0
  /\ overdue' = [overdue EXCEPT ![job] = IF ok THEN "no" ELSE "failed"]
  /\ job' = IF job < Jobs THEN job + 1 ELSE 0
  /\ D1(ok)
  /\ UNCHANGED <<tick, pc, work, spent, running, observed, heartbeat, sourceHealth, tickGhosts>>

KillCleanup ==
  /\ job # 0 /\ Fault
  /\ overdue' = [j \in 1..Jobs |-> IF overdue[j] = "not reached" THEN "killed" ELSE overdue[j]]
  /\ job' = 0
  /\ UNCHANGED <<tick, pc, work, spent, running, observed, heartbeat, sourceHealth, tickGhosts>>

TickNext ==
  \/ StartSource \/ RunEnds \/ RunTimesOut \/ AbandonedEnds \/ StopLoop \/ Kill
  \/ \E ok \in BOOLEAN : StartTick(ok) \/ Record(ok) \/ CompleteTick(ok) \/ RunJob(ok)
  \/ StartCleanup \/ KillCleanup

TickSpec == TickInit /\ [][TickNext]_tickVars

(* ----------------------------- properties ------------------------------- *)

(* The crawl state has one writer: a source starts only when no other work *)
(* of the tick is under way, and the tick stays in its budget, although a  *)
(* source that is waited for no longer goes on running (withTimeout).      *)
OneSourceAtATime == Cardinality(running) <= 1 /\ spent <= DEADLINE

(* No source starves: even if every run of the others takes the whole      *)
(* budget, a source runs once in its interval, or once in a round of the   *)
(* sources (the rotation, the phases of isDue).                            *)
Turn(s) == IF Interval[s] > N THEN Interval[s] ELSE N

NoSourceStarves ==
  pc = "idle" /\ faults = 0 => \A s \in Sources : tick - lastRun[s] < Turn(s)

(* What makes it inductive: without a fault a source is run in every tick  *)
(* that is its turn, when it is the first of the rotated list.             *)
HasTurn(s, t) == (t - Phase(s)) % Turn(s) = 0

IsFirst(s) == pc = "loop" /\ spent = 0 /\ s \in due

TurnInv ==
  faults = 0 => \A s \in Sources :
    /\ \A t \in (lastRun[s] + 1)..(tick - 1) : ~HasTurn(s, t)
    /\ lastRun[s] < tick /\ HasTurn(s, tick) => IsFirst(s)

(* GET /health, started_but_never_completed.                               *)
NeverCompleted == started # None /\ (completed = None \/ started > completed)

(* A killed tick reads as one on the health route until a later tick ends, *)
(* and between ticks nothing else does but a lost completion write.        *)
HeartbeatTellsKills ==
  pc = "idle" => (NeverCompleted <=> ended \in {"killed", "unrecorded"})

(* What makes it inductive: a tick that is under way has not completed.    *)
HeartbeatInv ==
  /\ started <= tick /\ completed <= tick
  /\ pc # "idle" => completed < tick
  /\ ended = "under way" <=> pc # "idle" /\ Recorded
  /\ pc = "idle" \/ ~Recorded => (NeverCompleted <=> ended \in {"killed", "unrecorded"})

(* GET /health, assessSilence.                                             *)
Silent(s) ==
  firstRun[s] # None /\ tick - (IF itemsAt[s] # None THEN itemsAt[s] ELSE firstRun[s]) > QuietTicks[s]

(* A source that is recorded and found nothing for longer than its quiet   *)
(* spell is listed as silent, whatever became of its runs: records that    *)
(* failed, runs that were killed or timed out (recordSourceRun).           *)
SilenceIsTold ==
  \A s \in Sources :
    firstRun[s] # None /\ tick - firstRun[s] > QuietTicks[s]
      /\ (lastFound[s] = None \/ tick - lastFound[s] > QuietTicks[s])
    => Silent(s)

(* What makes it inductive: items_at is never later than the last find.    *)
FoundInv ==
  /\ \A s \in Sources : /\ itemsAt[s] # None => itemsAt[s] <= lastFound[s]
                       /\ lastFound[s] <= tick
  /\ pc = "record" /\ observed = "items" => lastFound[current] = tick

(* One retention job that fails does not keep the others from running.     *)
JobsIndependent == job = 0 => \A j \in 1..Jobs : overdue[j] # "not reached"

(* The tick between steps: one writer, within its budget, and every        *)
(* retention job reached (runIngestion, runDailyCleanup).                  *)
TickSafe ==
  /\ TickTypeOK
  /\ OneSourceAtATime
  /\ JobsIndependent

(* What makes it inductive: whoever runs on has used up the budget, and    *)
(* the clean-up has been at every job before the one it is at.             *)
RunningInv ==
  \/ running = {}
  \/ pc = "run" /\ running = {current}
  \/ pc # "idle" /\ spent = DEADLINE /\ \E s \in Sources : running = {s}

JobInv == job # 0 => \A j \in 1..(job - 1) : overdue[j] # "not reached"

TickInv ==
  /\ TickTypeOK /\ RunningInv /\ JobInv /\ JobsIndependent
  /\ TurnInv /\ HeartbeatInv /\ FoundInv
=============================================================================
