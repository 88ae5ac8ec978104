------------------------------ MODULE Schedule -------------------------------
(***************************************************************************)
(* When an alert is on: normalizeSchedule (shared/datetime.ts), the stored *)
(* envelope and windows, and what the app makes of them (utils/datetime.ts *)
(* and isActive of HomeScreen.tsx).  A day has Day clock readings, an      *)
(* instant is a day and a clock.                                           *)
(***************************************************************************)
EXTENDS Integers, FiniteSetsExt

CONSTANT Day   \* clock readings in a day
ASSUME DayAssumption == Day \in Nat \ {0, 1}

None == -1
Instant(date, clock) == date * Day + clock

(* normalizeDate and normalizeClock: 24:00 is the last reading of the day, *)
(* anything else out of range is no value.                                 *)
NormalizeDate(date) == IF date >= 0 THEN date ELSE None
NormalizeClock(clock) ==
  IF clock = Day THEN Day - 1 ELSE IF clock \in 0..(Day - 1) THEN clock ELSE None

(* The windows with a bound that can be read, and their places in the list.*)
Readable(windows) ==
  {w \in {[start |-> NormalizeClock(windows[i].start),
           end |-> NormalizeClock(windows[i].end), at |-> i] : i \in DOMAIN windows} :
     w.start # None \/ w.end # None}

(* The stable sort by start clock, an open start first.                    *)
Before(v, w) == v.start < w.start \/ (v.start = w.start /\ v.at < w.at)

FirstStart(windows) ==
  LET started == {w \in windows : w.start # None}
  IN IF started = {} THEN None
     ELSE (CHOOSE w \in started : \A v \in started : ~Before(v, w)).start
LastEnd(windows) ==
  LET ended == {w \in windows : w.end # None}
  IN IF ended = {} THEN None
     ELSE (CHOOSE w \in ended : \A v \in ended : ~Before(w, v)).end

NoWindows == [from |-> None, to |-> None, daily |-> {}]
NoTime == [start |-> None, end |-> None, windows |-> NoWindows]

(* The detail is kept when the envelope drops some and every bound is set. *)
KeepsWindows(windows, from, to) ==
  /\ windows # {} /\ \A w \in windows : None \notin {w.start, w.end}
  /\ from # to \/ \E v, w \in windows : v # w

From(raw, windows, today) ==
  IF NormalizeDate(raw.from) # None THEN NormalizeDate(raw.from)
  ELSE IF windows # {} THEN today ELSE None
To(raw, from) == IF NormalizeDate(raw.to) < from THEN from ELSE NormalizeDate(raw.to)

(* normalizeSchedule: the envelope, ending a day later when the only day's *)
(* last end precedes its first start.                                      *)
NormalizeSchedule(raw, today) ==
  LET windows == Readable(raw.windows)
      from == From(raw, windows, today)
      to == To(raw, from)
      start == FirstStart(windows)
      end == LastEnd(windows)
      overnight == from = to /\ None \notin {start, end} /\ end < start
  IN IF from = None THEN NoTime
     ELSE [start |-> IF start = None THEN None ELSE Instant(from, start),
           end |-> IF end = None THEN None
                   ELSE Instant(IF overnight THEN to + 1 ELSE to, end),
           windows |-> IF KeepsWindows(windows, from, to)
                       THEN [from |-> from, to |-> to, daily |-> windows] ELSE NoWindows]

(* Mutant: the small hours after the last day are left out.                *)
InWindowsOfTheRange(windows, at) ==
  LET date == at \div Day   clock == at % Day
  IN /\ date \in windows.from..windows.to
     /\ \E w \in windows.daily :
          IF w.end > w.start THEN w.start <= clock /\ clock < w.end
          ELSE clock >= w.start \/ clock < w.end

(* A window whose end is not after its start belongs to the day it starts. *)
InWindows(windows, at) ==
  LET date == at \div Day
      clock == at % Day
      On(d) == d \in windows.from..windows.to
  IN \E w \in windows.daily :
       \/ w.end > w.start /\ On(date) /\ w.start <= clock /\ clock < w.end
       \/ w.end <= w.start /\ On(date) /\ clock >= w.start
       \/ w.end <= w.start /\ On(date - 1) /\ clock < w.end

(* Without an end an alert is on for a day after its publication.          *)
ActiveUntil(end, created) == IF end = None THEN created + Day ELSE end

(* isActive: transport alerts never are.                                   *)
IsActive(category, time, created, now) ==
  /\ category # "vt"
  /\ IF time.windows # NoWindows THEN InWindows(time.windows, now)
     ELSE ActiveUntil(time.end, created) > now

-----------------------------------------------------------------------------
(* What the message publishes: each window on each day of the range.       *)
Published(raw, today) ==
  LET windows == Readable(raw.windows)
      from == From(raw, windows, today)
      Hours(d, w) == Instant(d, w.start)..
                       (Instant(IF w.end < w.start THEN d + 1 ELSE d, w.end) - 1)
  IN UNION {Hours(d, w) : d \in from..To(raw, from), w \in windows}

Closed(raw) ==
  LET windows == Readable(raw.windows)
  IN windows # {} /\ \A w \in windows : None \notin {w.start, w.end} /\ w.start # w.end

OnExactly(time, published, created) ==
  LET IsOn(now) == IsActive("vik", time, created, now)
  IN \A now \in created..(Max(published \cup {created}) + 2 * Day) :
       /\ now \in published => IsOn(now)
       /\ time.windows # NoWindows /\ IsOn(now) => now \in published
       /\ IsOn(now) => \E later \in published : later >= now

(* An alert whose message closes every window is on at every instant it    *)
(* publishes, across midnight and on every day of a range; where the       *)
(* windows are kept it is off between them, and it never outlives the last.*)
ActiveExactly(raw, today, created) ==
  Closed(raw) => OnExactly(NormalizeSchedule(raw, today), Published(raw, today), created)
=============================================================================
