------------------------------ MODULE Algorithms ------------------------------
(***************************************************************************)
(* Reach, and beside it one step for each schedule that is stored and for  *)
(* each block that is built, and the attempts of one outbound call.        *)
(***************************************************************************)
EXTENDS Reach, Attempts, BlockPolygon, Schedule

CONSTANTS
  Schedules,   \* the schedules a parse may state
  Today,       \* the day it is stored
  Created,     \* when
  Outlines,    \* the street lists of the blocks
  FacesOf(_)   \* the faces the geometry library may find for one

\* Dates and clocks are numbers, and today has one.
ASSUME SchedulesAssumption ==
  /\ Today \in Nat /\ Created \subseteq Int
  /\ \A raw \in Schedules :
       /\ raw.from \in Int /\ raw.to \in Int /\ DOMAIN raw.windows \subseteq Int
       /\ \A i \in DOMAIN raw.windows : raw.windows[i].start \in Int /\ raw.windows[i].end \in Int

\* The faces of a road network are a list, each with a ring of samples.
ASSUME FacesAssumption ==
  \A names \in Outlines : \A faces \in FacesOf(names) :
    /\ Len(faces) \in Nat /\ DOMAIN faces = 1..Len(faces)
    /\ \A i \in DOMAIN faces : Len(faces[i].samples) \in Nat /\ faces[i].area \in Int

VARIABLE job

NoJob == [kind |-> "none"]
Idle == stage = "failed" /\ text = <<>> /\ parsed = NoParse /\ reached = {} /\ alert = Blank("vik")

AlgorithmsInit == job = NoJob /\ CallInit /\ (Init \/ Idle)

StoreSchedule ==
  /\ Idle /\ job = NoJob
  /\ \E raw \in Schedules, created \in Created :
       job' = [kind |-> "schedule", raw |-> raw, created |-> created]
  /\ UNCHANGED vars

BuildBlock ==
  /\ Idle /\ job = NoJob
  /\ \E names \in Outlines : \E faces \in FacesOf(names) :
       job' = [kind |-> "block", names |-> names, faces |-> faces,
               built |-> BuildPolygonForStreets(names, Regions[1], faces)]
  /\ UNCHANGED vars

Attempt == Idle /\ job = NoJob /\ CallNext /\ UNCHANGED <<vars, job>>

AlgorithmsNext ==
  \/ Next /\ UNCHANGED <<job, callVars>>
  \/ step = "none" /\ (StoreSchedule \/ BuildBlock) /\ UNCHANGED callVars
  \/ Attempt

\* Timers fire and the caller goes on; nobody has to answer it.
AlgorithmsSpec ==
  /\ AlgorithmsInit /\ [][AlgorithmsNext]_<<vars, job, callVars>>
  /\ WF_callVars(Attempt /\ Own)

-----------------------------------------------------------------------------
(* What is on, and when, is what the message published (Schedule;          *)
(* normalizeSchedule of datetime.ts and isAlertActive of the app).         *)
ActiveWhenPublished ==
  job.kind = "schedule" => ActiveExactly(job.raw, Today, job.created)

\* The ring is drawn from the streets of the one settlement: no street of the
\* name in another town lends a line (loadStreetWays).
WaysUnder(scope) ==
  UNION {Ways[id] : id \in {id \in DOMAIN Ways :
    \E i \in DOMAIN Streets : Streets[i].id = id /\ Streets[i].parent = scope.id}}
GeometryOfTheScope(lines) ==
  LET own == WaysUnder(Regions[1]) IN \A name \in DOMAIN lines : lines[name] \subseteq own

\* The clip window, fitted to save work, loses no side of the block.
ClippingLosesNoStreet(lines) ==
  DOMAIN lines # {} => DOMAIN Clipped(lines) = DOMAIN lines

\* The tests of a block, on the exact counts.
Hits(face, street) == HitsAmong(face.samples, Len(face.samples), street)
Sides(face, streets) == {s \in streets : Hits(face, s) >= MIN_TOUCH_SAMPLES}
IsBlock(face, streets) ==
  /\ Cardinality(Sides(face, streets)) >= 2
  /\ \A s \in streets : ~OverCap(Hits(face, s), face.samples)
  /\ ~Degenerate(face)

\* What is stored is a block by the exact counts, bounded by the streets it
\* names, although the counting stops early (countSamplesNearStreet).
RingIsABlock(built, faces, streets) ==
  built.block # 0 =>
    /\ IsBlock(faces[built.block], streets)
    /\ built.streets = Sides(faces[built.block], streets)

\* A real block is never lost to a larger or busier face that is not one.
NoBlockLost(built, faces, streets) ==
  built.reason \notin {"too few streets resolved", "too few streets found"} =>
    \A i \in DOMAIN faces : IsBlock(faces[i], streets) =>
      /\ built.block # 0
      /\ Cardinality(built.streets) >= Cardinality(Sides(faces[i], streets))

(* The ring stored for a message is a block that streets of its own        *)
(* settlement bound, it is found whenever the faces hold one, and neither  *)
(* the clip window nor the counting that stops early costs a side          *)
(* (buildPolygonForStreets).                                               *)
BlocksSafe ==
  job.kind = "block" =>
    LET lines == LoadStreetWays(Resolved(job.names, Regions[1]), Regions[1])
    IN /\ GeometryOfTheScope(lines)
       /\ ClippingLosesNoStreet(lines)
       /\ RingIsABlock(job.built, job.faces, DOMAIN lines)
       /\ NoBlockLost(job.built, job.faces, DOMAIN lines)
===============================================================================
