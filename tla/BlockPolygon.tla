---------------------------- MODULE BlockPolygon -----------------------------
(***************************************************************************)
(* The block a message's streets enclose: ingestion/polygon.ts, from the   *)
(* written names to the ring that is stored.  A line is its box and its    *)
(* length.  The JSTS library is external: it is the faces (holes of the    *)
(* road network) the streets enclose, each with its area, its number of    *)
(* vertices and, for every sample along its ring, the streets within reach.*)
(***************************************************************************)
EXTENDS Places, SequencesExt

CONSTANTS
  Ways,     \* street id -> its stored lines
  Variants  \* OSM_NAME_VARIANTS: name -> the other spellings of the street

(* The table of lines is finite, and a line lies in its box.               *)
ASSUME WaysAssumption ==
  /\ IsFiniteSet(DOMAIN Ways)
  /\ \A id \in DOMAIN Ways :
       /\ IsFiniteSet(Ways[id])
       /\ \A l \in Ways[id] :
            /\ {l.minX, l.maxX, l.minY, l.maxY} \subseteq Int /\ l.length \in Nat
            /\ l.minX <= l.maxX /\ l.minY <= l.maxY

CLIP_MARGIN == 5
MIN_TOUCH_SAMPLES == 2
MIN_BLOCK_AREA == 10
MIN_RING_VERTICES == 8

UnionBox(boxes) ==
  [minX |-> Min({b.minX : b \in boxes}), maxX |-> Max({b.maxX : b \in boxes}),
   minY |-> Min({b.minY : b \in boxes}), maxY |-> Max({b.maxY : b \in boxes})]
BoxesOverlap(a, b) ==
  /\ a.minX <= b.maxX /\ a.maxX >= b.minX
  /\ a.minY <= b.maxY /\ a.maxY >= b.minY

(* The squared distance of a box to the middle of another, in half units.  *)
DistanceToMiddle(box, anchor) ==
  LET x == anchor.minX + anchor.maxX
      y == anchor.minY + anchor.maxY
      dx == Max({2 * box.minX - x, 0, x - 2 * box.maxX})
      dy == Max({2 * box.minY - y, 0, y - 2 * box.maxY})
  IN dx * dx + dy * dy

-----------------------------------------------------------------------------
(* The written names to rows of the one settlement, each street where it   *)
(* is first named.                                                         *)
Resolved(names, scope) ==
  LET found == {[at |-> i, row |-> MatchStreet(names[i], scope)] : i \in DOMAIN names}
  IN {n \in found : n.row # NoRow /\ ~\E m \in found : m.at < n.at /\ m.row = n.row}

(* Mutant: another spelling is read from any settlement.                   *)
SpellingsAnywhere(row, scope) ==
  {Streets[i] : i \in {i \in DOMAIN Streets :
     row.name \in DOMAIN Variants /\ Streets[i].name \in Variants[row.name]}}

Spellings(row, scope) ==
  {Streets[i] : i \in {i \in DOMAIN Streets :
     /\ row.name \in DOMAIN Variants /\ Streets[i].name \in Variants[row.name]
     /\ Streets[i].parent = scope.id}}

(* canonicalOf: the street each row read answers for, a later one winning. *)
CanonicalOf(resolved, scope) ==
  LET Ids(row) == {row.id} \cup {s.id : s \in Spellings(row, scope)}
      answers == UNION {{[id |-> id, at |-> n.at, name |-> n.row.name] : id \in Ids(n.row)} :
                          n \in resolved}
      Latest(id) == CHOOSE a \in answers : /\ a.id = id
                                           /\ \A b \in answers : b.id = id => b.at <= a.at
  IN [id \in {a.id : a \in answers} |-> Latest(id).name]

(* loadStreetWays: the lines of each street that has any.                  *)
LoadStreetWays(resolved, scope) ==
  LET canonical == CanonicalOf(resolved, scope)
      ids == DOMAIN canonical \cap DOMAIN Ways
      LinesOf(name) == UNION {Ways[id] : id \in {id \in ids : canonical[id] = name}}
  IN [name \in {n \in {canonical[id] : id \in ids} : LinesOf(n) # {}} |-> LinesOf(name)]

-----------------------------------------------------------------------------
(* The length of a street is the number of units in its lines.             *)
Units(lines) == UNION {{l} \X (1..l.length) : l \in lines}
Shortest(lines) ==
  LET measured == {[name |-> n, length |-> Cardinality(Units(lines[n]))] : n \in DOMAIN lines}
  IN (CHOOSE n \in measured : \A m \in measured : n.length <= m.length).name

WithMargin(box) ==
  [minX |-> box.minX - CLIP_MARGIN, maxX |-> box.maxX + CLIP_MARGIN,
   minY |-> box.minY - CLIP_MARGIN, maxY |-> box.maxY + CLIP_MARGIN]

Nearest(lines, anchor) ==
  CHOOSE l \in lines : \A other \in lines :
    DistanceToMiddle(l, anchor) <= DistanceToMiddle(other, anchor)

Grown(lines, anchor) ==
  UnionBox({anchor} \cup {Nearest(lines[name], anchor) : name \in DOMAIN lines})

(* Mutant: the window is the shortest street's box and the margin.         *)
WindowOfTheShortest(lines) ==
  WithMargin(UnionBox(lines[Shortest(lines)]))

(* The clip window: the shortest street, grown to the fragment of every    *)
(* street nearest it, and a margin.                                        *)
ClipWindow(lines) ==
  WithMargin(Grown(lines, UnionBox(lines[Shortest(lines)])))

Inside(lines, window) ==
  LET KeptOf(name) == {l \in lines[name] : BoxesOverlap(l, window)}
  IN [name \in {n \in DOMAIN lines : KeptOf(n) # {}} |-> KeptOf(name)]
Clipped(lines) == Inside(lines, ClipWindow(lines))

-----------------------------------------------------------------------------
HitsAmong(samples, n, street) == Cardinality({i \in 1..n : street \in samples[i]})
OverCap(hits, samples) == 10 * hits > 7 * Len(samples)

(* Mutant: a street is settled as soon as it has touched.                  *)
SettledOnTouch(samples, n, street) ==
  LET hits == HitsAmong(samples, n, street)
  IN OverCap(hits, samples) \/ hits >= MIN_TOUCH_SAMPLES

(* Both tests are settled after n samples: over the cap, or bounding the   *)
(* face without a way to reach the cap.                                    *)
SettledAfter(samples, n, street) ==
  LET hits == HitsAmong(samples, n, street)
  IN \/ OverCap(hits, samples)
     \/ hits >= MIN_TOUCH_SAMPLES /\ ~OverCap(hits + (Len(samples) - n), samples)

CountSamplesNearStreet(samples, street) ==
  LET stops == {n \in 1..Len(samples) : SettledAfter(samples, n, street)}
  IN HitsAmong(samples, IF stops = {} THEN Len(samples) ELSE Min(stops), street)

Dominated(face, streets) ==
  \E s \in streets : OverCap(CountSamplesNearStreet(face.samples, s), face.samples)
BoundedBy(face, streets) ==
  {s \in streets : CountSamplesNearStreet(face.samples, s) >= MIN_TOUCH_SAMPLES}
Degenerate(face) == face.area < MIN_BLOCK_AREA \/ face.vertices < MIN_RING_VERTICES

Enclosed(face, streets) ==
  /\ face.samples # <<>> /\ ~Dominated(face, streets)
  /\ Cardinality(BoundedBy(face, streets)) >= 2

NoBlock(reason) == [block |-> 0, streets |-> {}, reason |-> reason]

(* The first by (streets, area); 0 when there is none.                     *)
First(faces, streets, eligible) ==
  LET Touched(i) == Cardinality(BoundedBy(faces[i], streets))
      Before(j, i) == \/ Touched(j) > Touched(i)
                      \/ Touched(j) = Touched(i) /\ faces[j].area > faces[i].area
      first == {i \in eligible : ~\E j \in eligible : Before(j, i)}
  IN IF first = {} THEN 0 ELSE Min(first)

(* Mutant: the degenerate are dropped after the ranking, not before it.    *)
BestRankedFirst(faces, streets) ==
  LET best == First(faces, streets, {i \in DOMAIN faces : Enclosed(faces[i], streets)})
  IN IF best = 0 \/ Degenerate(faces[best]) THEN 0 ELSE best

(* The face most streets bound, the larger of two, of those that are       *)
(* blocks.                                                                 *)
Best(faces, streets) ==
  First(faces, streets,
        {i \in DOMAIN faces : Enclosed(faces[i], streets) /\ ~Degenerate(faces[i])})

WhyNone(faces, streets) ==
  IF faces = <<>> THEN "the streets enclose no block"
  ELSE IF \A i \in DOMAIN faces : Dominated(faces[i], streets) THEN "bounded by a single street"
  ELSE IF \E i \in DOMAIN faces : Enclosed(faces[i], streets) THEN "degenerate"
  ELSE "not bounded by two streets"

Block(faces, streets, best) ==
  IF best = 0 THEN NoBlock(WhyNone(faces, streets))
  ELSE [block |-> best, streets |-> BoundedBy(faces[best], streets), reason |-> "none"]

BlockAmong(faces, streets) ==
  IF Cardinality(streets) < 3 THEN NoBlock("too few streets after clipping")
  ELSE Block(faces, streets, Best(faces, streets))

(* buildBlockPolygon.                                                      *)
BuildBlockPolygon(lines, faces) ==
  IF DOMAIN lines = {} THEN NoBlock("no OSM geometry")
  ELSE IF Cardinality(DOMAIN lines) < 3 THEN NoBlock("too few streets found")
  ELSE BlockAmong(faces, DOMAIN Clipped(lines))

(* buildPolygonForStreets.                                                 *)
BuildPolygonForStreets(names, scope, faces) ==
  LET resolved == Resolved(names, scope)
  IN IF Cardinality(resolved) < 3 THEN NoBlock("too few streets resolved")
     ELSE BuildBlockPolygon(LoadStreetWays(resolved, scope), faces)
=============================================================================
