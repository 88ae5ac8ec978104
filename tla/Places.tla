------------------------------- MODULE Places --------------------------------
(***************************************************************************)
(* Which seeded row a written place name refers to: core/place-names.ts,   *)
(* the trigram scores of core/fuzzy.ts and settlementScope of              *)
(* core/locations.ts.  A name is the kind its prefix declares and a core,  *)
(* the set of its parts (its words where the code looks for words, its     *)
(* trigrams where it scores).  Places lie on a line, in tens of metres.    *)
(***************************************************************************)
EXTENDS Integers, Sequences, FiniteSets, FiniteSetsExt

CONSTANTS
  Regions,  \* the regions table and its aliases, in seed order
  Streets,  \* the streets table
  Varna     \* DEFAULT_SETTLEMENT, as a core

(* Ids are positive; the rows of an id (its aliases) are one place; and a   *)
(* row with a settlement is a district, which holds no districts of its    *)
(* own (migrations 0013, 0016 and 0017).                                   *)
ASSUME RegionsAssumption ==
  /\ DOMAIN Regions \subseteq Nat
  /\ \A i, j \in DOMAIN Regions :
       /\ Regions[i].id \in Nat \ {0}
       /\ Regions[i].at \in Int
       /\ IsFiniteSet(Regions[i].name.core)
       /\ Regions[i].id = Regions[j].id =>
            Regions[i].parent = Regions[j].parent /\ Regions[i].at = Regions[j].at
       /\ Regions[i].parent = Regions[j].id => Regions[j].parent = 0

ASSUME StreetsAssumption ==
  /\ DOMAIN Streets \subseteq Nat
  /\ \A i \in DOMAIN Streets :
       Streets[i].id \in Nat \ {0} /\ IsFiniteSet(Streets[i].name.core)

Nowhere == 999999   \* no coordinates
Km == 100
NoRow == [id |-> 0, name |-> [kind |-> "none", core |-> {}], parent |-> 0, at |-> Nowhere]

(* The city is one place, on the map, seeded without the kind of another.  *)
ASSUME CityAssumption ==
  /\ IsFiniteSet(Varna) /\ Varna # {}
  /\ \A i, j \in DOMAIN Regions :
       Regions[i].name.core = Varna /\ Regions[j].name.core = Varna =>
         /\ Regions[i].name.kind \in {"gr", "none"}
         /\ Regions[i].at = Regions[j].at /\ Regions[i].at # Nowhere

Name(kind, core) == [kind |-> kind, core |-> core]
NoName == Name("null", {})
Distance(a, b) == IF Nowhere \in {a, b} THEN Nowhere ELSE IF a < b THEN b - a ELSE a - b

(* KIND_CLASS: kinds the sources use for one another share a class.        *)
PlaceClass(kind) ==
  CASE kind \in {"ul", "bul", "al", "pl"} -> "street"
    [] kind \in {"kv", "zhk", "mt", "so"} -> "district"
    [] kind = "kk" -> "resort"
    [] kind = "s" -> "village"
    [] kind = "gr" -> "city"
    [] OTHER -> "unstated"

KindsCompatible(a, b) == a = b \/ "unstated" \in {a, b}

(* gramSimilarity, in thousandths.                                         *)
Similarity(a, b) == IF a \cup b = {} THEN 0
                    ELSE (1000 * Cardinality(a \cap b)) \div Cardinality(a \cup b)

Written(name) == name.core \cup (IF name.kind = "none" THEN {} ELSE {name.kind})

CORE_MATCH_THRESHOLD == 400
NEAR_TIE_BAND == 200
IN_CITY_RADIUS == 9 * Km

FirstRow(rows, S) == IF S = {} THEN NoRow ELSE rows[CHOOSE i \in S : \A j \in S : i <= j]

CityCenter ==
  LET city == FirstRow(Regions, {i \in DOMAIN Regions : Regions[i].name.core = Varna
                                                     /\ Regions[i].at # Nowhere})
  IN IF city = NoRow THEN 0 ELSE city.at

IsInCity(row) == Distance(row.at, CityCenter) <= IN_CITY_RADIUS

CoreScore(raw, row) == Similarity(raw.core, row.name.core)

(* Mutant: candidates that tie are left in seed order.                     *)
StandingByCore(raw, row, preferInCity) == <<CoreScore(raw, row), 0, 0>>

(* The core first, then the whole name and, for a region, how near the     *)
(* city centre it is.                                                      *)
Standing(raw, row, preferInCity) ==
  <<CoreScore(raw, row),
    Similarity(Written(raw), Written(row.name)),
    IF preferInCity THEN -Distance(row.at, CityCenter) ELSE 0>>

Beats(a, b) ==
  \E i \in 1..3 : a[i] > b[i] /\ \A j \in 1..(i - 1) : a[j] = b[j]

Settled(raw, rows, pool, preferInCity) ==
  {i \in pool : ~\E j \in pool :
     Beats(Standing(raw, rows[j], preferInCity), Standing(raw, rows[i], preferInCity))}

(* The rows in scope that score, and whose kind could be the name's.       *)
Scored(raw, rows, scope) ==
  {i \in scope : /\ KindsCompatible(PlaceClass(raw.kind), PlaceClass(rows[i].name.kind))
                 /\ CoreScore(raw, rows[i]) >= CORE_MATCH_THRESHOLD}

(* Those close to the top score; a region's are inside the city, if any.   *)
Close(raw, rows, scored) ==
  LET top == Max({CoreScore(raw, rows[i]) : i \in scored})
  IN {i \in scored : CoreScore(raw, rows[i]) >= top - NEAR_TIE_BAND}

InCityFirst(rows, close) ==
  LET inCity == {i \in close : IsInCity(rows[i])} IN IF inCity = {} THEN close ELSE inCity

Pool(rows, close, preferInCity) == IF preferInCity THEN InCityFirst(rows, close) ELSE close

Winner(raw, rows, scored, preferInCity) ==
  IF scored = {} THEN NoRow
  ELSE FirstRow(rows, Settled(raw, rows, Pool(rows, Close(raw, rows, scored), preferInCity),
                              preferInCity))

MatchCore(raw, rows, scope, accepts, preferInCity) ==
  IF raw.core = {} \/ PlaceClass(raw.kind) \notin accepts THEN NoRow
  ELSE Winner(raw, rows, Scored(raw, rows, scope), preferInCity)

RegionClasses == {"district", "resort", "village", "city", "unstated"}

(* The scopes of a lookup (inScope): places in the table.                  *)
Under(settlement, rows) == {i \in DOMAIN rows : rows[i].parent = settlement.id}
AtOrUnder(settlement) ==
  {i \in DOMAIN Regions : settlement.id \in {Regions[i].parent, Regions[i].id}}
Settlements == {i \in DOMAIN Regions : Regions[i].parent = 0}

Otherwise(row, other) == IF row # NoRow THEN row ELSE other

(* A scope is a preference: without a match inside, the whole table is     *)
(* searched.                                                               *)
MatchRegionIn(raw, rows, scope) ==
  Otherwise(MatchCore(raw, rows, scope, RegionClasses, TRUE),
            MatchCore(raw, rows, DOMAIN rows, RegionClasses, TRUE))

MatchRegion(raw, scope) == MatchRegionIn(raw, Regions, scope)
MatchAnyRegion(raw) == MatchRegion(raw, DOMAIN Regions)

Streetlike == {"street", "unstated"}

(* A lookup without a scope: is the name a street anywhere.                *)
MatchAnyStreet(raw) == MatchCore(raw, Streets, DOMAIN Streets, Streetlike, FALSE)

(* Mutant: without a match in the settlement every street is tried.        *)
MatchStreetAnywhere(raw, settlement) ==
  Otherwise(MatchCore(raw, Streets, Under(settlement, Streets), Streetlike, FALSE),
            MatchAnyStreet(raw))

(* A street is only ever looked up in one settlement.                      *)
MatchStreet(raw, settlement) ==
  MatchCore(raw, Streets, Under(settlement, Streets), Streetlike, FALSE)

(* The written kind alone says whether a name is a settlement.             *)
SettlementOf(name) ==
  IF PlaceClass(name.kind) \in {"city", "village"} /\ name.core # {} THEN name.core ELSE Varna

RegionById(id) == FirstRow(Regions, {i \in DOMAIN Regions : Regions[i].id = id})

(* What one slot says of the settlement; NoRow when it leaves it open.     *)
Parent(row) == IF row = NoRow \/ row.parent = 0 THEN NoRow ELSE RegionById(row.parent)
ParentOf(name) == Parent(MatchAnyRegion(name))

(* What one slot decides: a settlement it names, NoRow if it has no row,   *)
(* or the settlement its district is linked to; nothing otherwise.         *)
Decided(name) ==
  IF name = NoName THEN {}
  ELSE IF SettlementOf(name) = Varna THEN {ParentOf(name)} \ {NoRow}
  ELSE {MatchRegion(Name("none", SettlementOf(name)), Settlements)}

(* settlementScope: the first slot that decides, or else the city.         *)
SettlementScope(settlement, area) ==
  LET OrElse(a, b) == IF a # {} THEN a ELSE b
  IN CHOOSE row \in OrElse(Decided(settlement), OrElse(Decided(area),
                      {MatchRegion(Name("none", Varna), Settlements)})) : TRUE
=============================================================================
