--------------------------- MODULE AlgorithmProofs ---------------------------
(***************************************************************************)
(* For any tables of places, users, lines and schedules: an announcement   *)
(* reaches the users it should and no others (AudienceSafe), and the whole *)
(* city only when it says so (BroadcastOnlyWhenSaid); an alert is on when  *)
(* its message says (ActiveWhenPublished); a message's block is one        *)
(* (BlocksSafe).                                                           *)
(***************************************************************************)
EXTENDS Algorithms, FiniteSetTheorems, FunctionTheorems, WellFoundedInduction, TLAPS

(***************************************************************************)
(* Least elements, which the library has for the natural numbers only.     *)
(***************************************************************************)

(* A set of naturals with an element has a least one.                      *)
LEMMA LeastExists ==
  ASSUME NEW S \in SUBSET Nat, S # {}
  PROVE  \E m \in S : \A j \in S : m <= j
<1> DEFINE Less == {ss \in Nat \X Nat : ss[1] < ss[2]}
<1>0. OpToRel(<, Nat) = Less
  BY DEF OpToRel
<1>1. PICK m \in S : \A j \in S : ~(<<j, m>> \in Less)
  BY <1>0, NatLessThanWellFounded, WFMin
<1>2. \A j \in S : ~(j < m)
  BY <1>1
<1> QED
  BY <1>2

(* A strict order on a finite set with an element has a minimal one: that  *)
(* with the fewest below it.                                               *)
LEMMA MinimalExists ==
  ASSUME NEW S, IsFiniteSet(S), S # {}, NEW R,
         \A x \in S : <<x, x>> \notin R,
         \A x, y, z \in S : <<x, y>> \in R /\ <<y, z>> \in R => <<x, z>> \in R
  PROVE  \E m \in S : \A j \in S : <<j, m>> \notin R
<1> DEFINE BelowOf(x) == {y \in S : <<y, x>> \in R}
           rank == [x \in S |-> Cardinality(BelowOf(x))]
           ranks == {rank[x] : x \in S}
<1>1. \A x \in S : IsFiniteSet(BelowOf(x)) /\ rank[x] = Cardinality(BelowOf(x))
  <2> TAKE x \in S
  <2>1. BelowOf(x) \in SUBSET S
    OBVIOUS
  <2>2. IsFiniteSet(BelowOf(x))
    BY <2>1, FS_Subset
  <2> QED
    BY <2>2
<1>2. \A x \in S : rank[x] \in Nat
  BY <1>1, FS_CardinalityType
<1>3. \A x, y \in S : <<x, y>> \in R => rank[x] < rank[y]
  <2> SUFFICES ASSUME NEW x \in S, NEW y \in S, <<x, y>> \in R
               PROVE  rank[x] < rank[y]
    OBVIOUS
  <2>1. BelowOf(x) \in SUBSET BelowOf(y)
    OBVIOUS
  <2>2. BelowOf(x) # BelowOf(y)
    <3>1. x \in BelowOf(y) /\ x \notin BelowOf(x)
      OBVIOUS
    <3> QED
      BY <3>1
  <2>3. Cardinality(BelowOf(x)) <= Cardinality(BelowOf(y))
        /\ Cardinality(BelowOf(x)) # Cardinality(BelowOf(y))
    <3> HIDE DEF BelowOf
    <3> QED
      BY <1>1, <2>1, <2>2, FS_Subset
  <2>4. rank[x] <= rank[y] /\ rank[x] # rank[y]
    BY <1>1, <2>3
  <2> HIDE DEF rank
  <2> QED
    BY <1>2, <2>4
<1> HIDE DEF rank
<1>4. PICK r \in ranks : \A s \in ranks : r <= s
  <2>1. ranks \in SUBSET Nat /\ ranks # {}
    BY <1>2
  <2> QED
    BY <2>1, LeastExists
<1>5. PICK m \in S : r = rank[m]
  OBVIOUS
<1>6. \A j \in S : rank[m] <= rank[j]
  BY <1>4, <1>5
<1> QED
  BY <1>2, <1>3, <1>5, <1>6

(* So a finite set of integers has a least element and a greatest.         *)
LEMMA FiniteLeast ==
  ASSUME NEW S \in SUBSET Int, IsFiniteSet(S), S # {}
  PROVE  \E m \in S : \A j \in S : m <= j
<1> DEFINE R == {p \in Int \X Int : p[1] < p[2]}
<1>1. \A x, y \in Int : <<x, y>> \in R <=> x < y
  OBVIOUS
<1> HIDE DEF R
<1>2. PICK m \in S : \A j \in S : <<j, m>> \notin R
  <2>1. \A x \in S : <<x, x>> \notin R
    BY <1>1
  <2>2. \A x, y, z \in S : <<x, y>> \in R /\ <<y, z>> \in R => <<x, z>> \in R
    BY <1>1
  <2> QED
    BY <2>1, <2>2, MinimalExists
<1>3. \A j \in S : ~(j < m)
  BY <1>1, <1>2
<1> QED
  BY <1>3

(* And a greatest one.                                                     *)
LEMMA FiniteGreatest ==
  ASSUME NEW S \in SUBSET Int, IsFiniteSet(S), S # {}
  PROVE  \E m \in S : \A j \in S : m >= j
<1> DEFINE R == {p \in Int \X Int : p[1] > p[2]}
<1>1. \A x, y \in Int : <<x, y>> \in R <=> x > y
  OBVIOUS
<1> HIDE DEF R
<1>2. PICK m \in S : \A j \in S : <<j, m>> \notin R
  <2>1. \A x \in S : <<x, x>> \notin R
    BY <1>1
  <2>2. \A x, y, z \in S : <<x, y>> \in R /\ <<y, z>> \in R => <<x, z>> \in R
    BY <1>1
  <2> QED
    BY <2>1, <2>2, MinimalExists
<1>3. \A j \in S : ~(j > m)
  BY <1>1, <1>2
<1> QED
  BY <1>3

(* The least element is the one Min chooses.                               *)
LEMMA MinOf ==
  ASSUME NEW S \in SUBSET Int, IsFiniteSet(S), S # {}
  PROVE  Min(S) \in S /\ \A j \in S : Min(S) <= j
BY FiniteLeast DEF Min

(* The greatest element is the one Max chooses.                            *)
LEMMA MaxOf ==
  ASSUME NEW S \in SUBSET Int, IsFiniteSet(S), S # {}
  PROVE  Max(S) \in S /\ \A j \in S : Max(S) >= j
BY FiniteGreatest DEF Max

(***************************************************************************)
(* Whom an alert reaches.                                                  *)
(***************************************************************************)

(* The first of some rows is one of them.                                  *)
LEMMA FirstRowOf ==
  ASSUME NEW rows, DOMAIN rows \subseteq Nat, NEW S \in SUBSET DOMAIN rows
  PROVE  IF S = {} THEN FirstRow(rows, S) = NoRow
         ELSE \E i \in S : FirstRow(rows, S) = rows[i]
<1>1. CASE S = {}
  BY <1>1 DEF FirstRow
<1>2. CASE S # {}
  <2>1. \E m \in S : \A j \in S : m <= j
    BY <1>2, LeastExists
  <2>2. (CHOOSE i \in S : \A j \in S : i <= j) \in S
    BY <2>1
  <2> QED
    BY <1>2, <2>2 DEF FirstRow
<1> QED
  BY <1>1, <1>2

(* A match is a row in scope whose core scored and that no row of the pool *)
(* beats, or no row.                                                       *)
LEMMA MatchCoreOf ==
  ASSUME NEW rows, DOMAIN rows \subseteq Nat, NEW scope \in SUBSET DOMAIN rows,
         NEW raw, NEW accepts, NEW preferInCity
  PROVE  LET row == MatchCore(raw, rows, scope, accepts, preferInCity)
             scored == Scored(raw, rows, scope)
             pool == Pool(rows, Close(raw, rows, scored), preferInCity)
         IN \/ row = NoRow
            \/ \E i \in scope : row = rows[i] /\ i \in Settled(raw, rows, pool, preferInCity)
<1> DEFINE row == MatchCore(raw, rows, scope, accepts, preferInCity)
           scored == Scored(raw, rows, scope)
           pool == Pool(rows, Close(raw, rows, scored), preferInCity)
           settled == Settled(raw, rows, pool, preferInCity)
<1>1. settled \in SUBSET scope
  BY DEF Settled, Pool, InCityFirst, Close, Scored
<1>2. row = NoRow \/ row = FirstRow(rows, settled)
  BY DEF MatchCore, Winner
<1>3. IF settled = {} THEN FirstRow(rows, settled) = NoRow
      ELSE \E i \in settled : FirstRow(rows, settled) = rows[i]
  <2> HIDE DEF settled
  <2> QED
    BY <1>1, FirstRowOf
<1> HIDE DEF row, settled
<1>4. row = NoRow \/ \E i \in scope : row = rows[i] /\ i \in settled
  BY <1>1, <1>2, <1>3
<1> QED
  BY <1>4 DEF row, settled

(* So a match is a row in scope, or no row.                                *)
LEMMA MatchCoreIn ==
  ASSUME NEW rows, DOMAIN rows \subseteq Nat, NEW scope \in SUBSET DOMAIN rows,
         NEW raw, NEW accepts, NEW preferInCity
  PROVE  \/ MatchCore(raw, rows, scope, accepts, preferInCity) = NoRow
         \/ \E i \in scope : MatchCore(raw, rows, scope, accepts, preferInCity) = rows[i]
BY MatchCoreOf

(* What a lookup of a region answers.                                      *)
ARegion(row) == \E i \in DOMAIN Regions : row = Regions[i]
RegionOrNone(row) == row = NoRow \/ ARegion(row)

(* The row of an id is a row, or no row.                                   *)
LEMMA RegionByIdOf ==
  ASSUME RegionsAssumption, NEW id
  PROVE  RegionOrNone(RegionById(id))
<1> DEFINE S == {i \in DOMAIN Regions : Regions[i].id = id}
<1>1. S \in SUBSET DOMAIN Regions /\ RegionById(id) = FirstRow(Regions, S)
  BY DEF RegionById
<1>2. DOMAIN Regions \subseteq Nat
  BY DEF RegionsAssumption
<1> HIDE DEF S
<1> QED
  BY <1>1, <1>2, FirstRowOf DEF RegionOrNone, ARegion

(* The rows of an id are one place, and no row has the id 0.               *)
LEMMA RegionOfRow ==
  ASSUME RegionsAssumption, NEW row, ARegion(row)
  PROVE  /\ row.id \in Nat \ {0} /\ row.at \in Int
         /\ RegionById(row.id).parent = row.parent
<1>1. PICK k \in DOMAIN Regions : row = Regions[k]
  BY DEF ARegion
<1> DEFINE S == {i \in DOMAIN Regions : Regions[i].id = row.id}
<1>2. S \in SUBSET DOMAIN Regions /\ RegionById(row.id) = FirstRow(Regions, S) /\ S # {}
  BY <1>1 DEF RegionById
<1>3. DOMAIN Regions \subseteq Nat
  BY DEF RegionsAssumption
<1>4. \E i \in S : FirstRow(Regions, S) = Regions[i]
  <2> HIDE DEF S
  <2> QED
    BY <1>2, <1>3, FirstRowOf
<1>5. PICK i \in DOMAIN Regions : RegionById(row.id) = Regions[i] /\ Regions[i].id = row.id
  BY <1>2, <1>4
<1>6. Regions[i].parent = Regions[k].parent
  BY <1>1, <1>5 DEF RegionsAssumption
<1> QED
  BY <1>1, <1>5, <1>6 DEF RegionsAssumption

(* The id 0, "no region", is no region's.                                  *)
LEMMA NoRegionZero ==
  ASSUME RegionsAssumption
  PROVE  RegionById(0) = NoRow
<1>1. {i \in DOMAIN Regions : Regions[i].id = 0} = {}
  BY DEF RegionsAssumption
<1> QED
  BY <1>1 DEF RegionById, FirstRow

(* A region that is looked up by name is a row, or no row.                 *)
LEMMA MatchRegionOf ==
  ASSUME RegionsAssumption, NEW raw, NEW scope \in SUBSET DOMAIN Regions
  PROVE  RegionOrNone(MatchRegion(raw, scope))
<1>1. DOMAIN Regions \subseteq Nat
  BY DEF RegionsAssumption
<1>2. ASSUME NEW within \in SUBSET DOMAIN Regions
      PROVE  RegionOrNone(MatchCore(raw, Regions, within, RegionClasses, TRUE))
  <2> DEFINE prefer == TRUE
  <2> HIDE DEF prefer
  <2>1. \/ MatchCore(raw, Regions, within, RegionClasses, prefer) = NoRow
        \/ \E i \in within : MatchCore(raw, Regions, within, RegionClasses, prefer) = Regions[i]
    BY <1>1, MatchCoreIn
  <2> QED
    BY <2>1 DEF RegionOrNone, ARegion, prefer
<1>3. DOMAIN Regions \in SUBSET DOMAIN Regions
  OBVIOUS
<1> QED
  BY <1>2, <1>3 DEF MatchRegion, MatchRegionIn, Otherwise

(* What one slot decides is a row, or no row.                              *)
LEMMA DecidedOf ==
  ASSUME RegionsAssumption, NEW name
  PROVE  \A row \in Decided(name) : RegionOrNone(row)
<1>1. RegionOrNone(ParentOf(name))
  <2>1. RegionOrNone(NoRow)
    BY DEF RegionOrNone
  <2> QED
    BY <2>1, RegionByIdOf DEF ParentOf, Parent
<1>2. Settlements \in SUBSET DOMAIN Regions
  BY DEF Settlements
<1>3. RegionOrNone(MatchRegion(Name("none", SettlementOf(name)), Settlements))
  BY <1>2, MatchRegionOf
<1> QED
  BY <1>1, <1>3 DEF Decided

(* The settlement of a location is a row, or no row.                       *)
LEMMA SettlementScopeOf ==
  ASSUME RegionsAssumption, NEW settlement, NEW area
  PROVE  RegionOrNone(SettlementScope(settlement, area))
<1> DEFINE city == MatchRegion(Name("none", Varna), Settlements)
           rows == IF Decided(settlement) # {} THEN Decided(settlement)
                   ELSE IF Decided(area) # {} THEN Decided(area) ELSE {city}
<1>1. Settlements \in SUBSET DOMAIN Regions
  BY DEF Settlements
<1>2. RegionOrNone(city)
  BY <1>1, MatchRegionOf
<1>3. \A row \in rows : RegionOrNone(row)
  BY <1>2, DecidedOf
<1>4. SettlementScope(settlement, area) = CHOOSE row \in rows : TRUE
  BY DEF SettlementScope
<1>5. rows # {}
  OBVIOUS
<1> HIDE DEF rows
<1> QED
  BY <1>3, <1>4, <1>5

(* The streets of a location are streets of the settlement.                *)
LEMMA StreetIdsOf ==
  ASSUME StreetsAssumption, NEW location, NEW settlement, NEW id \in StreetIds(location, settlement)
  PROVE  id # 0 /\ \E i \in DOMAIN Streets : Streets[i].id = id /\ Streets[i].parent = settlement.id
<1>1. PICK n \in DOMAIN location.streets :
        id = MatchStreet(location.streets[n], settlement).id /\ id # 0
  BY DEF StreetIds
<1> DEFINE scope == Under(settlement, Streets)
           row == MatchStreet(location.streets[n], settlement)
<1>2. scope \in SUBSET DOMAIN Streets /\ DOMAIN Streets \subseteq Nat
  BY DEF Under, StreetsAssumption
<1>3. row = NoRow \/ \E i \in scope : row = Streets[i]
  <2> DEFINE prefer == FALSE
  <2> HIDE DEF prefer, scope
  <2>1. \/ MatchCore(location.streets[n], Streets, scope, Streetlike, prefer) = NoRow
        \/ \E i \in scope :
             MatchCore(location.streets[n], Streets, scope, Streetlike, prefer) = Streets[i]
    BY <1>2, MatchCoreIn
  <2> QED
    BY <2>1 DEF MatchStreet, prefer, scope
<1>4. row # NoRow
  BY <1>1 DEF NoRow
<1> QED
  BY <1>1, <1>3, <1>4 DEF Under

(* Outside the city no lookup escapes: what a location is taken to name is *)
(* the settlement, one of its districts or a row without a settlement.     *)
LEMMA NamedRegionOf ==
  ASSUME RegionsAssumption, NEW location, NEW settlement, OutsideTheCity(settlement),
         ARegion(settlement)
  PROVE  LET region == NamedRegion(location, settlement)
         IN \/ region = NoRow
            \/ /\ ARegion(region)
               /\ region.id = settlement.id \/ region.parent \in {0, settlement.id}
<1> DEFINE matched == MatchedRegion(location, settlement)
           region == NamedRegion(location, settlement)
<1>1. RegionOrNone(matched)
  <2>1. DOMAIN Regions \in SUBSET DOMAIN Regions /\ AtOrUnder(settlement) \in SUBSET DOMAIN Regions
    BY DEF AtOrUnder
  <2> QED
    BY <2>1, MatchRegionOf DEF MatchedRegion
<1>2. CASE StandsIn(location, matched, settlement)
  BY <1>2 DEF NamedRegion
<1>3. CASE ~StandsIn(location, matched, settlement)
  <2>1. region = matched
    BY <1>3 DEF NamedRegion
  <2>2. ~Escaped(matched, settlement)
    BY <1>3 DEF StandsIn, OutsideTheCity
  <2> HIDE DEF matched, region
  <2> QED
    BY <1>1, <2>1, <2>2 DEF RegionOrNone, Escaped, OutsideTheCity, region
<1> QED
  BY <1>2, <1>3

(* The users of a location live in its settlement, or it is taken to name  *)
(* another settlement's own row.                                           *)
LEMMA UsersStay ==
  ASSUME RegionsAssumption, StreetsAssumption, NEW location, NEW settlement,
         OutsideTheCity(settlement), RegionOrNone(settlement)
  PROVE  \/ AnotherSettlement(NamedRegion(location, settlement), settlement)
         \/ AllInSettlement(location, settlement)
<1> DEFINE region == NamedRegion(location, settlement)
           ids == IF AreaOnly(location.region_wide, location, region) \/ settlement = NoRow THEN {}
                  ELSE StreetIds(location, settlement)
<1>1. ARegion(settlement) /\ settlement.id # 0
  BY RegionOfRow DEF OutsideTheCity, RegionOrNone
<1>2. UsersWithin(location, settlement) = UsersAt(ids, region, settlement)
  BY DEF UsersWithin, UsersOf, UsersReadAs
<1>3. \/ region = NoRow
      \/ ARegion(region) /\ (region.id = settlement.id \/ region.parent \in {0, settlement.id})
  BY <1>1, NamedRegionOf
<1>4. \A id \in ids : id # 0 /\ \E i \in DOMAIN Streets :
        Streets[i].id = id /\ Streets[i].parent = settlement.id
  BY StreetIdsOf
<1> SUFFICES ASSUME ~AnotherSettlement(region, settlement),
                    NEW u \in UsersAt(ids, region, settlement)
             PROVE  InSettlement(Users[u], settlement)
  BY <1>2 DEF AllInSettlement
<1> HIDE DEF ids, region
<1>5. Users[u].street \in ids => InSettlement(Users[u], settlement)
  BY <1>4 DEF InSettlement
<1>6. ARegion(region) => region.id # 0 /\ RegionById(region.id).parent = region.parent
  BY RegionOfRow
<1>7. region # NoRow /\ Users[u].region = region.id => InSettlement(Users[u], settlement)
  BY <1>3, <1>6 DEF InSettlement
<1>8. CASE ids # {}
  <2>1. u \in OnStreets(ids, region, settlement)
    BY <1>8 DEF UsersAt
  <2>2. CASE region = NoRow
    BY <1>5, <2>1, <2>2 DEF OnStreets, UsersOnStreets, Where
  <2>3. CASE region # NoRow /\ region.id # settlement.id
    BY <1>5, <1>7, <2>1, <2>3 DEF OnStreets, UsersOnStreetsOf, Where
  <2>4. CASE region # NoRow /\ region.id = settlement.id
    BY <1>5, <1>7, <2>1, <2>4 DEF OnStreets, UsersOnStreets, UnplacedInRegion, Where
  <2> QED
    BY <2>2, <2>3, <2>4
<1>9. CASE ids = {}
  <2>1. region # NoRow /\ u \in UsersRegionWide(region)
    BY <1>9 DEF UsersAt
  <2>2. CASE Districts(region) = {}
    BY <1>7, <2>1, <2>2 DEF UsersRegionWide, UsersInRegions, Where
  <2>3. CASE Districts(region) # {}
    <3>1. ARegion(region)
      BY <1>3, <2>1
    <3>2. PICK j \in DOMAIN Regions : region = Regions[j]
      BY <3>1 DEF ARegion
    <3>3. region.parent = 0
      <4>1. PICK i \in DOMAIN Regions : Regions[i].parent = region.id
        BY <2>3 DEF Districts
      <4> QED
        BY <3>2, <4>1 DEF RegionsAssumption
    <3>4. region.id = settlement.id
      BY <2>1, <2>3, <3>3 DEF AnotherSettlement
    <3>5. region.at = settlement.at
      <4>1. PICK i \in DOMAIN Regions : settlement = Regions[i]
        BY <1>1 DEF ARegion
      <4> QED
        BY <3>2, <3>4, <4>1 DEF RegionsAssumption
    <3>6. \/ Users[u].region = region.id
          \/ \E d \in Districts(region) : Users[u].region = d.id
          \/ Users[u].region = 0 /\ Near(Users[u].at, region.at, SETTLEMENT_REACH)
      BY <2>1, <2>3 DEF UsersRegionWide, UsersInRegions, Where
    <3>7. ASSUME NEW d \in Districts(region), Users[u].region = d.id
          PROVE  InSettlement(Users[u], settlement)
      <4>1. ARegion(d) /\ d.parent = region.id
        BY DEF Districts, ARegion
      <4>2. RegionById(d.id).parent = settlement.id
        BY <3>4, <4>1, RegionOfRow
      <4> QED
        BY <3>7, <4>2 DEF InSettlement
    <3>8. Users[u].region = 0 /\ Near(Users[u].at, region.at, SETTLEMENT_REACH)
            => InSettlement(Users[u], settlement)
      BY <3>5 DEF InSettlement
    <3> QED
      BY <1>7, <2>1, <3>6, <3>7, <3>8
  <2> QED
    BY <2>2, <2>3
<1> QED
  BY <1>8, <1>9

(* A hedge reaches all those registered under the place.                   *)
LEMMA HedgeWidens ==
  ASSUME NEW location, NEW settlement, NEW region, OutsideTheCity(region)
  PROVE  RegisteredUnder(region) \subseteq UsersReadAs(TRUE, location, region, settlement)
<1>1. AreaOnly(TRUE, location, region)
  BY DEF AreaOnly, OutsideTheCity
<1>2. UsersReadAs(TRUE, location, region, settlement) = UsersAt({}, region, settlement)
  BY <1>1 DEF UsersReadAs
<1>3. UsersAt({}, region, settlement) = UsersRegionWide(region) /\ ~IsCity(region)
  BY DEF UsersAt, OutsideTheCity
<1>4. RegisteredUnder(region) \subseteq UsersRegionWide(region)
  <2>1. CASE Districts(region) = {}
    BY <1>3, <2>1 DEF UsersRegionWide, RegisteredUnder
  <2>2. CASE Districts(region) # {}
    BY <1>3, <2>2 DEF UsersRegionWide, RegisteredUnder
  <2> QED
    BY <2>1, <2>2
<1> QED
  BY <1>2, <1>3, <1>4

(* No two cores score above 1000, and only equal ones reach it.            *)
LEMMA SimilarityOf ==
  ASSUME NEW a, NEW b, IsFiniteSet(a), IsFiniteSet(b)
  PROVE  /\ Similarity(a, b) \in Int /\ Similarity(a, b) <= 1000
         /\ Similarity(a, b) >= 1000 => a = b
<1> DEFINE m == Cardinality(a \cap b)   n == Cardinality(a \cup b)
<1>1. IsFiniteSet(a \cup b) /\ a \cap b \in SUBSET (a \cup b)
  BY FS_Union
<1>2. m \in Nat /\ n \in Nat /\ m <= n /\ (n = m => a \cup b = a \cap b)
  BY <1>1, FS_CardinalityType, FS_Subset
<1>3. CASE a \cup b = {}
  BY <1>3 DEF Similarity
<1>4. CASE a \cup b # {}
  <2>1. Similarity(a, b) = (1000 * m) \div n
    BY <1>4 DEF Similarity
  <2>2. n # 0
    BY <1>1, <1>4, FS_EmptySet
  <2> HIDE DEF m, n
  <2>3. (1000 * m) \div n \in Int /\ (1000 * m) \div n <= 1000
        /\ ((1000 * m) \div n >= 1000 => m = n)
    <3> DEFINE d == (1000 * m) \div n
    <3>1. d \in Int /\ n * d <= 1000 * m
      BY <1>2, <2>2
    <3> HIDE DEF d
    <3>2. d <= 1000
      <4>1. d > 1000 => n * d > n * 1000
        BY <1>2, <2>2, <3>1
      <4> QED
        BY <1>2, <3>1, <4>1
    <3>3. d >= 1000 => n * d >= n * 1000
      BY <1>2, <2>2, <3>1
    <3> QED
      BY <1>2, <3>1, <3>2, <3>3 DEF d
  <2>4. m = n => a = b
    BY <1>2
  <2> QED
    BY <2>1, <2>3, <2>4
<1> QED
  BY <1>3, <1>4

(* A name and its equal score the most a name can.                         *)
LEMMA SameCoreScores ==
  ASSUME NEW a, IsFiniteSet(a), a # {}
  PROVE  Similarity(a, a) = 1000
<1> DEFINE n == Cardinality(a)
<1>1. n \in Nat /\ n # 0
  BY FS_CardinalityType, FS_EmptySet
<1>2. Similarity(a, a) = (1000 * n) \div n
  <2>1. a \cup a = a /\ a \cap a = a
    OBVIOUS
  <2> QED
    BY <2>1 DEF Similarity
<1> HIDE DEF n
<1> QED
  BY <1>1, <1>2

(* Written as the city, in any scope with a row of the city, a name is a   *)
(* row of the city or none.                                                *)
LEMMA CityIsFound ==
  ASSUME RegionsAssumption, CityAssumption, NEW raw, NamesTheCity(raw),
         NEW scope \in SUBSET DOMAIN Regions,
         NEW k \in scope, Regions[k].name.core = Varna, NEW prefer, prefer = TRUE
  PROVE  \/ MatchCore(raw, Regions, scope, RegionClasses, prefer) = NoRow
         \/ IsCity(MatchCore(raw, Regions, scope, RegionClasses, prefer))
<1> DEFINE scored == Scored(raw, Regions, scope)
           close == Close(raw, Regions, scored)
           pool == Pool(Regions, close, prefer)
           score(i) == CoreScore(raw, Regions[i])
<1>1. raw.core = Varna /\ raw.kind \in {"gr", "none"} /\ IsFiniteSet(Varna) /\ Varna # {}
  BY DEF NamesTheCity, CityAssumption
<1>2. \A i \in scope : /\ score(i) \in Int /\ score(i) <= 1000
                       /\ score(i) >= 1000 => Regions[i].name.core = Varna
  <2> TAKE i \in scope
  <2>1. IsFiniteSet(Regions[i].name.core)
    BY DEF RegionsAssumption
  <2> QED
    BY <1>1, <2>1, SimilarityOf DEF CoreScore
<1>3. score(k) = 1000
  BY <1>1, SameCoreScores DEF CoreScore
<1>4. k \in scored
  <2>1. Regions[k].name.kind \in {"gr", "none"}
    BY DEF CityAssumption
  <2>2. KindsCompatible(PlaceClass(raw.kind), PlaceClass(Regions[k].name.kind))
    BY <1>1, <2>1 DEF KindsCompatible, PlaceClass
  <2> QED
    BY <1>3, <2>2 DEF Scored, CORE_MATCH_THRESHOLD
<1>5. k \in close
  <2> DEFINE scores == {score(i) : i \in scored}
  <2>1. 1000 \in scores /\ \A x \in scores : x <= 1000 /\ x \in Int
    <3>1. scored \subseteq scope
      BY DEF Scored
    <3> QED
      BY <1>2, <1>3, <1>4, <3>1
  <2>2. Max(scores) = 1000
    <3> HIDE DEF scores
    <3>1. Max(scores) \in scores /\ \A x \in scores : Max(scores) >= x
      BY <2>1 DEF Max
    <3> QED
      BY <2>1, <3>1
  <2> QED
    BY <1>3, <1>4, <2>2 DEF Close, NEAR_TIE_BAND
<1>6. k \in pool
  <2>1. IsInCity(Regions[k])
    <3> DEFINE cities == {i \in DOMAIN Regions : Regions[i].name.core = Varna
                                               /\ Regions[i].at # Nowhere}
               city == FirstRow(Regions, cities)
    <3>1. \A i \in DOMAIN Regions : Regions[i].name.core = Varna =>
            Regions[i].at = Regions[k].at /\ Regions[i].at # Nowhere
      BY DEF CityAssumption
    <3>2. k \in cities /\ cities \in SUBSET DOMAIN Regions /\ DOMAIN Regions \subseteq Nat
      BY <3>1 DEF RegionsAssumption
    <3>3. \E i \in cities : city = Regions[i]
      <4> HIDE DEF cities
      <4> QED
        BY <3>2, FirstRowOf
    <3>4. city.at = Regions[k].at /\ city # NoRow
      BY <3>1, <3>3 DEF NoRow
    <3>5. CityCenter = Regions[k].at
      BY <3>4 DEF CityCenter
    <3>6. Regions[k].at \in Int /\ Regions[k].at # Nowhere
      BY <3>1 DEF RegionsAssumption
    <3>7. Distance(Regions[k].at, CityCenter) = 0
      BY <3>5, <3>6 DEF Distance
    <3> QED
      BY <3>7 DEF IsInCity, IN_CITY_RADIUS, Km
  <2> HIDE DEF close
  <2> QED
    BY <1>5, <2>1 DEF Pool, InCityFirst
<1>7. \A i \in Settled(raw, Regions, pool, prefer) : i \in scope => Regions[i].name.core = Varna
  <2> HIDE DEF pool
  <2> SUFFICES ASSUME NEW i \in Settled(raw, Regions, pool, prefer), i \in scope
               PROVE  Regions[i].name.core = Varna
    OBVIOUS
  <2>1. ~Beats(Standing(raw, Regions[k], prefer), Standing(raw, Regions[i], prefer))
    BY <1>6 DEF Settled
  <2>2. Standing(raw, Regions[k], prefer)[1] = score(k)
        /\ Standing(raw, Regions[i], prefer)[1] = score(i)
    BY DEF Standing
  <2>3. ~(score(k) > score(i))
    <3>1. 1 \in 1..3 /\ 1..(1 - 1) = {}
      OBVIOUS
    <3> QED
      BY <2>1, <2>2, <3>1 DEF Beats
  <2> HIDE DEF score
  <2> QED
    BY <1>2, <1>3, <2>3
<1>8. \/ MatchCore(raw, Regions, scope, RegionClasses, prefer) = NoRow
      \/ \E i \in scope : /\ MatchCore(raw, Regions, scope, RegionClasses, prefer) = Regions[i]
                         /\ i \in Settled(raw, Regions, pool, prefer)
  <2>1. DOMAIN Regions \subseteq Nat
    BY DEF RegionsAssumption
  <2> QED
    BY <2>1, MatchCoreOf
<1> QED
  BY <1>7, <1>8 DEF IsCity

(* So the city by name alone reaches nobody.                               *)
LEMMA CityReachesNobody ==
  ASSUME RegionsAssumption, CityAssumption, NEW location, NEW settlement,
         ARegion(settlement), IsCity(settlement), location.area = NoName,
         NamesTheCity(location.settlement), StreetIds(location, settlement) = {}
  PROVE  UsersWithin(location, settlement) = {}
<1> DEFINE raw == location.settlement
           matched == MatchedRegion(location, settlement)
<1>1. PICK k \in DOMAIN Regions : settlement = Regions[k]
  BY DEF ARegion
<1>2. Regions[k].name.core = Varna /\ k \in AtOrUnder(settlement)
  BY <1>1 DEF IsCity, AtOrUnder
<1>3. AtOrUnder(settlement) \in SUBSET DOMAIN Regions /\ settlement # NoRow
  <2>1. settlement.id # 0
    BY RegionOfRow
  <2> QED
    BY <2>1 DEF AtOrUnder, NoRow
<1>4. matched = MatchRegion(raw, AtOrUnder(settlement))
  BY <1>3 DEF MatchedRegion
<1>5. matched = NoRow \/ IsCity(matched)
  <2> DEFINE prefer == TRUE
  <2>0. prefer = TRUE
    OBVIOUS
  <2> HIDE DEF prefer
  <2>1. ASSUME NEW scope \in SUBSET DOMAIN Regions, k \in scope
        PROVE  \/ MatchCore(raw, Regions, scope, RegionClasses, prefer) = NoRow
               \/ IsCity(MatchCore(raw, Regions, scope, RegionClasses, prefer))
    BY <1>2, <2>0, <2>1, CityIsFound
  <2>2. matched = Otherwise(MatchCore(raw, Regions, AtOrUnder(settlement), RegionClasses, prefer),
                            MatchCore(raw, Regions, DOMAIN Regions, RegionClasses, prefer))
    BY <1>4 DEF MatchRegion, MatchRegionIn, prefer
  <2> QED
    BY <1>2, <1>3, <2>1, <2>2 DEF Otherwise
<1>6. NamedRegion(location, settlement) = matched
  BY DEF NamedRegion, StandsIn
<1>7. UsersWithin(location, settlement) = UsersAt({}, matched, settlement)
  BY <1>6 DEF UsersWithin, UsersOf, UsersReadAs
<1> QED
  BY <1>5, <1>7 DEF UsersAt, UsersRegionWide

(* Every recipient is a user.                                              *)
LEMMA RecipientsAreUsers ==
  ASSUME NEW a
  PROVE  Recipients(a) \subseteq DOMAIN Users
<1>1. \A location : UsersInPolygon(location.rings) \subseteq DOMAIN Users
  BY DEF UsersInPolygon, UsersInBBox, Where
<1>2. \A location : UsersInRange(location) \subseteq DOMAIN Users
  BY DEF UsersInRange, UsersWithin, UsersOf, UsersReadAs, UsersAt, OnStreets, UsersOnStreets,
         UsersOnStreetsOf, UnplacedInRegion, UsersRegionWide, UsersInRegions, Where
<1>3. Targeted(a) \subseteq DOMAIN Users
  BY <1>1, <1>2 DEF Targeted, Audience, UsersCityWide, Where
<1> QED
  BY <1>3 DEF Recipients, OnTheLines, ReceivesAll, Where

(* The chunks of a send hold its recipients, and nobody else.              *)
LEMMA ChunksCover ==
  ASSUME UsersAssumption, NEW ids \in SUBSET DOMAIN Users
  PROVE  UNION Chunks(ids) = ids
<1> DEFINE Rank(u) == Cardinality({v \in ids : v < u})
           last == Cardinality(ids) \div ChunkSize
           Chunk(n) == {u \in ids : Rank(u) \div ChunkSize = n}
<1>1. IsFiniteSet(ids) /\ Cardinality(ids) \in Nat
  BY FS_Subset, FS_CardinalityType DEF UsersAssumption
<1>2. ASSUME NEW u \in ids
      PROVE  Rank(u) \div ChunkSize \in 0..last
  <2>1. {v \in ids : v < u} \in SUBSET ids
    OBVIOUS
  <2>2. Rank(u) \in Nat /\ Rank(u) <= Cardinality(ids)
    BY <1>1, <2>1, FS_Subset, FS_CardinalityType
  <2>3. ChunkSize \in Nat /\ ChunkSize > 0
    BY DEF UsersAssumption
  <2>4. \A r, c \in Nat : r <= c => r \div ChunkSize \in 0..(c \div ChunkSize)
    BY <2>3
  <2> HIDE DEF Rank
  <2> QED
    BY <1>1, <2>2, <2>4
<1>3. Chunks(ids) = {Chunk(n) : n \in 0..last} \ {{}}
  BY DEF Chunks
<1>4. ASSUME NEW u \in ids
      PROVE  u \in UNION Chunks(ids)
  <2> DEFINE n == Rank(u) \div ChunkSize
  <2>1. n \in 0..last /\ u \in Chunk(n)
    BY <1>2
  <2> HIDE DEF n, last, Chunk
  <2> QED
    BY <1>3, <2>1
<1>5. UNION Chunks(ids) \subseteq ids
  <2> HIDE DEF Rank, last
  <2> QED
    BY <1>3
<1> QED
  BY <1>4, <1>5

(* A step of an announcement keeps what was sent and to whom.              *)
LEMMA SendStep ==
  ASSUME UsersAssumption, SendInv, Next
  PROVE  SendInv'
<1>1. CASE AiParse \/ Guard \/ BuildPolygons
  <2>1. reached' = reached /\ stage \in {"scraped", "parsed", "guarded"}
    BY <1>1 DEF AiParse, Guard, BuildPolygons
  <2>2. stage' # "told"
    BY <1>1 DEF AiParse, Guard, BuildPolygons
  <2> QED
    BY <2>1, <2>2 DEF SendInv
<1>2. CASE Send
  <2> DEFINE ids == Recipients(alert)
  <2>1. alert' = alert
    BY <1>2 DEF Send
  <2>2. PICK refused \in SUBSET Chunks(ids) :
          /\ reached' = reached \cup Sent(ids, refused).reached
          /\ stage' = IF Sent(ids, refused).ok THEN "told" ELSE "stored"
    BY <1>2 DEF Send, Sends
  <2>3. UNION Chunks(ids) = ids
    BY RecipientsAreUsers, ChunksCover
  <2>4. reached' = reached \cup UNION (Chunks(ids) \ refused)
    BY <2>2 DEF Sent
  <2>5. stage' = "told" => refused = {}
    BY <2>2 DEF Sent
  <2>6. stage' \in {"stored", "told"}
    BY <2>2
  <2>7. reached \subseteq ids
    BY DEF SendInv
  <2> HIDE DEF ids
  <2>8. reached' \subseteq ids
    BY <2>3, <2>4, <2>7
  <2>9. stage' = "told" => reached' = ids
    BY <2>3, <2>4, <2>5, <2>7
  <2>10. Recipients(alert)' = ids
    BY <2>1 DEF ids
  <2> QED
    BY <2>6, <2>8, <2>9, <2>10 DEF SendInv
<1> QED
  BY <1>1, <1>2 DEF Next

(* The audience of a stored alert follows from what it says.               *)
LEMMA AudienceOfSend ==
  ASSUME RegionsAssumption, StreetsAssumption, CityAssumption, UsersAssumption, SendInv
  PROVE  AudienceSafe
<1>1. StaysInTheSettlement
  <2> SUFFICES ASSUME NEW l \in AllLocations, OutsideTheCity(ScopeOf(l))
               PROVE  \/ AnotherSettlement(NamedRegion(l, ScopeOf(l)), ScopeOf(l))
                      \/ AllInSettlement(l, ScopeOf(l))
    BY DEF StaysInTheSettlement
  <2>1. RegionOrNone(ScopeOf(l))
    BY SettlementScopeOf DEF ScopeOf
  <2> QED
    BY <2>1, UsersStay
<1>2. LostDistrictReachesNobody
  <2> SUFFICES ASSUME NEW l \in AllLocations,
                      ScopeOf(l) # NoRow, IsCity(ScopeOf(l)),
                      l.area = NoName, NamesTheCity(l.settlement),
                      StreetIds(l, ScopeOf(l)) = {}
               PROVE  UsersWithin(l, ScopeOf(l)) = {}
    BY DEF LostDistrictReachesNobody
  <2>1. ARegion(ScopeOf(l))
    BY SettlementScopeOf DEF ScopeOf, RegionOrNone
  <2> QED
    BY <2>1, CityReachesNobody
<1>3. HedgeOnlyWidens
  BY HedgeWidens DEF HedgeOnlyWidens
<1>4. RingNeverSilences
  BY DEF RingNeverSilences, Audience
<1>5. OptOutsHold
  BY DEF OptOutsHold, SendInv, Recipients
<1>6. BroadcastKeepsTheUnplaced
  <2> SUFFICES ASSUME stage = "told", alert.locations = <<>>, alert.city_wide # "no",
                      NEW u \in DOMAIN Users, Users[u].at = Nowhere, Users[u].region = 0,
                      Users[u].lines = {}, u \notin Disabled(alert.category)
               PROVE  u \in Recipients(alert)
    BY DEF BroadcastKeepsTheUnplaced, SendInv, Where
  <2>1. RegionById(Users[u].region).at = Nowhere
    BY NoRegionZero DEF NoRow
  <2>2. u \in UsersCityWide
    BY <2>1 DEF UsersCityWide, Where
  <2>3. u \in OnTheLines(Targeted(alert), alert.lines)
    BY <2>2 DEF Targeted, OnTheLines
  <2> QED
    BY <2>3 DEF Recipients
<1>7. DoneMeansEveryone
  BY DEF DoneMeansEveryone, SendInv
<1> QED
  BY <1>1, <1>2, <1>3, <1>4, <1>5, <1>6, <1>7 DEF AudienceSafe

(* An announcement reaches the settlement it names, nobody where only the  *)
(* city is named, everyone it should on a broadcast, more with a hedge or  *)
(* a ring, never a user who opted out, and is done when all were accepted  *)
(* (sendUsersNotification), for any tables, users, texts and parses.       *)
THEOREM AudienceIsRight ==
  ASSUME RegionsAssumption, StreetsAssumption, CityAssumption, UsersAssumption
  PROVE  AlgorithmsSpec => []AudienceSafe
<1>1. AlgorithmsInit => SendInv
  BY DEF AlgorithmsInit, Init, Idle, SendInv
<1>2. SendInv /\ [AlgorithmsNext]_<<vars, job, callVars>> => SendInv'
  <2> SUFFICES ASSUME SendInv, [AlgorithmsNext]_<<vars, job, callVars>>
               PROVE  SendInv'
    OBVIOUS
  <2>1. CASE Next
    BY <2>1, SendStep
  <2>2. CASE UNCHANGED vars
    BY <2>2 DEF vars, SendInv
  <2> QED
    BY <2>1, <2>2 DEF AlgorithmsNext, StoreSchedule, BuildBlock, Attempt
<1>3. SendInv => AudienceSafe
  BY AudienceOfSend
<1> QED
  BY <1>1, <1>2, <1>3, PTL DEF AlgorithmsSpec

(* A guarded output that names no place and is city-wide comes from a text *)
(* that says so, and from no other (applyCityWideGuard).                   *)
LEMMA GuardOf ==
  ASSUME NEW output, NEW message, NEW category,
         DOMAIN output = {"locations", "city_wide"},
         DOMAIN NormalizeParse(output, message, category).locations = {},
         NormalizeParse(output, message, category).city_wide
  PROVE  Says(message, {"everyone"})
<1> DEFINE normal == Normalized(output, message, category)
           said == Says(message, {"everyone"})
<1>1. DOMAIN normal = {"locations", "city_wide"}
  BY DEF Normalized
<1>2. NormalizeParse(output, message, category) = ApplyCityWideGuard(normal, message)
  BY DEF NormalizeParse
<1> HIDE DEF normal
<1>3. CASE DOMAIN normal.locations = {}
  <2>1. ApplyCityWideGuard(normal, message) = [normal EXCEPT !.city_wide = @ /\ said]
    BY <1>3 DEF ApplyCityWideGuard
  <2>2. ApplyCityWideGuard(normal, message).city_wide = (normal.city_wide /\ said)
    BY <1>1, <2>1
  <2> QED
    BY <1>2, <2>2
<1>4. CASE DOMAIN normal.locations # {}
  <2> SUFFICES ASSUME ~said  PROVE FALSE
    OBVIOUS
  <2>1. ApplyCityWideGuard(normal, message) = normal
    BY <1>4 DEF ApplyCityWideGuard
  <2> QED
    BY <1>2, <1>4, <2>1
<1> QED
  BY <1>3, <1>4

(* A step of an announcement makes no broadcast of it.                     *)
LEMMA BroadcastStep ==
  ASSUME ParsesAssumption, BroadcastInv, Next
  PROVE  BroadcastInv'
<1>1. CASE AiParse
  <2>1. /\ stage = "scraped" /\ text' = FoldMixedScript(text) /\ alert' = alert
        /\ \/ stage' = "failed"
           \/ stage' = "parsed" /\ parsed' \in Parses(text')
    BY <1>1 DEF AiParse
  <2>2. text \in Messages /\ alert = Blank(alert.category)
    BY <2>1 DEF BroadcastInv
  <2>3. stage' = "parsed" => DOMAIN parsed' = {"locations", "city_wide"}
    BY <2>1, <2>2 DEF ParsesAssumption
  <2>4. stage' \in {"failed", "parsed"}
    BY <2>1
  <2>5. BroadcastOnlyWhenSaid'
    BY <2>4 DEF BroadcastOnlyWhenSaid, Guarded
  <2> QED
    BY <2>1, <2>2, <2>3, <2>4, <2>5 DEF BroadcastInv
<1>2. CASE Guard
  <2> DEFINE output == NormalizeParse(parsed, text, alert.category)
  <2>1. stage = "parsed" /\ stage' = "guarded" /\ text' = text /\ alert' = Filled(alert, output)
    BY <1>2 DEF Guard
  <2>2. alert = Blank(alert.category)
    BY <2>1 DEF BroadcastInv
  <2>3. DOMAIN parsed = {"locations", "city_wide"}
    BY <2>1 DEF BroadcastInv
  <2> HIDE DEF output
  <2>4. /\ alert'.locations = [i \in DOMAIN output.locations |->
                                 output.locations[i] @@ [rings |-> {}]]
        /\ alert'.city_wide = IF output.city_wide THEN "yes" ELSE "no"
    BY <2>1, <2>2 DEF Filled, Blank
  <2>5. BroadcastOnlyWhenSaid'
    <3> SUFFICES ASSUME alert'.locations = <<>>, alert'.city_wide # "no"
                 PROVE  Says(text, {"everyone"})
      BY <2>1 DEF BroadcastOnlyWhenSaid, Guarded, Says
    <3>1. DOMAIN output.locations = {}
      BY <2>4
    <3>2. output.city_wide
      BY <2>4
    <3> QED
      BY <2>3, <3>1, <3>2, GuardOf DEF output
  <2> QED
    BY <2>1, <2>5 DEF BroadcastInv
<1>3. CASE BuildPolygons \/ Send
  <2>1. stage' \in {"stored", "told"}
    BY <1>3 DEF BuildPolygons, Send, Sends
  <2> QED
    BY <2>1 DEF BroadcastInv, BroadcastOnlyWhenSaid, Guarded
<1> QED
  BY <1>1, <1>2, <1>3 DEF Next

(* A push to the whole city goes out only when the text says so, whatever  *)
(* the model answered and whatever the guards removed (normalizeParse).    *)
THEOREM BroadcastIsSaid ==
  ASSUME ParsesAssumption
  PROVE  AlgorithmsSpec => []BroadcastOnlyWhenSaid
<1>1. AlgorithmsInit => BroadcastInv
  BY DEF AlgorithmsInit, Init, Idle, Blank, BroadcastInv, BroadcastOnlyWhenSaid, Guarded
<1>2. BroadcastInv /\ [AlgorithmsNext]_<<vars, job, callVars>> => BroadcastInv'
  <2> SUFFICES ASSUME BroadcastInv, [AlgorithmsNext]_<<vars, job, callVars>>
               PROVE  BroadcastInv'
    OBVIOUS
  <2>1. CASE Next
    BY <2>1, BroadcastStep
  <2>2. CASE UNCHANGED vars
    BY <2>2 DEF vars, BroadcastInv, BroadcastOnlyWhenSaid, Guarded
  <2> QED
    BY <2>1, <2>2 DEF AlgorithmsNext, StoreSchedule, BuildBlock, Attempt
<1>3. BroadcastInv => BroadcastOnlyWhenSaid
  BY DEF BroadcastInv
<1> QED
  BY <1>1, <1>2, <1>3, PTL DEF AlgorithmsSpec

(***************************************************************************)
(* When an alert is on.                                                    *)
(***************************************************************************)

(* An instant is its day and its clock, and only its own.                  *)
LEMMA DayOf ==
  ASSUME DayAssumption, NEW d \in Int, NEW c \in 0..(Day - 1)
  PROVE  /\ Instant(d, c) \in Int
         /\ Instant(d, c) \div Day = d /\ Instant(d, c) % Day = c
<1>1. Day \in Nat /\ Day > 0
  BY DEF DayAssumption
<1>2. d * Day \in Int
  BY <1>1
<1> QED
  BY <1>1, <1>2 DEF Instant

(* And every instant has its day and its clock.                            *)
LEMMA InstantOf ==
  ASSUME DayAssumption, NEW at \in Int
  PROVE  /\ at \div Day \in Int /\ at % Day \in 0..(Day - 1)
         /\ at = Instant(at \div Day, at % Day)
<1>1. Day \in Nat /\ Day > 0
  BY DEF DayAssumption
<1>2. at \div Day \in Int /\ at % Day \in 0..(Day - 1)
  BY <1>1
<1>3. at = Day * (at \div Day) + (at % Day)
  BY <1>1
<1>4. Day * (at \div Day) = (at \div Day) * Day
  BY <1>1, <1>2
<1> QED
  BY <1>2, <1>3, <1>4 DEF Instant

(* Days follow one another.                                                *)
LEMMA NextDay ==
  ASSUME DayAssumption, NEW d \in Int, NEW e \in Int, NEW c \in Int
  PROVE  /\ Instant(d, c) \in Int
         /\ Instant(d + 1, c) = Instant(d, c) + Day
         /\ Instant(d, c) = Instant(d, 0) + c
         /\ d < e => Instant(d, 0) + Day <= Instant(e, 0)
<1>1. Day \in Nat /\ Day > 0
  BY DEF DayAssumption
<1>2. (d + 1) * Day = d * Day + Day /\ d * Day \in Int
  BY <1>1
<1>3. d < e => (d + 1) * Day <= e * Day
  BY <1>1
<1> QED
  BY <1>1, <1>2, <1>3 DEF Instant

(* What is known of a window whose bounds are set and differ.              *)
ClosedWindow(w) == w.start \in 0..(Day - 1) /\ w.end \in 0..(Day - 1) /\ w.start # w.end

Hours(d, w) == Instant(d, w.start)..(Instant(IF w.end < w.start THEN d + 1 ELSE d, w.end) - 1)

(* An instant lies in the hours of a window on a day exactly when the app  *)
(* finds it there by its date and its clock.                               *)
LEMMA HoursOf ==
  ASSUME DayAssumption, NEW w, ClosedWindow(w), NEW d \in Int, NEW at \in Int
  PROVE  at \in Hours(d, w) <=>
           \/ /\ w.end > w.start /\ at \div Day = d
              /\ w.start <= at % Day /\ at % Day < w.end
           \/ w.end <= w.start /\ at \div Day = d /\ at % Day >= w.start
           \/ w.end <= w.start /\ at \div Day - 1 = d /\ at % Day < w.end
<1> DEFINE e == at \div Day   c == at % Day   b == Instant(d, 0)
<1>1. Day \in Nat /\ Day > 0 /\ w.start \in 0..(Day - 1) /\ w.end \in 0..(Day - 1)
      /\ w.start # w.end
  BY DEF DayAssumption, ClosedWindow
<1>2. e \in Int /\ c \in 0..(Day - 1) /\ at = Instant(e, c)
  BY InstantOf
<1> HIDE DEF e, c
<1>0. \A x, y \in Int : Instant(x, y) \in Int /\ Instant(x, y) = Instant(x, 0) + y
  BY NextDay
<1>11. \A x, y \in Int : Instant(x + 1, y) = Instant(x, y) + Day
  BY NextDay
<1>12. \A x, y \in Int : x < y => Instant(x, 0) + Day <= Instant(y, 0)
  BY NextDay
<1>13. c \in Int /\ w.start \in Int /\ w.end \in Int /\ 0 \in Int
  BY <1>1, <1>2
<1>3. at = Instant(e, 0) + c /\ Instant(e, 0) \in Int /\ b \in Int
  BY <1>0, <1>2, <1>13
<1>4. /\ Instant(d, w.start) = b + w.start /\ Instant(d, w.end) = b + w.end
      /\ Instant(d + 1, w.end) = b + Day + w.end
  <2>1. /\ Instant(d, w.start) = b + w.start /\ Instant(d, w.end) = b + w.end
        /\ Instant(d, w.end) \in Int /\ Instant(d + 1, w.end) = Instant(d, w.end) + Day
    BY <1>0, <1>11, <1>13
  <2> HIDE DEF b
  <2> QED
    BY <1>1, <1>3, <1>13, <2>1
<1>5. /\ e < d => Instant(e, 0) + Day <= b
      /\ e = d => Instant(e, 0) = b
      /\ e = d + 1 => Instant(e, 0) = b + Day
      /\ e > d + 1 => b + Day + Day <= Instant(e, 0)
  <2>1. e < d => Instant(e, 0) + Day <= b
    BY <1>2, <1>12
  <2>2. Instant(d + 1, 0) = b + Day
    BY <1>11, <1>13
  <2>3. e > d + 1 => Instant(d + 1, 0) + Day <= Instant(e, 0)
    BY <1>2, <1>12
  <2> QED
    BY <1>2, <2>1, <2>2, <2>3
<1> DEFINE f == Instant(e, 0)
<1> HIDE DEF b, f
<1>6. CASE w.end > w.start
  <2>1. at \in Hours(d, w) <=> b + w.start <= at /\ at <= b + w.end - 1
    BY <1>1, <1>3, <1>4, <1>6 DEF Hours
  <2>2. e < d \/ e = d \/ e > d
    BY <1>2
  <2>3. e > d => b + Day <= f
    BY <1>1, <1>2, <1>3, <1>5 DEF f
  <2>4. at = f + c /\ f \in Int /\ (e < d => f + Day <= b) /\ (e = d => f = b)
    BY <1>3, <1>5 DEF f
  <2>5. at \in Hours(d, w) <=> e = d /\ w.start <= c /\ c < w.end
    BY <1>1, <1>2, <1>3, <2>1, <2>2, <2>3, <2>4
  <2> QED
    BY <1>1, <1>6, <2>5 DEF e, c
<1>7. CASE w.end < w.start
  <2>1. at \in Hours(d, w) <=> b + w.start <= at /\ at <= b + Day + w.end - 1
    BY <1>1, <1>3, <1>4, <1>7 DEF Hours
  <2>2. e < d \/ e = d \/ e = d + 1 \/ e > d + 1
    BY <1>2
  <2>3. /\ at = f + c /\ f \in Int /\ (e < d => f + Day <= b) /\ (e = d => f = b)
        /\ (e = d + 1 => f = b + Day) /\ (e > d + 1 => b + Day + Day <= f)
    BY <1>3, <1>5 DEF f
  <2>4. at \in Hours(d, w) <=> (e = d /\ c >= w.start) \/ (e = d + 1 /\ c < w.end)
    BY <1>1, <1>2, <1>3, <1>7, <2>1, <2>2, <2>3
  <2>5. e = d + 1 <=> e - 1 = d
    BY <1>2
  <2> QED
    BY <1>1, <1>7, <2>4, <2>5 DEF e, c
<1> QED
  BY <1>1, <1>6, <1>7

(* What a stored schedule is made of.                                      *)
ScheduleOf(raw) ==
  /\ raw.from \in Int /\ raw.to \in Int /\ DOMAIN raw.windows \subseteq Int
  /\ \A i \in DOMAIN raw.windows : raw.windows[i].start \in Int /\ raw.windows[i].end \in Int

(* The windows that are read have clocks, or no value, for bounds.         *)
LEMMA ReadableOf ==
  ASSUME DayAssumption, NEW raw, ScheduleOf(raw)
  PROVE  \A w \in Readable(raw.windows) :
           /\ w.start \in {None} \cup 0..(Day - 1) /\ w.end \in {None} \cup 0..(Day - 1)
           /\ w.at \in Int
<1>1. Day \in Nat /\ Day > 0
  BY DEF DayAssumption
<1>2. \A clock \in Int : NormalizeClock(clock) \in {None} \cup 0..(Day - 1)
  BY <1>1 DEF NormalizeClock, None
<1> QED
  BY <1>2 DEF Readable, ScheduleOf

(* The dates of a schedule with a window are two, in order.                *)
LEMMA DatesOf ==
  ASSUME NEW raw, ScheduleOf(raw), NEW windows, windows # {}, NEW today \in Nat
  PROVE  /\ From(raw, windows, today) \in Nat
         /\ To(raw, From(raw, windows, today)) \in Nat
         /\ From(raw, windows, today) <= To(raw, From(raw, windows, today))
<1> DEFINE from == From(raw, windows, today)
<1>1. \A date \in Int : /\ NormalizeDate(date) \in Int
                        /\ NormalizeDate(date) # None => NormalizeDate(date) \in Nat
  BY DEF NormalizeDate, None
<1>2. raw.from \in Int /\ raw.to \in Int
  BY DEF ScheduleOf
<1>3. from \in Nat
  BY <1>1, <1>2 DEF From
<1> HIDE DEF from
<1>4. To(raw, from) \in Nat /\ from <= To(raw, from)
  <2> DEFINE to == NormalizeDate(raw.to)
  <2>1. to \in Int
    BY <1>1, <1>2
  <2> HIDE DEF to
  <2> QED
    BY <1>3, <2>1 DEF To, to
<1> QED
  BY <1>3, <1>4 DEF from

(* What a closed message publishes has a last instant, or none.            *)
LEMMA PublishedIsBounded ==
  ASSUME DayAssumption, NEW raw, ScheduleOf(raw), NEW today \in Nat, Closed(raw),
         NEW created \in Int
  PROVE  Max(Published(raw, today) \cup {created}) \in Int
<1> DEFINE windows == Readable(raw.windows)
           from == From(raw, windows, today)
           to == To(raw, from)
           low == Instant(from, 0)
           high == Instant(to + 1, Day)
           pub == Published(raw, today)
<1>1. windows # {} /\ \A w \in windows : ClosedWindow(w)
  BY ReadableOf DEF Closed, ClosedWindow
<1>2. from \in Int /\ to \in Int /\ from <= to
  BY <1>1, DatesOf
<1>3. pub = UNION {Hours(d, w) : d \in from..to, w \in windows}
  BY DEF Published, Hours
<1>0. Day \in Int /\ Day > 0 /\ 0 \in Int
  BY DEF DayAssumption
<1>4. low \in Int /\ high \in Int
  <2>1. \A x, y \in Int : Instant(x, y) \in Int
    BY NextDay
  <2>2. to + 1 \in Int
    BY <1>2
  <2> QED
    BY <1>0, <1>2, <2>1, <2>2
<1>5. ASSUME NEW at \in pub  PROVE at \in Int
  <2>1. PICK d \in from..to, w \in windows : at \in Hours(d, w)
    BY <1>3, <1>5
  <2> QED
    BY <2>1 DEF Hours
<1>6. pub \subseteq low..high
  <2> SUFFICES ASSUME NEW d \in from..to, NEW w \in windows, NEW at \in Hours(d, w)
               PROVE  at \in low..high
    BY <1>3
  <2>1. ClosedWindow(w) /\ d \in Int /\ at \in Int /\ d <= to /\ from <= d
    BY <1>1, <1>2 DEF Hours
  <2>2. w.start \in Int /\ w.end \in Int /\ w.start >= 0 /\ w.end < Day
    BY <1>0, <2>1 DEF ClosedWindow
  <2>3. Instant(d, w.start) <= at /\ at <= Instant(IF w.end < w.start THEN d + 1 ELSE d, w.end) - 1
    <3>1. \A a, b : at \in a..b => a <= at /\ at <= b
      OBVIOUS
    <3> QED
      BY <3>1 DEF Hours
  <2>4. \A x, y \in Int : Instant(x, y) \in Int /\ Instant(x, y) = Instant(x, 0) + y
    BY NextDay
  <2>5. \A x, y \in Int : x < y => Instant(x, 0) + Day <= Instant(y, 0)
    BY NextDay
  <2>6. low <= Instant(d, 0)
    <3>1. from < d => low + Day <= Instant(d, 0)
      BY <1>2, <2>1, <2>5
    <3>2. Instant(d, 0) \in Int
      BY <1>0, <2>1, <2>4
    <3>3. from < d \/ from = d
      BY <1>2, <2>1
    <3> HIDE DEF from
    <3> QED
      BY <1>0, <1>4, <3>1, <3>2, <3>3
  <2>7. Instant(d + 1, 0) <= Instant(to + 1, 0)
    <3>1. d < to => Instant(d + 1, 0) + Day <= Instant(to + 1, 0)
      BY <1>2, <2>1, <2>5
    <3>2. d + 1 \in Int /\ to + 1 \in Int
      BY <1>2, <2>1
    <3>3. Instant(d + 1, 0) \in Int /\ Instant(to + 1, 0) \in Int
      BY <1>0, <2>4, <3>2
    <3> HIDE DEF to
    <3> QED
      BY <1>0, <1>2, <2>1, <3>1, <3>3
  <2>8. Instant(d, 0) <= Instant(d + 1, 0) /\ Instant(d, 0) \in Int /\ Instant(d + 1, 0) \in Int
    <3>1. Instant(d, 0) \in Int /\ Instant(d + 1, 0) \in Int
      BY <1>0, <2>1, <2>4
    <3>2. Instant(d, 0) + Day <= Instant(d + 1, 0)
      BY <2>1, <2>5
    <3> QED
      BY <1>0, <3>1, <3>2
  <2> DEFINE last == IF w.end < w.start THEN d + 1 ELSE d
             s == Instant(d, 0)
             e == Instant(last, 0)
             t == Instant(to + 1, 0)
  <2>9. s + w.start <= at /\ at <= e + w.end - 1 /\ high = t + Day
    <3>1. last \in Int /\ to + 1 \in Int
      BY <1>2, <2>1
    <3>2. Instant(d, w.start) = s + w.start /\ Instant(last, w.end) = e + w.end /\ high = t + Day
      BY <1>0, <2>1, <2>2, <2>4, <3>1
    <3>0. e \in Int /\ Instant(last, w.end) \in Int
      BY <1>0, <2>2, <2>4, <3>1
    <3>3. Instant(d, w.start) <= at /\ at <= Instant(last, w.end) - 1
      BY <2>3
    <3> HIDE DEF s, e, t, high, last
    <3>4. s + w.start <= at
      BY <3>2, <3>3
    <3>5. at <= e + w.end - 1
      BY <2>2, <3>0, <3>2, <3>3
    <3> QED
      BY <3>2, <3>4, <3>5
  <2>10. e \in Int /\ s \in Int /\ t \in Int /\ e <= t /\ low <= s
    <3>1. t \in Int
      BY <1>0, <1>2, <2>4
    <3>2. CASE last = d
      BY <2>6, <2>7, <2>8, <3>1, <3>2
    <3>3. CASE last = d + 1
      BY <2>6, <2>7, <2>8, <3>1, <3>3
    <3> QED
      BY <3>2, <3>3
  <2> HIDE DEF low, high, s, e, t
  <2> QED
    BY <1>0, <1>4, <2>1, <2>2, <2>9, <2>10
<1> HIDE DEF low, high, pub
<1>7. IsFiniteSet(low..high)
  BY <1>4, FS_Interval
<1>8. IsFiniteSet(pub \cup {created})
  BY <1>6, <1>7, FS_Subset, FS_AddElement
<1>9. pub \cup {created} \subseteq Int /\ pub \cup {created} # {}
  BY <1>5
<1> DEFINE all == pub \cup {created}
<1> HIDE DEF all
<1>10. Max(all) \in Int
  BY <1>8, <1>9, MaxOf DEF all
<1> QED
  BY <1>10 DEF all, pub

(* Where the windows are kept, the app's test by date and clock is the     *)
(* message's list of hours.                                                *)
LEMMA KeptIsPublished ==
  ASSUME DayAssumption, NEW windows, \A w \in windows : ClosedWindow(w),
         NEW from \in Int, NEW to \in Int, NEW at \in Int
  PROVE  InWindows([from |-> from, to |-> to, daily |-> windows], at) <=>
           \E d \in from..to, w \in windows : at \in Hours(d, w)
<1> DEFINE range == [from |-> from, to |-> to, daily |-> windows]
           date == at \div Day
           On(w, d) ==
             \/ /\ w.end > w.start /\ date = d
                /\ w.start <= at % Day /\ at % Day < w.end
             \/ w.end <= w.start /\ date = d /\ at % Day >= w.start
             \/ w.end <= w.start /\ date - 1 = d /\ at % Day < w.end
<1>1. date \in Int
  BY InstantOf
<1>2. \A d \in from..to, w \in windows : at \in Hours(d, w) <=> On(w, d)
  BY HoursOf
<1>3. range.from = from /\ range.to = to /\ range.daily = windows
  OBVIOUS
<1> HIDE DEF range, date
<1>4. InWindows(range, at) <=> \E w \in windows : \E d \in from..to : On(w, d)
  BY <1>1, <1>3 DEF InWindows, date
<1> HIDE DEF On
<1> QED
  BY <1>2, <1>4 DEF range

(* A window alone: its start is the first and its end the last.            *)
LEMMA AloneOf ==
  ASSUME NEW w, w.start \in Int, w.end \in Int, w.at \in Int, None \notin {w.start, w.end}
  PROVE  FirstStart({w}) = w.start /\ LastEnd({w}) = w.end
<1>1. {v \in {w} : v.start # None} = {w} /\ {v \in {w} : v.end # None} = {w}
  OBVIOUS
<1>2. ~Before(w, w)
  BY DEF Before
<1>3. (CHOOSE v \in {w} : \A u \in {w} : ~Before(u, v)) = w
  BY <1>2
<1>4. (CHOOSE v \in {w} : \A u \in {w} : ~Before(v, u)) = w
  BY <1>2
<1>5. FirstStart({w}) = w.start
  BY <1>1, <1>3 DEF FirstStart
<1>6. LastEnd({w}) = w.end
  BY <1>1, <1>4 DEF LastEnd
<1> QED
  BY <1>5, <1>6

(* What is left of a message that is not kept in detail is one day's only  *)
(* window.                                                                 *)
LEMMA NotKeptIsAlone ==
  ASSUME NEW windows, windows # {}, \A w \in windows : ClosedWindow(w), NEW from, NEW to,
         ~KeepsWindows(windows, from, to)
  PROVE  from = to /\ \E w \in windows : windows = {w}
<1>1. \A w \in windows : None \notin {w.start, w.end}
  BY DEF ClosedWindow, None
<1>2. from = to /\ \A v, w \in windows : v = w
  BY <1>1 DEF KeepsWindows
<1> QED
  BY <1>2

(* One day's only window is on until it ends, and no longer.               *)
LEMMA AloneIsPublished ==
  ASSUME DayAssumption, NEW w, ClosedWindow(w), NEW from \in Nat, NEW at \in Int,
         NEW end, end = Instant(IF w.end < w.start THEN from + 1 ELSE from, w.end)
  PROVE  /\ end \in Int /\ end # None
         /\ at \in Hours(from, w) => end > at
         /\ end > at => \E later \in Hours(from, w) : later >= at
<1>1. Day \in Nat /\ Day > 0 /\ w.start \in 0..(Day - 1) /\ w.end \in 0..(Day - 1)
      /\ w.start # w.end
  BY DEF DayAssumption, ClosedWindow
<1>2. from * Day \in Nat
  BY <1>1
<1>3. /\ Instant(from, w.start) = from * Day + w.start
      /\ end = (IF w.end < w.start THEN from * Day + Day ELSE from * Day) + w.end
  <2>1. (from + 1) * Day = from * Day + Day
    BY <1>1
  <2>2. CASE w.end < w.start
    BY <1>2, <2>1, <2>2 DEF Instant
  <2>3. CASE ~(w.end < w.start)
    BY <1>2, <2>3 DEF Instant
  <2> QED
    BY <2>2, <2>3
<1> DEFINE f == from * Day
<1> HIDE DEF f
<1>4. f \in Nat /\ Instant(from, w.start) = f + w.start
      /\ end = (IF w.end < w.start THEN f + Day ELSE f) + w.end
  BY <1>2, <1>3 DEF f
<1>5. end \in Int /\ end >= 0 /\ f + w.start <= end - 1
  BY <1>1, <1>4
<1>6. Hours(from, w) = (f + w.start)..(end - 1)
  BY <1>4 DEF Hours
<1>7. f + w.start \in Int
  BY <1>1, <1>4
<1>8. end > at => end - 1 \in Hours(from, w) /\ end - 1 >= at
  BY <1>5, <1>6, <1>7
<1>9. at \in Hours(from, w) => end > at
  BY <1>5, <1>6, <1>7
<1> QED
  BY <1>5, <1>8, <1>9 DEF None

(* Whatever a message that closes its windows states, the app shows its    *)
(* alert at every instant of theirs (normalizeSchedule, isActive).         *)
LEMMA ActiveOf ==
  ASSUME DayAssumption, NEW raw, ScheduleOf(raw), NEW today \in Nat, NEW created \in Int
  PROVE  ActiveExactly(raw, today, created)
<1> DEFINE windows == Readable(raw.windows)
           from == From(raw, windows, today)
           to == To(raw, from)
           time == NormalizeSchedule(raw, today)
           pub == Published(raw, today)
<1> SUFFICES ASSUME Closed(raw)
             PROVE  OnExactly(time, pub, created)
  BY DEF ActiveExactly
<1>1. windows # {} /\ \A w \in windows : ClosedWindow(w)
  BY ReadableOf DEF Closed, ClosedWindow
<1>2. from \in Nat /\ to \in Nat /\ from <= to /\ from # None
  BY <1>1, DatesOf DEF None
<1>3. pub = UNION {Hours(d, w) : d \in from..to, w \in windows}
  BY DEF Published, Hours
<1>4. \A w \in windows : w.start \in Int /\ w.end \in Int /\ w.at \in Int
                         /\ None \notin {w.start, w.end}
  <2>1. \A w \in windows : w.at \in Int
    BY ReadableOf
  <2> QED
    BY <1>1, <2>1 DEF ClosedWindow, None
<1>5. Max(pub \cup {created}) + 2 * Day \in Int
  <2>1. Max(pub \cup {created}) \in Int
    BY PublishedIsBounded
  <2> QED
    BY <2>1 DEF DayAssumption
<1> DEFINE IsOn(at) == IsActive("vik", time, created, at)
           Right(at) ==
             /\ at \in pub => IsOn(at)
             /\ time.windows # NoWindows /\ IsOn(at) => at \in pub
             /\ IsOn(at) => \E later \in pub : later >= at
<1>6. SUFFICES ASSUME NEW at \in Int  PROVE Right(at)
  BY <1>5, <1>6 DEF OnExactly
<1>7. CASE KeepsWindows(windows, from, to)
  <2> DEFINE range == [from |-> from, to |-> to, daily |-> windows]
  <2>1. time.windows = range
    BY <1>2, <1>7 DEF NormalizeSchedule
  <2>2. range # NoWindows
    BY <1>1 DEF NoWindows
  <2>3. IsOn(at) <=> InWindows(range, at)
    BY <2>1, <2>2 DEF IsActive
  <2>4. InWindows(range, at) <=> \E d \in from..to, w \in windows : at \in Hours(d, w)
    BY <1>1, <1>2, KeptIsPublished
  <2> HIDE DEF range, time, IsOn, windows, from, to
  <2>5. IsOn(at) <=> at \in pub
    BY <1>3, <2>3, <2>4
  <2> QED
    BY <2>5
<1>8. CASE ~KeepsWindows(windows, from, to)
  <2>1. from = to
    BY <1>1, <1>8, NotKeptIsAlone
  <2>2. PICK w \in windows : windows = {w}
    BY <1>1, <1>8, NotKeptIsAlone
  <2>3. FirstStart(windows) = w.start /\ LastEnd(windows) = w.end
    BY <1>4, <2>2, AloneOf
  <2> DEFINE end == Instant(IF w.end < w.start THEN from + 1 ELSE from, w.end)
  <2>4. time.windows = NoWindows /\ time.end = end
    BY <1>2, <1>4, <1>8, <2>1, <2>3 DEF NormalizeSchedule
  <2>5. /\ end \in Int /\ end # None
        /\ at \in Hours(from, w) => end > at
        /\ end > at => \E later \in Hours(from, w) : later >= at
    BY <1>1, <1>2, AloneIsPublished
  <2>6. pub = Hours(from, w)
    BY <1>2, <1>3, <2>1, <2>2
  <2> HIDE DEF end, time, pub
  <2>7. IsOn(at) <=> end > at
    BY <2>4, <2>5 DEF IsActive, ActiveUntil
  <2> QED
    BY <2>4, <2>5, <2>6, <2>7
<1> QED
  BY <1>7, <1>8

(* A schedule that was stored is one a parse may state.                    *)
JobInv == job.kind = "schedule" => job.raw \in Schedules /\ job.created \in Created

(* An alert whose message closes its windows is shown as the message says: *)
(* the app's dates and clocks, the envelope and the kept windows lose and  *)
(* add no instant, whatever the schedule, the day and the moment it was    *)
(* stored (normalizeSchedule of datetime.ts, isActive of HomeScreen.tsx).  *)
THEOREM ScheduleIsRight ==
  ASSUME DayAssumption, SchedulesAssumption
  PROVE  AlgorithmsSpec => []ActiveWhenPublished
<1>1. AlgorithmsInit => JobInv
  BY DEF AlgorithmsInit, NoJob, JobInv
<1>2. JobInv /\ [AlgorithmsNext]_<<vars, job, callVars>> => JobInv'
  <2> SUFFICES ASSUME JobInv, [AlgorithmsNext]_<<vars, job, callVars>>  PROVE JobInv'
    OBVIOUS
  <2>1. CASE StoreSchedule
    BY <2>1 DEF StoreSchedule, JobInv
  <2>2. CASE BuildBlock
    BY <2>2 DEF BuildBlock, JobInv
  <2>3. CASE job' = job
    BY <2>3 DEF JobInv
  <2> QED
    BY <2>1, <2>2, <2>3 DEF AlgorithmsNext, Attempt
<1>3. JobInv => ActiveWhenPublished
  <2> SUFFICES ASSUME JobInv, job.kind = "schedule"
               PROVE  ActiveExactly(job.raw, Today, job.created)
    BY DEF ActiveWhenPublished
  <2> DEFINE raw == job.raw   created == job.created
  <2>1. ScheduleOf(raw) /\ Today \in Nat /\ created \in Int
    BY DEF JobInv, SchedulesAssumption, ScheduleOf
  <2> HIDE DEF raw, created
  <2>2. ActiveExactly(raw, Today, created)
    BY <2>1, ActiveOf
  <2> QED
    BY <2>2 DEF raw, created
<1> QED
  BY <1>1, <1>2, <1>3, PTL DEF AlgorithmsSpec

(***************************************************************************)
(* The block of a message.                                                 *)
(***************************************************************************)

(* The counts of a prefix and of the whole ring.                           *)
LEMMA HitsOf ==
  ASSUME NEW samples, Len(samples) \in Nat, NEW n \in 0..Len(samples), NEW street
  PROVE  LET hits == HitsAmong(samples, n, street)
             all == HitsAmong(samples, Len(samples), street)
         IN hits \in Nat /\ all \in Nat /\ hits <= all /\ all <= hits + (Len(samples) - n)
<1> DEFINE len == Len(samples)
           A == {i \in 1..n : street \in samples[i]}
           B == {i \in 1..len : street \in samples[i]}
           C == (n + 1)..len
<1>1. len \in Nat /\ n \in Nat /\ n <= len
  OBVIOUS
<1> HIDE DEF len
<1>2. A \subseteq 1..n /\ B \subseteq 1..len /\ A \subseteq B /\ B \subseteq A \cup C
  BY <1>1
<1>3. IsFiniteSet(1..n) /\ IsFiniteSet(1..len) /\ IsFiniteSet(C) /\ Cardinality(C) = len - n
  <2>1. IsFiniteSet(1..n) /\ IsFiniteSet(1..len)
    BY <1>1, FS_Interval
  <2>2. n + 1 \in Int /\ len \in Int
    BY <1>1
  <2>3. IsFiniteSet(C) /\ Cardinality(C) = IF n + 1 > len THEN 0 ELSE len - (n + 1) + 1
    BY <2>2, FS_Interval
  <2> HIDE DEF C
  <2> QED
    BY <1>1, <2>1, <2>3
<1> HIDE DEF A, B, C
<1>4. IsFiniteSet(A) /\ IsFiniteSet(B)
  BY <1>2, <1>3, FS_Subset
<1>5. Cardinality(A) \in Nat /\ Cardinality(B) \in Nat /\ Cardinality(A) <= Cardinality(B)
  BY <1>2, <1>4, FS_Subset, FS_CardinalityType
<1>6. IsFiniteSet(A \cup C) /\ Cardinality(A \cup C) <= Cardinality(A) + (len - n)
  <2>1. /\ IsFiniteSet(A \cup C) /\ IsFiniteSet(A \cap C)
        /\ Cardinality(A \cup C) = Cardinality(A) + Cardinality(C) - Cardinality(A \cap C)
    BY <1>3, <1>4, FS_Union, FS_Intersection
  <2>2. Cardinality(A \cap C) \in Nat
    BY <2>1, FS_CardinalityType
  <2> QED
    BY <1>1, <1>3, <1>5, <2>1, <2>2
<1>7. Cardinality(B) <= Cardinality(A \cup C)
  BY <1>2, <1>6, FS_Subset
<1>8. Cardinality(A \cup C) \in Nat
  BY <1>6, FS_CardinalityType
<1>9. Cardinality(B) <= Cardinality(A) + (len - n)
  BY <1>1, <1>5, <1>6, <1>7, <1>8
<1>10. HitsAmong(samples, n, street) = Cardinality(A)
       /\ HitsAmong(samples, Len(samples), street) = Cardinality(B)
  BY DEF HitsAmong, A, B, len
<1> QED
  BY <1>5, <1>9, <1>10 DEF len

(* Counting stops early only when both tests are settled.                  *)
LEMMA CountOf ==
  ASSUME NEW samples, Len(samples) \in Nat, NEW street
  PROVE  LET count == CountSamplesNearStreet(samples, street)
             all == HitsAmong(samples, Len(samples), street)
         IN /\ OverCap(count, samples) <=> OverCap(all, samples)
            /\ count >= MIN_TOUCH_SAMPLES <=> all >= MIN_TOUCH_SAMPLES
<1> DEFINE len == Len(samples)
           all == HitsAmong(samples, len, street)
           stops == {n \in 1..len : SettledAfter(samples, n, street)}
<1>1. CASE stops = {}
  BY <1>1 DEF CountSamplesNearStreet
<1>2. CASE stops # {}
  <2> DEFINE n == Min(stops)
             hits == HitsAmong(samples, n, street)
  <2>1. n \in stops
    <3>1. stops \in SUBSET Int /\ stops \in SUBSET (1..len)
      OBVIOUS
    <3>2. IsFiniteSet(1..len)
      BY FS_Interval
    <3> HIDE DEF stops
    <3> QED
      BY <1>2, <3>1, <3>2, FS_Subset, MinOf
  <2>2. CountSamplesNearStreet(samples, street) = hits
    BY <1>2 DEF CountSamplesNearStreet
  <2>3. n \in 1..len /\ SettledAfter(samples, n, street)
    BY <2>1
  <2> HIDE DEF stops, n
  <2>4. hits \in Nat /\ all \in Nat /\ hits <= all /\ all <= hits + (len - n)
    <3>1. n \in 0..Len(samples)
      BY <2>3
    <3> QED
      BY <3>1, HitsOf
  <2>5. \/ 10 * hits > 7 * len
        \/ hits >= 2 /\ ~(10 * (hits + (len - n)) > 7 * len)
    BY <2>3 DEF SettledAfter, OverCap, MIN_TOUCH_SAMPLES
  <2> HIDE DEF hits, all, len
  <2>6. len \in Nat /\ n \in 1..len
    BY <2>3 DEF len
  <2>7. 10 * hits > 7 * len <=> 10 * all > 7 * len
    BY <2>4, <2>5, <2>6
  <2>8. hits >= 2 <=> all >= 2
    BY <2>4, <2>5, <2>6
  <2> QED
    BY <2>2, <2>7, <2>8 DEF OverCap, MIN_TOUCH_SAMPLES, all, len, hits
<1> QED
  BY <1>1, <1>2

(* The faces a library may find.                                           *)
AFace(face) == Len(face.samples) \in Nat /\ face.area \in Int

(* The block tests, as the code counts, are the tests on the exact counts. *)
LEMMA TestsOf ==
  ASSUME NEW face, AFace(face), NEW streets, IsFiniteSet(streets)
  PROVE  /\ BoundedBy(face, streets) = Sides(face, streets)
         /\ Enclosed(face, streets) /\ ~Degenerate(face) <=> IsBlock(face, streets)
<1>1. \A s \in streets :
        /\ OverCap(CountSamplesNearStreet(face.samples, s), face.samples) <=>
             OverCap(Hits(face, s), face.samples)
        /\ CountSamplesNearStreet(face.samples, s) >= MIN_TOUCH_SAMPLES <=>
             Hits(face, s) >= MIN_TOUCH_SAMPLES
  BY CountOf DEF AFace, Hits
<1>2. BoundedBy(face, streets) = Sides(face, streets)
  BY <1>1 DEF BoundedBy, Sides
<1>3. Dominated(face, streets) <=> \E s \in streets : OverCap(Hits(face, s), face.samples)
  BY <1>1 DEF Dominated
<1>4. Cardinality(Sides(face, streets)) >= 2 => face.samples # <<>>
  <2> SUFFICES ASSUME face.samples = <<>>
               PROVE  ~(Cardinality(Sides(face, streets)) >= 2)
    OBVIOUS
  <2>1. Len(face.samples) = 0
    OBVIOUS
  <2>2. \A s \in streets : Hits(face, s) = 0
    <3>1. \A s : {i \in 1..0 : s \in face.samples[i]} = {}
      OBVIOUS
    <3> QED
      BY <2>1, <3>1, FS_EmptySet DEF Hits, HitsAmong
  <2>3. Sides(face, streets) = {}
    BY <2>2 DEF Sides, MIN_TOUCH_SAMPLES
  <2> QED
    BY <2>3, FS_EmptySet
<1> QED
  BY <1>2, <1>3, <1>4 DEF Enclosed, IsBlock

(* The first face by (streets, area) is one of them that no other beats.   *)
LEMMA FirstOf ==
  ASSUME NEW faces, Len(faces) \in Nat, DOMAIN faces = 1..Len(faces),
         \A i \in DOMAIN faces : AFace(faces[i]),
         NEW streets, IsFiniteSet(streets), NEW eligible \in SUBSET DOMAIN faces
  PROVE  LET best == First(faces, streets, eligible)
         IN IF eligible = {} THEN best = 0
            ELSE /\ best \in eligible
                 /\ \A i \in eligible : Cardinality(BoundedBy(faces[best], streets)) >=
                                        Cardinality(BoundedBy(faces[i], streets))
<1> DEFINE best == First(faces, streets, eligible)
           touched == [i \in DOMAIN faces |-> Cardinality(BoundedBy(faces[i], streets))]
           area == [i \in DOMAIN faces |-> faces[i].area]
           R == {p \in eligible \X eligible :
                   \/ touched[p[1]] > touched[p[2]]
                   \/ touched[p[1]] = touched[p[2]] /\ area[p[1]] > area[p[2]]}
           first == {i \in eligible : \A j \in eligible : <<j, i>> \notin R}
<1>1. \A i \in eligible : touched[i] \in Nat /\ area[i] \in Int
  <2> TAKE i \in eligible
  <2>1. BoundedBy(faces[i], streets) \in SUBSET streets
    BY DEF BoundedBy
  <2>2. Cardinality(BoundedBy(faces[i], streets)) \in Nat
    BY <2>1, FS_Subset, FS_CardinalityType
  <2> QED
    BY <2>2 DEF AFace
<1>2. best = IF first = {} THEN 0 ELSE Min(first)
  BY DEF First
<1>3. eligible = {} => first = {}
  OBVIOUS
<1>4. ASSUME eligible # {}
      PROVE  /\ best \in eligible
             /\ \A i \in eligible : touched[best] >= touched[i]
  <2>1. IsFiniteSet(DOMAIN faces) /\ DOMAIN faces \subseteq Int
    BY FS_Interval
  <2>2. IsFiniteSet(eligible)
    BY <2>1, FS_Subset
  <2> HIDE DEF touched, area
  <2>3. \A x \in eligible : <<x, x>> \notin R
    BY <1>1
  <2>4. \A x, y, z \in eligible : <<x, y>> \in R /\ <<y, z>> \in R => <<x, z>> \in R
    BY <1>1
  <2>5. \E m \in eligible : \A j \in eligible : <<j, m>> \notin R
    <3> HIDE DEF R
    <3> QED
      BY <1>4, <2>2, <2>3, <2>4, MinimalExists
  <2>6. first # {} /\ first \in SUBSET eligible
    BY <2>5
  <2>7. Min(first) \in first
    <3>1. IsFiniteSet(first) /\ first \in SUBSET Int
      BY <2>1, <2>2, <2>6, FS_Subset
    <3> HIDE DEF first
    <3> QED
      BY <2>6, <3>1, MinOf
  <2>8. best \in first
    BY <1>2, <2>6, <2>7
  <2>9. best \in eligible /\ \A j \in eligible : <<j, best>> \notin R
    BY <2>8
  <2> HIDE DEF best
  <2>10. \A j \in eligible : ~(touched[j] > touched[best])
    BY <2>9
  <2> QED
    BY <1>1, <2>9, <2>10
<1> HIDE DEF best
<1>5. \A i \in eligible : touched[i] = Cardinality(BoundedBy(faces[i], streets))
  OBVIOUS
<1> HIDE DEF touched, first
<1> QED
  BY <1>2, <1>3, <1>4, <1>5 DEF best

(* What a function makes of a finite set is finite.                        *)
LEMMA ImageIsFinite ==
  ASSUME NEW S, IsFiniteSet(S), NEW f
  PROVE  IsFiniteSet({f[x] : x \in S})
<1> DEFINE T == {f[x] : x \in S}
           g == [x \in S |-> f[x]]
<1>1. g \in [S -> T] /\ \A t \in T : \E x \in S : g[x] = t
  OBVIOUS
<1> HIDE DEF g
<1>2. g \in Surjection(S, T)
  BY <1>1, Fun_IsSurj
<1> HIDE DEF T
<1> QED
  BY <1>2, FS_Surjection DEF T

(* A box.                                                                  *)
ABox(box) ==
  /\ box.minX \in Int /\ box.maxX \in Int /\ box.minY \in Int /\ box.maxY \in Int
  /\ box.minX <= box.maxX /\ box.minY <= box.maxY

(* The box of some boxes is a box, and holds each.                         *)
LEMMA UnionBoxOf ==
  ASSUME NEW boxes, IsFiniteSet(boxes), boxes # {}, \A b \in boxes : ABox(b)
  PROVE  LET all == UnionBox(boxes)
         IN /\ ABox(all)
            /\ \A b \in boxes : /\ all.minX <= b.minX /\ b.maxX <= all.maxX
                                /\ all.minY <= b.minY /\ b.maxY <= all.maxY
<1>1. ASSUME NEW f, \A b \in boxes : f[b] \in Int
      PROVE  LET V == {f[b] : b \in boxes}
             IN /\ Min(V) \in Int /\ Max(V) \in Int
                /\ \A b \in boxes : Min(V) <= f[b] /\ f[b] <= Max(V)
  <2> DEFINE V == {f[b] : b \in boxes}
  <2>1. IsFiniteSet(V)
    BY ImageIsFinite
  <2>2. V \in SUBSET Int /\ V # {}
    BY <1>1
  <2>3. /\ Min(V) \in V /\ \A j \in V : Min(V) <= j
        /\ Max(V) \in V /\ \A j \in V : Max(V) >= j
    <3> HIDE DEF V
    <3> QED
      BY <2>1, <2>2, MinOf, MaxOf
  <2>4. \A b \in boxes : f[b] \in V
    OBVIOUS
  <2> HIDE DEF V
  <2>5. Min(V) \in Int /\ Max(V) \in Int /\ \A b \in boxes : Min(V) <= f[b] /\ f[b] <= Max(V)
    BY <1>1, <2>2, <2>3, <2>4
  <2> QED
    BY <2>5 DEF V
<1> DEFINE minX == Min({b.minX : b \in boxes})
           maxX == Max({b.maxX : b \in boxes})
           minY == Min({b.minY : b \in boxes})
           maxY == Max({b.maxY : b \in boxes})
<1>2. minX \in Int /\ \A b \in boxes : minX <= b.minX
  <2> DEFINE f == [b \in boxes |-> b.minX]
  <2>1. {f[b] : b \in boxes} = {b.minX : b \in boxes} /\ \A b \in boxes : f[b] = b.minX
    OBVIOUS
  <2>2. \A b \in boxes : f[b] \in Int
    BY <2>1 DEF ABox
  <2> HIDE DEF f
  <2> QED
    BY <1>1, <2>1, <2>2
<1>3. maxX \in Int /\ \A b \in boxes : b.maxX <= maxX
  <2> DEFINE f == [b \in boxes |-> b.maxX]
  <2>1. {f[b] : b \in boxes} = {b.maxX : b \in boxes} /\ \A b \in boxes : f[b] = b.maxX
    OBVIOUS
  <2>2. \A b \in boxes : f[b] \in Int
    BY <2>1 DEF ABox
  <2> HIDE DEF f
  <2> QED
    BY <1>1, <2>1, <2>2
<1>4. minY \in Int /\ \A b \in boxes : minY <= b.minY
  <2> DEFINE f == [b \in boxes |-> b.minY]
  <2>1. {f[b] : b \in boxes} = {b.minY : b \in boxes} /\ \A b \in boxes : f[b] = b.minY
    OBVIOUS
  <2>2. \A b \in boxes : f[b] \in Int
    BY <2>1 DEF ABox
  <2> HIDE DEF f
  <2> QED
    BY <1>1, <2>1, <2>2
<1>5. maxY \in Int /\ \A b \in boxes : b.maxY <= maxY
  <2> DEFINE f == [b \in boxes |-> b.maxY]
  <2>1. {f[b] : b \in boxes} = {b.maxY : b \in boxes} /\ \A b \in boxes : f[b] = b.maxY
    OBVIOUS
  <2>2. \A b \in boxes : f[b] \in Int
    BY <2>1 DEF ABox
  <2> HIDE DEF f
  <2> QED
    BY <1>1, <2>1, <2>2
<1>6. UnionBox(boxes) = [minX |-> minX, maxX |-> maxX, minY |-> minY, maxY |-> maxY]
  BY DEF UnionBox
<1> HIDE DEF minX, maxX, minY, maxY
<1>7. minX <= maxX /\ minY <= maxY
  <2>1. PICK b \in boxes : TRUE
    OBVIOUS
  <2>2. minX <= b.minX /\ b.minX <= b.maxX /\ b.maxX <= maxX
    BY <1>2, <1>3 DEF ABox
  <2>3. minY <= b.minY /\ b.minY <= b.maxY /\ b.maxY <= maxY
    BY <1>4, <1>5 DEF ABox
  <2>4. b.minX \in Int /\ b.maxX \in Int /\ b.minY \in Int /\ b.maxY \in Int
    BY DEF ABox
  <2> QED
    BY <1>2, <1>3, <1>4, <1>5, <2>2, <2>3, <2>4
<1> QED
  BY <1>2, <1>3, <1>4, <1>5, <1>6, <1>7 DEF ABox

(* The distance of two boxes is a number.                                  *)
LEMMA DistanceOf ==
  ASSUME NEW box, ABox(box), NEW anchor, ABox(anchor)
  PROVE  DistanceToMiddle(box, anchor) \in Int
<1>1. ASSUME NEW a \in Int, NEW b \in Int  PROVE Max({a, 0, b}) \in Int
  <2>1. {a, 0, b} = (({} \cup {a}) \cup {0}) \cup {b}
    OBVIOUS
  <2>2. IsFiniteSet({a, 0, b})
    <3> DEFINE V1 == {} \cup {a}   V2 == V1 \cup {0}   V3 == V2 \cup {b}
    <3>1. IsFiniteSet(V1)
      BY FS_EmptySet, FS_AddElement
    <3> HIDE DEF V1
    <3>2. IsFiniteSet(V2)
      BY <3>1, FS_AddElement
    <3> HIDE DEF V2
    <3>3. IsFiniteSet(V3)
      BY <3>2, FS_AddElement
    <3> QED
      BY <2>1, <3>3 DEF V1, V2
  <2> DEFINE V == {a, 0, b}
  <2>3. V \in SUBSET Int /\ V # {}
    OBVIOUS
  <2> HIDE DEF V
  <2>4. Max(V) \in Int
    BY <2>2, <2>3, MaxOf DEF V
  <2> QED
    BY <2>4 DEF V
<1> DEFINE x == anchor.minX + anchor.maxX
           y == anchor.minY + anchor.maxY
           dx == Max({2 * box.minX - x, 0, x - 2 * box.maxX})
           dy == Max({2 * box.minY - y, 0, y - 2 * box.maxY})
<1>2. /\ 2 * box.minX - x \in Int /\ x - 2 * box.maxX \in Int
      /\ 2 * box.minY - y \in Int /\ y - 2 * box.maxY \in Int
  BY DEF ABox
<1> HIDE DEF x, y
<1>3. dx \in Int /\ dy \in Int
  BY <1>1, <1>2
<1>4. DistanceToMiddle(box, anchor) = dx * dx + dy * dy
  BY DEF DistanceToMiddle, x, y
<1> HIDE DEF dx, dy
<1> QED
  BY <1>3, <1>4

(* A street has a fragment nearest to the anchor.                          *)
LEMMA NearestOf ==
  ASSUME NEW lines, IsFiniteSet(lines), lines # {}, \A l \in lines : ABox(l),
         NEW anchor, ABox(anchor)
  PROVE  Nearest(lines, anchor) \in lines
<1> DEFINE far == [l \in lines |-> DistanceToMiddle(l, anchor)]
           V == {far[l] : l \in lines}
<1>1. V \in SUBSET Int /\ V # {}
  BY DistanceOf
<1>2. IsFiniteSet(V)
  <2> HIDE DEF far
  <2> QED
    BY ImageIsFinite
<1>3. PICK m \in V : \A j \in V : m <= j
  <2> HIDE DEF V
  <2> QED
    BY <1>1, <1>2, FiniteLeast
<1>4. \E l \in lines : \A other \in lines :
        DistanceToMiddle(l, anchor) <= DistanceToMiddle(other, anchor)
  BY <1>3
<1> QED
  BY <1>4 DEF Nearest

(* The lines of the streets of a block.                                    *)
StreetLines(lines) ==
  /\ IsFiniteSet(DOMAIN lines)
  /\ \A n \in DOMAIN lines :
       /\ IsFiniteSet(lines[n]) /\ lines[n] # {}
       /\ \A l \in lines[n] : ABox(l) /\ l.length \in Nat

(* A street has a length.                                                  *)
LEMMA UnitsOf ==
  ASSUME NEW lines, IsFiniteSet(lines), \A l \in lines : l.length \in Nat
  PROVE  Cardinality(Units(lines)) \in Nat
<1> DEFINE f == [l \in lines |-> {l} \X (1..l.length)]
           V == {f[l] : l \in lines}
<1>1. ASSUME NEW l \in lines  PROVE IsFiniteSet(f[l])
  <2>1. IsFiniteSet({l})
    BY FS_Singleton
  <2>2. 1 \in Int /\ l.length \in Int
    OBVIOUS
  <2>3. IsFiniteSet(1..l.length)
    BY <2>2, FS_Interval
  <2> QED
    BY <2>1, <2>3, FS_Product
<1>2. V = {{l} \X (1..l.length) : l \in lines}
  OBVIOUS
<1> HIDE DEF f
<1>3. IsFiniteSet(V) /\ \A T \in V : IsFiniteSet(T)
  BY <1>1, ImageIsFinite
<1> HIDE DEF V
<1>4. IsFiniteSet(UNION V)
  BY <1>3, FS_UNION
<1>5. Units(lines) = UNION V
  BY <1>2 DEF Units
<1> QED
  BY <1>4, <1>5, FS_CardinalityType

(* Some street is the shortest.                                            *)
LEMMA ShortestOf ==
  ASSUME NEW lines, StreetLines(lines), DOMAIN lines # {}
  PROVE  Shortest(lines) \in DOMAIN lines
<1> DEFINE len == [n \in DOMAIN lines |-> Cardinality(Units(lines[n]))]
           measured == {[name |-> n, length |-> Cardinality(Units(lines[n]))] : n \in DOMAIN lines}
           V == {len[n] : n \in DOMAIN lines}
<1>1. V \in SUBSET Nat /\ V # {}
  BY UnitsOf DEF StreetLines
<1>2. PICK v \in V : \A j \in V : v <= j
  <2> HIDE DEF V
  <2> QED
    BY <1>1, LeastExists
<1>3. \E n \in measured : \A m \in measured : n.length <= m.length
  <2>1. PICK k \in DOMAIN lines : v = len[k]
    OBVIOUS
  <2>2. \A j \in DOMAIN lines : len[k] <= len[j]
    BY <1>2, <2>1
  <2> DEFINE row == [j \in DOMAIN lines |-> [name |-> j, length |-> Cardinality(Units(lines[j]))]]
  <2>3. measured = {row[j] : j \in DOMAIN lines} /\ \A j \in DOMAIN lines : row[j].length = len[j]
    OBVIOUS
  <2> HIDE DEF measured, row, len
  <2> QED
    BY <2>2, <2>3
<1> DEFINE chosen == CHOOSE n \in measured : \A m \in measured : n.length <= m.length
<1>4. chosen \in measured
  <2> HIDE DEF measured
  <2> QED
    BY <1>3
<1>5. Shortest(lines) = chosen.name
  BY DEF Shortest
<1> HIDE DEF chosen
<1> QED
  BY <1>4, <1>5

(* The clip window reaches every street of the block.                      *)
LEMMA ClipOf ==
  ASSUME NEW lines, StreetLines(lines), DOMAIN lines # {}
  PROVE  DOMAIN Clipped(lines) = DOMAIN lines
<1> DEFINE anchor == UnionBox(lines[Shortest(lines)])
           near == [n \in DOMAIN lines |-> Nearest(lines[n], anchor)]
           boxes == {anchor} \cup {near[n] : n \in DOMAIN lines}
           all == UnionBox(boxes)
           window == ClipWindow(lines)
<1>1. ABox(anchor)
  <2> DEFINE own == lines[Shortest(lines)]
  <2>1. IsFiniteSet(own) /\ own # {} /\ \A l \in own : ABox(l)
    BY ShortestOf DEF StreetLines
  <2> HIDE DEF own
  <2> QED
    BY <2>1, UnionBoxOf DEF own
<1> HIDE DEF anchor
<1>2. \A n \in DOMAIN lines : near[n] \in lines[n]
  <2> TAKE n \in DOMAIN lines
  <2> DEFINE own == lines[n]
  <2>1. IsFiniteSet(own) /\ own # {} /\ \A l \in own : ABox(l)
    BY DEF StreetLines
  <2> HIDE DEF own
  <2>2. Nearest(own, anchor) \in own
    BY <1>1, <2>1, NearestOf
  <2> QED
    BY <2>2 DEF own
<1>3. window = WithMargin(all)
  <2>1. {near[n] : n \in DOMAIN lines} = {Nearest(lines[n], anchor) : n \in DOMAIN lines}
    OBVIOUS
  <2> QED
    BY <2>1 DEF ClipWindow, Grown, anchor
<1> HIDE DEF near
<1>4. IsFiniteSet(boxes) /\ boxes # {} /\ \A b \in boxes : ABox(b)
  <2>1. IsFiniteSet({near[n] : n \in DOMAIN lines})
    BY ImageIsFinite DEF StreetLines
  <2> DEFINE nears == {near[n] : n \in DOMAIN lines}
  <2>2. boxes = nears \cup {anchor}
    OBVIOUS
  <2>3. IsFiniteSet(nears \cup {anchor})
    <3> HIDE DEF nears
    <3> QED
      BY <2>1, FS_AddElement DEF nears
  <2>4. \A b \in nears : ABox(b)
    BY <1>2 DEF StreetLines
  <2> HIDE DEF nears
  <2> QED
    BY <1>1, <2>2, <2>3, <2>4
<1>5. \A n \in DOMAIN lines : near[n] \in boxes
  OBVIOUS
<1> HIDE DEF boxes
<1>6. /\ ABox(all)
      /\ \A b \in boxes : /\ all.minX <= b.minX /\ b.maxX <= all.maxX
                          /\ all.minY <= b.minY /\ b.maxY <= all.maxY
  BY <1>4, UnionBoxOf
<1> HIDE DEF all
<1>7. ASSUME NEW n \in DOMAIN lines
      PROVE  BoxesOverlap(near[n], window)
  <2> DEFINE b == near[n]
  <2>1. ABox(b) /\ all.minX <= b.minX /\ b.maxX <= all.maxX
        /\ all.minY <= b.minY /\ b.maxY <= all.maxY
    BY <1>4, <1>5, <1>6
  <2>2. /\ window.minX = all.minX - 5 /\ window.maxX = all.maxX + 5
        /\ window.minY = all.minY - 5 /\ window.maxY = all.maxY + 5
    BY <1>3 DEF WithMargin, CLIP_MARGIN
  <2> HIDE DEF b, window
  <2>3. BoxesOverlap(b, window)
    BY <1>6, <2>1, <2>2 DEF ABox, BoxesOverlap
  <2> QED
    BY <2>3 DEF b
<1> HIDE DEF window
<1>8. \A n \in DOMAIN lines : {l \in lines[n] : BoxesOverlap(l, window)} # {}
  BY <1>2, <1>7
<1>9. DOMAIN Inside(lines, window) = DOMAIN lines
  BY <1>8 DEF Inside
<1> QED
  BY <1>9 DEF Clipped, window

(* The lines that are loaded are finitely many, and no street lacks one.   *)
LEMMA LoadedOf ==
  ASSUME WaysAssumption, NEW resolved, NEW scope
  PROVE  StreetLines(LoadStreetWays(resolved, scope))
<1> DEFINE canonical == CanonicalOf(resolved, scope)
           ids == DOMAIN canonical \cap DOMAIN Ways
           Of(n) == {id \in ids : canonical[id] = n}
           names == {canonical[id] : id \in ids}
           lines == LoadStreetWays(resolved, scope)
<1>1. lines = [n \in {n \in names : UNION {Ways[id] : id \in Of(n)} # {}} |->
                 UNION {Ways[id] : id \in Of(n)}]
  BY DEF LoadStreetWays
<1> HIDE DEF lines, canonical
<1>2. IsFiniteSet(ids)
  <2>1. ids \in SUBSET DOMAIN Ways /\ IsFiniteSet(DOMAIN Ways)
    BY DEF WaysAssumption
  <2> HIDE DEF ids
  <2> QED
    BY <2>1, FS_Subset
<1>3. IsFiniteSet(DOMAIN lines)
  <2>1. DOMAIN lines \in SUBSET names
    BY <1>1
  <2>2. IsFiniteSet(names)
    <3> HIDE DEF ids
    <3> QED
      BY <1>2, ImageIsFinite
  <2> HIDE DEF names
  <2> QED
    BY <2>1, <2>2, FS_Subset
<1>4. ASSUME NEW n \in DOMAIN lines
      PROVE  /\ IsFiniteSet(lines[n]) /\ lines[n] # {}
             /\ \A l \in lines[n] : ABox(l) /\ l.length \in Nat
  <2> DEFINE own == Of(n)
             sets == {Ways[id] : id \in own}
  <2>1. lines[n] = UNION sets /\ lines[n] # {}
    BY <1>1
  <2>2. own \in SUBSET ids /\ own \in SUBSET DOMAIN Ways
    OBVIOUS
  <2> HIDE DEF own
  <2>3. IsFiniteSet(own)
    <3> HIDE DEF ids
    <3> QED
      BY <1>2, <2>2, FS_Subset
  <2>4. IsFiniteSet(sets)
    BY <2>3, ImageIsFinite
  <2>5. \A T \in sets : IsFiniteSet(T) /\ \A l \in T : ABox(l) /\ l.length \in Nat
    BY <2>2 DEF WaysAssumption, ABox
  <2> HIDE DEF sets
  <2>6. IsFiniteSet(UNION sets)
    BY <2>4, <2>5, FS_UNION
  <2> QED
    BY <2>1, <2>5, <2>6
<1> QED
  BY <1>3, <1>4 DEF StreetLines, lines

(* Every row the lines are read for is a street of the settlement.         *)
LEMMA CanonicalInScope ==
  ASSUME StreetsAssumption, NEW names, NEW scope
  PROVE  \A id \in DOMAIN CanonicalOf(Resolved(names, scope), scope) :
           \E i \in DOMAIN Streets : Streets[i].id = id /\ Streets[i].parent = scope.id
<1> DEFINE resolved == Resolved(names, scope)
           canonical == CanonicalOf(resolved, scope)
           Ids(row) == {row.id} \cup {s.id : s \in Spellings(row, scope)}
<1>1. ASSUME NEW n \in resolved
      PROVE  \E i \in DOMAIN Streets : n.row = Streets[i] /\ Streets[i].parent = scope.id
  <2>1. PICK k \in DOMAIN names : n.row = MatchStreet(names[k], scope) /\ n.row # NoRow
    BY <1>1 DEF Resolved
  <2> DEFINE within == Under(scope, Streets)   prefer == FALSE
  <2>2. within \in SUBSET DOMAIN Streets /\ DOMAIN Streets \subseteq Nat
    BY DEF Under, StreetsAssumption
  <2> HIDE DEF within, prefer
  <2>3. \/ MatchCore(names[k], Streets, within, Streetlike, prefer) = NoRow
        \/ \E i \in within : MatchCore(names[k], Streets, within, Streetlike, prefer) = Streets[i]
    BY <2>2, MatchCoreIn
  <2>4. MatchStreet(names[k], scope) = MatchCore(names[k], Streets, within, Streetlike, prefer)
    BY DEF MatchStreet, within, prefer
  <2>5. \A i \in within : i \in DOMAIN Streets /\ Streets[i].parent = scope.id
    BY DEF within, Under
  <2> QED
    BY <2>1, <2>3, <2>4, <2>5
<1>2. \A row : \A s \in Spellings(row, scope) :
        \E i \in DOMAIN Streets : s = Streets[i] /\ Streets[i].parent = scope.id
  BY DEF Spellings
<1>3. \A id \in DOMAIN canonical : \E n \in resolved : id \in Ids(n.row)
  <2> DEFINE answers == UNION {{[id |-> id, at |-> n.at, name |-> n.row.name] : id \in Ids(n.row)} :
                                 n \in resolved}
  <2>1. DOMAIN canonical = {a.id : a \in answers}
    BY DEF CanonicalOf
  <2>2. \A a \in answers : \E n \in resolved : a.id \in Ids(n.row)
    <3> HIDE DEF resolved, Ids
    <3> QED
      OBVIOUS
  <2> HIDE DEF answers, resolved, canonical, Ids
  <2> QED
    BY <2>1, <2>2
<1> HIDE DEF resolved, canonical
<1>4. ASSUME NEW id \in DOMAIN canonical
      PROVE  \E i \in DOMAIN Streets : Streets[i].id = id /\ Streets[i].parent = scope.id
  <2>1. PICK n \in resolved : id \in Ids(n.row)
    BY <1>3
  <2>2. CASE id = n.row.id
    BY <1>1, <2>2
  <2>3. CASE id # n.row.id
    <3>1. PICK s \in Spellings(n.row, scope) : id = s.id
      BY <2>1, <2>3
    <3> QED
      BY <1>2, <3>1
  <2> QED
    BY <2>2, <2>3
<1> QED
  BY <1>4 DEF canonical, resolved

(* So the lines of a block are lines of streets of the settlement.         *)
LEMMA LinesInScope ==
  ASSUME StreetsAssumption, NEW names
  PROVE  GeometryOfTheScope(LoadStreetWays(Resolved(names, Regions[1]), Regions[1]))
<1> DEFINE scope == Regions[1]
           canonical == CanonicalOf(Resolved(names, scope), scope)
           ids == DOMAIN canonical \cap DOMAIN Ways
           lines == LoadStreetWays(Resolved(names, scope), scope)
           own == WaysUnder(scope)
<1>1. \A id \in ids : Ways[id] \subseteq own
  BY CanonicalInScope DEF WaysUnder
<1>2. \A name \in DOMAIN lines :
        lines[name] = UNION {Ways[id] : id \in {id \in ids : canonical[id] = name}}
  BY DEF LoadStreetWays
<1> HIDE DEF canonical, ids, lines, own
<1>3. \A name \in DOMAIN lines : lines[name] \subseteq own
  BY <1>1, <1>2
<1> QED
  BY <1>3 DEF GeometryOfTheScope, lines, own, scope

(* Of the faces, a block is found exactly when one is there, and a best    *)
(* one.                                                                    *)
LEMMA BestOf ==
  ASSUME NEW faces, Len(faces) \in Nat, DOMAIN faces = 1..Len(faces),
         \A i \in DOMAIN faces : AFace(faces[i]),
         NEW streets, IsFiniteSet(streets)
  PROVE  LET built == Block(faces, streets, Best(faces, streets))
         IN RingIsABlock(built, faces, streets) /\ NoBlockLost(built, faces, streets)
<1> DEFINE eligible == {i \in DOMAIN faces : Enclosed(faces[i], streets) /\ ~Degenerate(faces[i])}
           best == Best(faces, streets)
           built == Block(faces, streets, best)
<1>1. \A i \in DOMAIN faces : /\ i \in eligible <=> IsBlock(faces[i], streets)
                              /\ BoundedBy(faces[i], streets) = Sides(faces[i], streets)
  BY TestsOf
<1>2. best = First(faces, streets, eligible) /\ eligible \in SUBSET DOMAIN faces
  BY DEF Best
<1> HIDE DEF eligible
<1>3. /\ eligible = {} => best = 0
      /\ eligible # {} =>
           /\ best \in eligible
           /\ \A i \in eligible : Cardinality(BoundedBy(faces[best], streets)) >=
                                  Cardinality(BoundedBy(faces[i], streets))
  BY <1>2, FirstOf
<1> HIDE DEF best
<1>4. CASE eligible = {}
  <2>1. built.block = 0
    BY <1>3, <1>4 DEF Block, NoBlock
  <2>2. \A i \in DOMAIN faces : ~IsBlock(faces[i], streets)
    BY <1>1, <1>4
  <2> HIDE DEF built
  <2>3. RingIsABlock(built, faces, streets) /\ NoBlockLost(built, faces, streets)
    BY <2>1, <2>2 DEF RingIsABlock, NoBlockLost
  <2> QED
    BY <2>3 DEF built, best
<1>5. CASE eligible # {}
  <2>1. best \in eligible /\ best \in DOMAIN faces /\ best # 0
    BY <1>2, <1>3, <1>5
  <2>2. built.block = best /\ built.streets = BoundedBy(faces[best], streets)
    BY <2>1 DEF Block
  <2>3. built.streets = Sides(faces[best], streets) /\ IsBlock(faces[best], streets)
    BY <1>1, <2>1, <2>2
  <2>4. \A i \in eligible : Cardinality(built.streets) >= Cardinality(Sides(faces[i], streets))
    BY <1>1, <1>2, <1>3, <1>5, <2>1, <2>2
  <2> HIDE DEF built
  <2>5. RingIsABlock(built, faces, streets)
    BY <2>2, <2>3 DEF RingIsABlock
  <2>6. NoBlockLost(built, faces, streets)
    BY <1>1, <2>1, <2>2, <2>4 DEF NoBlockLost
  <2> QED
    BY <2>5, <2>6 DEF built, best
<1> QED
  BY <1>4, <1>5

Sound(built, faces, streets) ==
  RingIsABlock(built, faces, streets) /\ NoBlockLost(built, faces, streets)

(* So it is for a whole message, whatever streets it names.                *)
LEMMA BlockOf ==
  ASSUME StreetsAssumption, WaysAssumption, NEW names,
         NEW faces, Len(faces) \in Nat, DOMAIN faces = 1..Len(faces),
         \A i \in DOMAIN faces : AFace(faces[i])
  PROVE  LET lines == LoadStreetWays(Resolved(names, Regions[1]), Regions[1])
             built == BuildPolygonForStreets(names, Regions[1], faces)
         IN /\ GeometryOfTheScope(lines)
            /\ ClippingLosesNoStreet(lines)
            /\ RingIsABlock(built, faces, DOMAIN lines)
            /\ NoBlockLost(built, faces, DOMAIN lines)
<1> DEFINE resolved == Resolved(names, Regions[1])
           lines == LoadStreetWays(resolved, Regions[1])
           streets == DOMAIN lines
           built == BuildPolygonForStreets(names, Regions[1], faces)
<1>1. GeometryOfTheScope(lines)
  BY LinesInScope
<1>2. StreetLines(lines)
  BY LoadedOf
<1>3. built = IF Cardinality(resolved) < 3 THEN NoBlock("too few streets resolved")
              ELSE BuildBlockPolygon(lines, faces)
  BY DEF BuildPolygonForStreets
<1> HIDE DEF resolved, lines, built
<1>4. streets # {} => DOMAIN Clipped(lines) = streets
  BY <1>2, ClipOf
<1>5. IsFiniteSet(streets)
  BY <1>2 DEF StreetLines
<1>6. /\ Sound(NoBlock("too few streets resolved"), faces, streets)
      /\ Sound(NoBlock("too few streets found"), faces, streets)
  BY DEF NoBlock, Sound, RingIsABlock, NoBlockLost
<1>7. ASSUME streets = {}  PROVE Sound(NoBlock("no OSM geometry"), faces, streets)
  <2>1. \A i \in DOMAIN faces : ~IsBlock(faces[i], streets)
    <3> TAKE i \in DOMAIN faces
    <3>1. Sides(faces[i], streets) = {}
      BY <1>7 DEF Sides
    <3>2. Cardinality(Sides(faces[i], streets)) = 0
      BY <3>1, FS_EmptySet
    <3> QED
      BY <3>2 DEF IsBlock
  <2>2. NoBlock("no OSM geometry").block = 0
    BY DEF NoBlock
  <2> HIDE DEF streets
  <2> QED
    BY <2>1, <2>2 DEF Sound, RingIsABlock, NoBlockLost
<1>8. Sound(Block(faces, streets, Best(faces, streets)), faces, streets)
  <2> HIDE DEF streets
  <2> QED
    BY <1>5, BestOf DEF Sound
<1>9. Sound(built, faces, streets)
  <2>1. CASE Cardinality(resolved) < 3
    <3>1. built = NoBlock("too few streets resolved")
      BY <1>3, <2>1
    <3> QED
      BY <1>6, <3>1
  <2>2. CASE ~(Cardinality(resolved) < 3) /\ streets = {}
    <3>1. built = NoBlock("no OSM geometry")
      BY <1>3, <2>2 DEF BuildBlockPolygon
    <3> QED
      BY <1>7, <2>2, <3>1
  <2>3. CASE ~(Cardinality(resolved) < 3) /\ streets # {}
    <3>1. built = IF Cardinality(streets) < 3 THEN NoBlock("too few streets found")
                  ELSE BlockAmong(faces, streets)
      BY <1>3, <1>4, <2>3 DEF BuildBlockPolygon
    <3>2. built = NoBlock("too few streets found")
          \/ built = Block(faces, streets, Best(faces, streets))
      <4> HIDE DEF streets
      <4> QED
        BY <3>1 DEF BlockAmong
    <3> QED
      BY <1>6, <1>8, <3>2
  <2> QED
    BY <2>1, <2>2, <2>3
<1>10. ClippingLosesNoStreet(lines)
  BY <1>4 DEF ClippingLosesNoStreet
<1> QED
  BY <1>1, <1>9, <1>10 DEF Sound, built, lines, resolved

(* A block that was built is the one of its message's streets and faces.   *)
BlockInv ==
  job.kind = "block" =>
    /\ job.names \in Outlines /\ job.faces \in FacesOf(job.names)
    /\ job.built = BuildPolygonForStreets(job.names, Regions[1], job.faces)

(* The ring of a message is a block that streets of its own settlement     *)
(* bound, the best of the faces, found whenever they hold one: the clip    *)
(* window loses no street and the counting that stops early no side        *)
(* (buildPolygonForStreets), for any streets, lines and faces.             *)
THEOREM BlockIsRight ==
  ASSUME StreetsAssumption, WaysAssumption, FacesAssumption
  PROVE  AlgorithmsSpec => []BlocksSafe
<1>1. AlgorithmsInit => BlockInv
  BY DEF AlgorithmsInit, NoJob, BlockInv
<1>2. BlockInv /\ [AlgorithmsNext]_<<vars, job, callVars>> => BlockInv'
  <2> SUFFICES ASSUME BlockInv, [AlgorithmsNext]_<<vars, job, callVars>>  PROVE BlockInv'
    OBVIOUS
  <2>1. CASE StoreSchedule
    BY <2>1 DEF StoreSchedule, BlockInv
  <2>2. CASE BuildBlock
    BY <2>2 DEF BuildBlock, BlockInv
  <2>3. CASE job' = job
    BY <2>3 DEF BlockInv
  <2> QED
    BY <2>1, <2>2, <2>3 DEF AlgorithmsNext, Attempt
<1>3. BlockInv => BlocksSafe
  <2> SUFFICES ASSUME BlockInv, job.kind = "block"
               PROVE  BlocksSafe
    BY DEF BlocksSafe
  <2> DEFINE names == job.names   faces == job.faces
  <2>1. /\ Len(faces) \in Nat /\ DOMAIN faces = 1..Len(faces)
        /\ \A i \in DOMAIN faces : AFace(faces[i])
    BY DEF BlockInv, FacesAssumption, AFace
  <2>2. job.built = BuildPolygonForStreets(names, Regions[1], faces)
    BY DEF BlockInv
  <2> HIDE DEF names, faces
  <2>3. LET lines == LoadStreetWays(Resolved(names, Regions[1]), Regions[1])
            built == BuildPolygonForStreets(names, Regions[1], faces)
        IN /\ GeometryOfTheScope(lines)
           /\ ClippingLosesNoStreet(lines)
           /\ RingIsABlock(built, faces, DOMAIN lines)
           /\ NoBlockLost(built, faces, DOMAIN lines)
    BY <2>1, BlockOf
  <2> QED
    BY <2>2, <2>3 DEF BlocksSafe, names, faces
<1> QED
  BY <1>1, <1>2, <1>3, PTL DEF AlgorithmsSpec
==============================================================================
