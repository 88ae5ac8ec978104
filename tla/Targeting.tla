------------------------------ MODULE Targeting ------------------------------
(***************************************************************************)
(* Whom an alert reaches: sendUsersNotification and its audience queries   *)
(* (core/alert-service.ts, db/queries.ts), the bus-line and opt-out        *)
(* filters and the chunked send of core/onesignal.ts.                      *)
(***************************************************************************)
EXTENDS Places

CONSTANTS
  Users,       \* the users table: a record for each user id
  LineNames,   \* normalizeBusLine: the written line names and what they stand for
  ChunkSize    \* MAX_ALIASES_PER_REQUEST

ASSUME UsersAssumption ==
  DOMAIN Users \subseteq Int /\ IsFiniteSet(DOMAIN Users) /\ ChunkSize \in Nat \ {0}

SETTLEMENT_REACH == 9 * Km
CITY_WIDE_RADIUS == 15 * Km
POLYGON_TOLERANCE == 3

IsCity(row) == row.name.core = Varna

Where(P(_)) == {u \in DOMAIN Users : P(Users[u])}
Near(at, centre, reach) == Nowhere \notin {at, centre} /\ Distance(at, centre) <= reach

(* getUserIdsByRegion, ByRegions, UnplacedInRegion and the two forms of    *)
(* getUserIdsByStreets.                                                    *)
UsersInRegions(ids) == Where(LAMBDA u : u.region \in ids)
UnplacedInRegion(id) == Where(LAMBDA u : u.region = id /\ u.street = 0)
UsersOnStreets(ids) == Where(LAMBDA u : u.street \in ids)
UsersOnStreetsOf(region, ids) == Where(LAMBDA u : u.region = region /\ u.street \in ids \cup {0})

Districts(region) ==
  {r \in {Regions[i] : i \in DOMAIN Regions} : r.parent = region.id /\ r.id # region.id}

(* Mutant: the city row is an audience like any other settlement.          *)
UsersRegionWideOfCity(region) ==
  UsersInRegions({region.id} \cup {d.id : d \in Districts(region)})

(* Mutant: only the users registered under the row itself.                 *)
UsersOfTheRow(region) ==
  IF IsCity(region) THEN {} ELSE UsersInRegions({region.id})

(* A leaf reaches its own residents; a settlement with districts also      *)
(* theirs and the users without a region close by.  The city alone is a    *)
(* lost district and reaches nobody.                                       *)
UsersRegionWide(region) ==
  IF IsCity(region) THEN {}
  ELSE IF Districts(region) = {} THEN UsersInRegions({region.id})
  ELSE UsersInRegions({region.id} \cup {d.id : d \in Districts(region)})
       \cup Where(LAMBDA u : u.region = 0 /\ Near(u.at, region.at, SETTLEMENT_REACH))

(* The unscoped retry of MatchRegion landed in another settlement.         *)
Escaped(region, settlement) ==
  /\ settlement # NoRow
  /\ region # NoRow
  /\ region.id # settlement.id
  /\ region.parent \notin {0, settlement.id}

MatchedRegion(location, settlement) ==
  MatchRegion(IF location.area # NoName THEN location.area ELSE location.settlement,
              IF settlement = NoRow THEN DOMAIN Regions ELSE AtOrUnder(settlement))

(* Outside the city an area that is not found, or found only elsewhere,    *)
(* stands for the settlement.                                              *)
StandsIn(location, region, settlement) ==
  /\ settlement # NoRow
  /\ ~IsCity(settlement)
  /\ (location.area # NoName /\ region = NoRow) \/ Escaped(region, settlement)

NamedRegion(location, settlement) ==
  LET region == MatchedRegion(location, settlement)
  IN IF StandsIn(location, region, settlement) THEN settlement ELSE region

StreetIds(location, settlement) ==
  {MatchStreet(location.streets[i], settlement).id : i \in DOMAIN location.streets} \ {0}

(* Mutant: the streets of a settlement are paired with its row as well.    *)
OnStreetsPaired(ids, region, settlement) ==
  IF region # NoRow THEN UsersOnStreetsOf(region.id, ids) ELSE UsersOnStreets(ids)

(* A district narrows its streets to its own users; under a settlement the *)
(* streets stand alone and its unplaced users are added.                   *)
OnStreets(ids, region, settlement) ==
  IF region = NoRow THEN UsersOnStreets(ids)
  ELSE IF region.id # settlement.id THEN UsersOnStreetsOf(region.id, ids)
  ELSE UsersOnStreets(ids) \cup UnplacedInRegion(region.id)

AreaOnly(wide, location, region) ==
  /\ wide
  /\ region # NoRow
  /\ location.area # NoName \/ ~IsCity(region)

(* The streets, or without one the whole of the region.                    *)
UsersAt(ids, region, settlement) ==
  IF ids # {} THEN OnStreets(ids, region, settlement)
  ELSE IF region = NoRow THEN {} ELSE UsersRegionWide(region)

(* The same, the streets read as the place of the outage or as its bounds. *)
UsersReadAs(wide, location, region, settlement) ==
  UsersAt(IF AreaOnly(wide, location, region) \/ settlement = NoRow THEN {}
          ELSE StreetIds(location, settlement),
          region, settlement)

UsersOf(location, region, settlement) ==
  UsersReadAs(location.region_wide, location, region, settlement)

UsersWithin(location, settlement) ==
  UsersOf(location, NamedRegion(location, settlement), settlement)

(* getUserIdsInRange.                                                      *)
UsersInRange(location) ==
  UsersWithin(location, SettlementScope(location.settlement, location.area))

(* A ring is the stretch of the line it covers.                            *)
DistanceToRing(at, ring) ==
  IF at < ring[1] THEN ring[1] - at ELSE IF at > ring[2] THEN at - ring[2] ELSE 0

\* The comparison of the columns leaves out the users without a position.
UsersInBBox == Where(LAMBDA u : u.at # Nowhere)

UsersInPolygon(rings) ==
  {u \in UsersInBBox :
     \E ring \in rings : DistanceToRing(Users[u].at, ring) <= POLYGON_TOLERANCE}

(* Mutant: an empty ring is final.                                         *)
AudienceOfRing(location) ==
  IF location.is_polygon /\ location.rings # {} THEN UsersInPolygon(location.rings)
  ELSE UsersInRange(location)

(* A ring that holds nobody falls back to the streets and the region.      *)
Audience(location) ==
  LET inRing == IF location.is_polygon THEN UsersInPolygon(location.rings) ELSE {}
  IN IF inRing # {} THEN inRing ELSE UsersInRange(location)

(* Mutant: a user without a known position is left out.                    *)
UsersCityWidePlaced ==
  Where(LAMBDA u : Near(u.at, CityCenter, CITY_WIDE_RADIUS))

(* Everyone but those whose best known position is past the radius.        *)
UsersCityWide ==
  LET Best(u) == IF u.at # Nowhere THEN u.at ELSE RegionById(u.region).at
  IN Where(LAMBDA u : Best(u) = Nowhere \/ Near(Best(u), CityCenter, CITY_WIDE_RADIUS))

(* normalizeBusLine: the "0" sentinel and blanks name no line.             *)
AffectedLines(lines) == {LineNames[l] : l \in lines \cap DOMAIN LineNames}

(* No subscription is no filter.                                           *)
OnTheLines(ids, lines) ==
  {u \in ids : \/ {} \in {AffectedLines(lines), Users[u].lines}
               \/ Users[u].lines \cap AffectedLines(lines) # {}}

ReceivesAll == Where(LAMBDA u : u.receives_all)
Disabled(category) == Where(LAMBDA u : category \in u.off)

Targeted(alert) ==
  IF alert.locations # <<>>
  THEN UNION {Audience(alert.locations[i]) : i \in DOMAIN alert.locations}
  ELSE UsersCityWide

(* Mutant: the accounts that receive everything join after the opt-outs.   *)
RecipientsOptOutFirst(alert) ==
  IF alert.locations = <<>> /\ alert.city_wide = "no" THEN {}
  ELSE (OnTheLines(Targeted(alert), alert.lines) \ Disabled(alert.category)) \cup ReceivesAll

(* sendUsersNotification: without locations a city_wide = false alert is   *)
(* only stored.                                                            *)
Recipients(alert) ==
  IF alert.locations = <<>> /\ alert.city_wide = "no" THEN {}
  ELSE (OnTheLines(Targeted(alert), alert.lines) \cup ReceivesAll) \ Disabled(alert.category)

(* sendPushToUsers: the ids in chunks of at most ChunkSize, in table order.*)
Chunks(ids) ==
  LET Rank(u) == Cardinality({v \in ids : v < u})
  IN {{u \in ids : Rank(u) \div ChunkSize = n} : n \in 0..(Cardinality(ids) \div ChunkSize)} \ {{}}

(* Mutant: one accepted chunk makes the send.                              *)
SentSome(ids, refused) ==
  [ok |-> ids = {} \/ Chunks(ids) \ refused # {}, reached |-> UNION (Chunks(ids) \ refused)]

(* The chunks go out together; the send is good when none was refused.     *)
Sent(ids, refused) ==
  [ok |-> Chunks(ids) \cap refused = {}, reached |-> UNION (Chunks(ids) \ refused)]
=============================================================================
