-------------------------------- MODULE Reach --------------------------------
(***************************************************************************)
(* One announcement from its text to the users it is pushed to:            *)
(* processOutageMessage (ingestion/pipeline.ts) over Normalize, and        *)
(* sendUsersNotification over Targeting.  What the model answers is any    *)
(* parse of the text; alerts that no guard reads (vt, /submit-data) start  *)
(* at the send.                                                            *)
(***************************************************************************)
EXTENDS Normalize, Targeting

CONSTANTS
  Messages,   \* the texts the sources publish
  Categories, \* their categories
  Parses(_),  \* the answers the model may give to a text
  Rings,      \* the geometry a block build may return
  Alerts      \* alerts stored without a parse

\* Whatever the model answers, the schema it is read with has these fields.
ASSUME ParsesAssumption ==
  \A message \in Messages : \A parse \in Parses(FoldMixedScript(message)) :
    DOMAIN parse = {"locations", "city_wide"}

VARIABLES
  stage,    \* how far the announcement is
  text,     \* its text, as the model and the guards read it
  parsed,   \* what the model answered
  alert,    \* what is stored and sent
  reached   \* the users a push was accepted for

vars == <<stage, text, parsed, alert, reached>>

NoParse == [locations |-> <<>>, city_wide |-> FALSE]
Blank(category) == [category |-> category, locations |-> <<>>, city_wide |-> "no", lines |-> {}]

Init ==
  /\ parsed = NoParse
  /\ reached = {}
  /\ \/ /\ stage = "scraped"
        /\ text \in Messages
        /\ alert \in {Blank(c) : c \in Categories}
     \/ stage = "stored" /\ text = <<>> /\ alert \in Alerts

AiParse ==
  /\ stage = "scraped"
  /\ text' = FoldMixedScript(text)
  /\ \/ stage' = "failed" /\ UNCHANGED parsed
     \/ stage' = "parsed" /\ parsed' \in Parses(text')
  /\ UNCHANGED <<alert, reached>>

Filled(blank, output) ==
  [blank EXCEPT
     !.locations = [i \in DOMAIN output.locations |-> output.locations[i] @@ [rings |-> {}]],
     !.city_wide = IF output.city_wide THEN "yes" ELSE "no"]

Guard ==
  /\ stage = "parsed"
  /\ stage' = "guarded"
  /\ alert' = Filled(alert, NormalizeParse(parsed, text, alert.category))
  /\ UNCHANGED <<text, parsed, reached>>

Ringed(location, rings) == [location EXCEPT !.rings = rings, !.is_polygon = rings # {}]

(* A block without a settlement, out of budget or without a ring keeps     *)
(* none, and enrichment clears its flag.                                   *)
WithRings(location, rings) ==
  Ringed(location, IF location.is_polygon /\ SettlementScope(location.settlement, location.area) # NoRow
                   THEN rings ELSE {})

BuildPolygons ==
  /\ stage = "guarded"
  /\ stage' = "stored"
  /\ \E rings \in {{}} \cup {{r} : r \in Rings} :
       alert' = [alert EXCEPT !.locations =
                   [i \in DOMAIN @ |-> WithRings(@[i], rings)]]
  /\ UNCHANGED <<text, parsed, reached>>

(* A refused chunk fails the send, and the whole send is tried again.      *)
Sends(ids) ==
  \E refused \in SUBSET Chunks(ids) :
    LET sent == Sent(ids, refused)
    IN /\ reached' = reached \cup sent.reached
       /\ stage' = IF sent.ok THEN "told" ELSE "stored"

Send ==
  /\ stage = "stored"
  /\ Sends(Recipients(alert))
  /\ UNCHANGED <<text, parsed, alert>>

Next == AiParse \/ Guard \/ BuildPolygons \/ Send

Spec == Init /\ [][Next]_vars

-----------------------------------------------------------------------------
(* Properties.                                                             *)

\* Nothing renames, adds or drops a place after the guards, or a ring after the store.
Guarded == stage = "guarded"
Told == stage = "told"
NamesOf(location) ==
  ({location.settlement, location.area}
     \cup {location.streets[i] : i \in DOMAIN location.streets}) \ {NoName}
AllLocations == {alert.locations[i] : i \in DOMAIN alert.locations}
AllNames == UNION {NamesOf(l) : l \in AllLocations}

(* Every push is for a registered user, no slot holds an empty name, and a *)
(* stored location is a block exactly when it has a ring.                  *)
TypeOK ==
  /\ stage \in {"scraped", "failed", "parsed", "guarded", "stored", "told"}
  /\ reached \subseteq DOMAIN Users
  /\ alert.city_wide \in {"yes", "no", "unset"}
  /\ \A l \in AllLocations : \A name \in NamesOf(l) : name.core # {}
  /\ Told => \A l \in AllLocations : l.is_polygon <=> l.rings # {}

(* A broadcast to the whole city goes out only when the text says so,      *)
(* whatever the model answered and whatever the guards removed.            *)
BroadcastOnlyWhenSaid ==
  Guarded /\ alert.locations = <<>> /\ alert.city_wide # "no" => Says(text, {"everyone"})

(* No place is stored that the text does not name, the city of a heating   *)
(* alert apart, by any of the rules that fill a slot.                      *)
NothingInvented ==
  Guarded => \A name \in AllNames :
    \/ Mentions(name, text)
    \/ alert.category = "heating" /\ name = HeatingSettlement

(* A street of the outage the model found is still there after every rule  *)
(* that moves, splits or merges: only an address detail is cut off it, and *)
(* only a street first named after the remedy goes.                        *)
OfTheOutage(street) ==
  LET at == FirstIndex(street, text, 1)
  IN /\ ~IsPlaceless(street) /\ Mentions(street, text)
     /\ \A i \in DOMAIN text : text[i].cue \in {"truck", "junction"} => at < i

NothingNamedIsLost ==
  Guarded /\ alert.locations # <<>> =>
    \A i \in DOMAIN parsed.locations : \A j \in DOMAIN parsed.locations[i].streets :
      LET street == StripAddressDetail(parsed.locations[i].streets[j])
      IN OfTheOutage(street) => street \in AllNames

(* A message of two blocks never becomes a block that cannot close while   *)
(* the model had found enough sides.                                       *)
BlocksCanClose ==
  Guarded /\ (\A i \in DOMAIN parsed.locations :
                Len(CleanStreets(parsed.locations[i].streets, text)) >= 3) =>
    \A l \in AllLocations : l.is_polygon => Len(l.streets) >= 3

Hears(region, settlement) ==
  region.parent = settlement.id => UnplacedInRegion(region.id) \subseteq Targeted(alert)
HearsIn(district, settlement) ==
  Hears(MatchRegion(district, Under(settlement, Regions)), settlement)

(* A district written "гр. X - кв. Y, ул. A" hears of it however the model *)
(* filed the three names: the district as the area, as the first street,   *)
(* or as the area with the settlement left out.                            *)
DistrictHeardHoweverFiled ==
  \A district \in UNION {NamesOf(parsed.locations[i]) : i \in DOMAIN parsed.locations} :
    LET town == text[1].name
        street == text[3].name
        filings == {Location(town, district, <<street>>, FALSE),
                    Location(town, NoName, <<district, street>>, FALSE),
                    Location(NoName, district, <<street>>, FALSE)}
    IN /\ Told /\ Len(text) = 3 /\ \A i \in 1..3 : text[i].cue = "name"
       /\ PlaceClass(text[2].name.kind) = "district" /\ PlaceClass(street.kind) = "street"
       /\ PlaceClass(district.kind) = "district"
       /\ \E f \in filings : parsed.locations = <<f>>
       => HearsIn(district, SettlementScope(town, NoName))

ScopeOf(location) == SettlementScope(location.settlement, location.area)

InSettlement(u, settlement) ==
  \/ settlement.id \in {u.region, RegionById(u.region).parent}
  \/ u.region # 0 /\ RegionById(u.region).parent = 0
  \/ u.street # 0 /\ \E i \in DOMAIN Streets :
       Streets[i].id = u.street /\ Streets[i].parent = settlement.id
  \/ u.region = 0 /\ Near(u.at, settlement.at, SETTLEMENT_REACH)

OutsideTheCity(settlement) == settlement # NoRow /\ ~IsCity(settlement)

AllInSettlement(location, settlement) ==
  \A u \in UsersWithin(location, settlement) : InSettlement(Users[u], settlement)

(* A row without a settlement is not known to lie in another: it may be    *)
(* another settlement's own, with districts.                               *)
AnotherSettlement(region, settlement) ==
  /\ region # NoRow
  /\ region.id # settlement.id /\ region.parent = 0
  /\ Districts(region) # {}

(* The users a location reaches without a ring live in the settlement it   *)
(* names, in a place whose settlement is not recorded, or cannot be placed *)
(* and are close by: a district or street of the name elsewhere never      *)
(* carries the push out of a town or village.                              *)
StaysInTheSettlement ==
  Told => \A l \in AllLocations : \A settlement \in {ScopeOf(l)} :
    OutsideTheCity(settlement) =>
      \/ AnotherSettlement(NamedRegion(l, settlement), settlement)
      \/ AllInSettlement(l, settlement)

(* What a test says of every area outside the city: none resolves into     *)
(* another settlement.  The code spares that settlement's own row.         *)
NeverAnotherSettlement ==
  Told => \A l \in AllLocations : \A settlement \in {ScopeOf(l)} :
    OutsideTheCity(settlement) => AllInSettlement(l, settlement)

NamesTheCity(name) == name.core = Varna /\ name.kind \in {"gr", "none"}

(* The city by name alone, its district lost, reaches nobody: no hedge and *)
(* no street that is not found widens it.                                  *)
LostDistrictReachesNobody ==
  Told => \A l \in AllLocations : \A settlement \in {ScopeOf(l)} :
    /\ settlement # NoRow /\ IsCity(settlement)
    /\ l.area = NoName /\ NamesTheCity(l.settlement)
    /\ StreetIds(l, settlement) = {}
    => UsersWithin(l, settlement) = {}

(* The residents of a street the location names hear of it, wherever in    *)
(* the settlement they registered, unless a district narrows the street.   *)
NamedStreetsHear ==
  Told => \A l \in AllLocations : \A settlement \in {ScopeOf(l)} :
    settlement # NoRow /\ l.area = NoName /\ ~l.region_wide =>
      UsersOnStreets(StreetIds(l, settlement)) \subseteq UsersWithin(l, settlement)

(* Reading the streets as "in the area of" only widens the audience among  *)
(* the users registered under the place, the city apart: in the area slot  *)
(* it is hedged to nobody.                                                 *)
RegisteredUnder(region) == UsersInRegions({region.id} \cup {d.id : d \in Districts(region)})

HedgeOnlyWidens ==
  Told => \A l \in AllLocations : \A settlement \in {ScopeOf(l)} :
    \A region \in {NamedRegion(l, settlement)} :
      OutsideTheCity(region) =>
        (UsersReadAs(FALSE, l, region, settlement) \cap RegisteredUnder(region))
          \subseteq UsersReadAs(TRUE, l, region, settlement)

(* A block drawn on the map never silences those the text would reach      *)
(* without it.                                                             *)
RingNeverSilences ==
  Told => \A l \in AllLocations :
    UsersInRange(l) # {} => Audience(l) # {}

(* Which row a name means does not depend on the order of the table, up to *)
(* rows of one name at one distance.                                       *)
SeedOrderNeverDecides ==
  Guarded => \A name \in AllNames :
    LET one == MatchAnyRegion(name)
        other == MatchRegionIn(name, Reverse(Regions), DOMAIN Regions)
    IN one.name = other.name => one.at = other.at

(* Nobody who turned the category off is pushed, through any audience.     *)
OptOutsHold == reached \cap Disabled(alert.category) = {}

(* A bus-line alert keeps everyone who follows no line, and a broadcast    *)
(* everyone not known to be far away.                                      *)
BroadcastKeepsTheUnplaced ==
  stage = "told" /\ alert.locations = <<>> /\ alert.city_wide # "no" =>
    Where(LAMBDA u : u.at = Nowhere /\ u.region = 0 /\ u.lines = {}) \ Disabled(alert.category)
      \subseteq reached

(* An alert is done only when every one of its recipients was accepted.    *)
DoneMeansEveryone == stage = "told" => reached = Recipients(alert)

(* What the guards make of any parse: they widen nothing the text does not *)
(* say, invent no place, lose no street of the outage nor those who live   *)
(* on it, and read a district alike however it was filed and whatever      *)
(* order the rows were seeded in (normalizeParse).                         *)
TextSafe ==
  /\ TypeOK
  /\ BroadcastOnlyWhenSaid
  /\ NothingInvented
  /\ NothingNamedIsLost
  /\ BlocksCanClose
  /\ DistrictHeardHoweverFiled
  /\ NamedStreetsHear
  /\ SeedOrderNeverDecides

(* Whom a stored alert reaches: the settlement it names and nobody beyond, *)
(* nobody where only the city is named, more of them with a hedge or a     *)
(* ring, and never a user who opted out (sendUsersNotification).           *)
AudienceSafe ==
  /\ StaysInTheSettlement
  /\ LostDistrictReachesNobody
  /\ HedgeOnlyWidens
  /\ RingNeverSilences
  /\ OptOutsHold
  /\ BroadcastKeepsTheUnplaced
  /\ DoneMeansEveryone

(* Why: nothing is sent before the alert is stored, and an alert does not  *)
(* change any more while its chunks are sent, refused and sent again.      *)
SendInv ==
  /\ stage \notin {"stored", "told"} => reached = {}
  /\ reached \subseteq Recipients(alert)
  /\ stage = "told" => reached = Recipients(alert)

(* Why a broadcast is one the text says: the guards work on a blank alert  *)
(* and on a parse of that text, and nothing looks at the parse after them. *)
BroadcastInv ==
  /\ stage = "scraped" => text \in Messages
  /\ stage \in {"scraped", "parsed"} => alert = Blank(alert.category)
  /\ stage = "parsed" => DOMAIN parsed = {"locations", "city_wide"}
  /\ BroadcastOnlyWhenSaid
=============================================================================
