------------------------------ MODULE Normalize ------------------------------
(***************************************************************************)
(* The deterministic guards over the model's parse of an outage message:   *)
(* ingestion/normalize.ts.  A message is a sequence of tokens, each a      *)
(* written name or a cue; a name stands wherever one of its words does.    *)
(***************************************************************************)
EXTENDS Places, SequencesExt

CONSTANTS
  Twins,         \* A16: words written with a Latin look-alike, and what they mean
  Alike,         \* pairs of words whose trigrams are close enough for A10
  Details,       \* house numbers, entrances, blocks
  GenericNames,  \* A1: cores that name no place
  Zone           \* the word "зона"

Token(cue, name) == [cue |-> cue, name |-> name]

Location(settlement, area, streets, is_polygon) ==
  [settlement |-> settlement, area |-> area, streets |-> streets,
   is_polygon |-> is_polygon, region_wide |-> FALSE]

Says(message, cues) == \E i \in DOMAIN message : message[i].cue \in cues
CuesAt(message, cues) == {i \in DOMAIN message : message[i].cue \in cues}
Least(S) == CHOOSE i \in S : \A j \in S : i <= j

(* A16: a word with a Latin twin is read as the Cyrillic one.              *)
FoldMixedScript(message) ==
  [i \in DOMAIN message |-> [message[i] EXCEPT !.name.core =
     {IF w \in DOMAIN Twins THEN Twins[w] ELSE w : w \in @}]]

(* A1 and A5.                                                              *)
IsPlaceless(name) == name.core = {} \/ name.core \in GenericNames

StripAddressDetail(name) ==
  IF name.kind \in {"ul", "bul"} /\ ~(name.core \subseteq Details)
  THEN Name(name.kind, name.core \ Details) ELSE name

(* Lenient for A10, which deletes; literal for the positional rules.       *)
Mentions(name, message) ==
  \/ name.core = {}
  \/ \E i \in DOMAIN message : \E w \in name.core, v \in message[i].name.core :
       w = v \/ {w, v} \in Alike

(* Where a name first stands from a position on; 0 when nowhere.           *)
FirstIndex(name, message, from) ==
  LET found == {i \in DOMAIN message : i >= from /\ message[i].name.core \cap name.core # {}}
  IN IF found = {} THEN 0 ELSE Least(found)

(* Mutant: every street is dropped once the cue appears.                   *)
RemedyOnlyAnywhere(street, message) ==
  CuesAt(message, {"truck", "junction"}) # {} /\ FirstIndex(street, message, 1) # 0

(* A14: first named after the water truck or the junction.                 *)
RemedyOnly(street, message) ==
  LET cues == CuesAt(message, {"truck", "junction"})
  IN cues # {} /\ FirstIndex(street, message, 1) >= Least(cues)

CleanStreets(streets, message) ==
  LET stripped == [i \in DOMAIN streets |-> StripAddressDetail(streets[i])]
  IN SelectSeq(stripped, LAMBDA s : /\ ~IsPlaceless(s)
                                    /\ ~RemedyOnly(s, message)
                                    /\ Mentions(s, message))

(* Mutant: A10 looks at the streets only.                                  *)
CleanSlotUnread(name, message) ==
  LET stripped == StripAddressDetail(name)
  IN IF IsPlaceless(stripped) THEN NoName ELSE stripped

CleanSlot(name, message) ==
  LET stripped == StripAddressDetail(name)
  IN IF IsPlaceless(stripped) \/ ~Mentions(stripped, message) THEN NoName ELSE stripped

COHERENCE_MAX == 20 * Km

Contained(s, a) ==
  \/ NoRow \in {s, a}
  \/ IF a.parent # 0 THEN a.parent = s.id
     ELSE Nowhere \in {s.at, a.at} \/ Distance(s.at, a.at) <= COHERENCE_MAX

Coherent(s, area) ==
  Contained(s, MatchRegion(area, IF s = NoRow THEN DOMAIN Regions ELSE AtOrUnder(s)))

(* A9: a settlement that cannot contain its area is dropped.               *)
CoherentSettlement(settlement, area) ==
  IF NoName \in {settlement, area} \/ Coherent(MatchRegion(settlement, Settlements), area)
  THEN settlement ELSE NoName

(* A17: the one seeded settlement, not the city, the message states.       *)
SoleStatedSettlement(message) ==
  LET seeded == {r.name.core : r \in {Regions[i] : i \in {j \in DOMAIN Regions :
                                        Regions[j].name.kind = "none"}}}
      said == {i \in DOMAIN message :
                 message[i].name.kind \in {"gr", "s"} /\ message[i].name.core \in seeded}
      cores == {message[i].name.core : i \in said}
  IN IF Varna \notin cores /\ Cardinality(cores) = 1 THEN Least(said) ELSE 0

(* Mutant: the first street stands for the location before its area.      *)
RestoreByStreet(area, streets, message) ==
  LET stated == SoleStatedSettlement(message)
      anchor == IF streets # <<>> THEN streets[1] ELSE area
  IN IF stated = 0 \/ anchor = NoName THEN NoName
     ELSE IF FirstIndex(anchor, message, stated + 1) = stated + 1
     THEN message[stated].name ELSE NoName

(* It is restored when it directly introduces the location's first name.   *)
RestoreStatedSettlement(area, streets, message) ==
  LET stated == SoleStatedSettlement(message)
      anchor == IF area # NoName THEN area ELSE streets[1]
      nameless == area = NoName /\ streets = <<>>
  IN IF stated = 0 \/ nameless THEN NoName
     ELSE IF FirstIndex(anchor, message, stated + 1) = stated + 1
     THEN message[stated].name ELSE NoName

HeatingSettlement == Name("gr", Varna)

Settlement(coherent, area, streets, message, category) ==
  LET restored == RestoreStatedSettlement(area, streets, message)
  IN IF coherent # NoName THEN coherent
     ELSE IF restored # NoName THEN restored
     ELSE IF category = "heating" /\ (area # NoName \/ streets # <<>>) THEN HeatingSettlement
     ELSE NoName

(* A12: the cues that open a block, a street standing between any two.     *)
BlockStarts(streets, message) ==
  LET cues == SetToSortSeq(CuesAt(message, {"block"}), <)
      at == {FirstIndex(streets[i], message, 1) : i \in DOMAIN streets}
      Open(starts, cue) == IF \E i \in at : Last(starts) < i /\ i < cue
                           THEN Append(starts, cue) ELSE starts
  IN IF Len(cues) < 2 \/ 0 \in at THEN <<>> ELSE FoldLeft(Open, <<cues[1]>>, Tail(cues))

(* The block whose cue it follows, the first when it follows none, and     *)
(* every later block that names it again.                                  *)
InBlock(street, b, starts, message) ==
  LET at == FirstIndex(street, message, 1)
      again == {i \in DOMAIN message : message[i].name.core \cap street.core # {}}
      Spans(i) == starts[b] <= i /\ (b < Len(starts) => i < starts[b + 1])
  IN \/ Spans(at)
     \/ b = 1 /\ at < starts[1]
     \/ b > 1 /\ \E i \in again : Spans(i)

BlocksFrom(starts, streets, message) ==
  [b \in DOMAIN starts |-> SelectSeq(streets, LAMBDA s : InBlock(s, b, starts, message))]
Blocks(streets, message) == BlocksFrom(BlockStarts(streets, message), streets, message)

(* Mutant: the blocks are kept however few sides they have.                *)
KeepBlocksAlways(blocks, streets) == IF Len(blocks) < 2 THEN <<streets>> ELSE blocks

(* A block needs three sides, or the list stays whole.                     *)
KeepBlocks(blocks, streets) ==
  IF Len(blocks) < 2 \/ \E b \in DOMAIN blocks : Len(blocks[b]) < 3 THEN <<streets>> ELSE blocks

SplitBlocks(streets, message) == KeepBlocks(Blocks(streets, message), streets)

IsBareCity(name) == name.core # {} /\ (name.kind = "gr" \/ name.core = Varna)

(* A13: named between a street-list marker and the end of its sentence.    *)
Declared(street, message) ==
  \E m \in CuesAt(message, {"streets:"}) :
    LET at == FirstIndex(street, message, m + 1)
    IN at # 0 /\ \A stop \in CuesAt(message, {"."}) : stop > m => at < stop

(* A4: a street-list entry that is a place of its own.                     *)
IsPromotable(sub, parentIsCity, message) ==
  /\ sub.core # {}
  /\ ~Declared(sub, message)
  /\ PlaceClass(sub.kind) # "street"
  /\ \/ PlaceClass(sub.kind) # "unstated"
     \/ IF Zone \in sub.core THEN MatchAnyStreet(sub) = NoRow
        ELSE parentIsCity /\ MatchAnyRegion(sub) # NoRow

(* The only district, listed before the streets, takes the empty area.     *)
OwnsStreets(area, promoted, streets) ==
  /\ area = NoName
  /\ Len(promoted) = 1
  /\ promoted[1] = streets[1]

(* The location itself, unless all that is left of it is its settlement.   *)
OwnLocation(settlement, area, left, siblings, message) ==
  IF area = NoName /\ left = <<>> /\ (siblings # <<>> \/ settlement = NoName) THEN <<>>
  ELSE <<[Location(settlement, area, left, FALSE)
            EXCEPT !.region_wide = Says(message, {"around"}) /\ left # <<>>]>>

Promoted(settlement, area, streets, promoted, message) ==
  LET left == SelectSeq(streets, LAMBDA s : ~Contains(promoted, s))
      siblings == [i \in DOMAIN promoted |-> Location(settlement, promoted[i], <<>>, FALSE)]
  IN IF OwnsStreets(area, promoted, streets)
     THEN OwnLocation(settlement, promoted[1], left, <<>>, message)
     ELSE OwnLocation(settlement, area, left, siblings, message) \o siblings

(* A4 and A6 over one location that is no polygon.                         *)
Promote(settlement, area, streets, message) ==
  LET parentIsCity == IsBareCity(settlement) /\ area = NoName
  IN Promoted(settlement, area, streets,
              SelectSeq(streets, LAMBDA s : IsPromotable(s, parentIsCity, message)), message)

(* A1, A5, A14 and A10.                                                    *)
Clean(location, message) ==
  [location EXCEPT !.settlement = CleanSlot(@, message), !.area = CleanSlot(@, message),
                   !.streets = CleanStreets(@, message)]

(* A9, A17 and the city of a heating alert.                                *)
Settle(location, message, category) ==
  [location EXCEPT !.settlement =
     Settlement(CoherentSettlement(@, location.area), location.area, location.streets,
                message, category)]

Outlined(location, message) ==
  \/ location.is_polygon
  \/ Says(message, {"block", "between", "junction"}) /\ Len(location.streets) >= 3

(* A2, then A12 or A4.                                                     *)
Shape(location, message) ==
  IF ~Outlined(location, message)
  THEN Promote(location.settlement, location.area, location.streets, message)
  ELSE IF location.streets = <<>> THEN <<>>
  ELSE LET blocks == SplitBlocks(location.streets, message)
       IN [b \in DOMAIN blocks |-> Location(location.settlement, location.area, blocks[b], TRUE)]

NormalizeLocation(location, message, category) ==
  Shape(Settle(Clean(location, message), message, category), message)

(* A15: the only district of the city the message spells out.              *)
RescueLostDistrict(location, message) ==
  LET cities == {i \in DOMAIN Regions : IsBareCity(Regions[i].name)}
      named == {r.name : r \in {d \in {Regions[i] : i \in DOMAIN Regions} :
                  /\ d.parent = Regions[Least(cities)].id
                  /\ d.id # d.parent
                  /\ \E i \in DOMAIN message : d.name.core \subseteq message[i].name.core}}
      lost == /\ location.area = NoName
              /\ location.streets = <<>>
              /\ IsBareCity(location.settlement)
  IN IF lost /\ cities # {} /\ Cardinality(named) = 1
     THEN [location EXCEPT !.area = CHOOSE name \in named : TRUE] ELSE location

SamePlace(a, b) ==
  /\ ~a.is_polygon /\ ~b.is_polygon
  /\ <<a.settlement, a.area, a.region_wide>> = <<b.settlement, b.area, b.region_wide>>

(* A11: the same place twice is one place with both street lists.          *)
MergeDuplicates(locations) ==
  LET Merge(merged, location) ==
        LET same == {i \in DOMAIN merged : SamePlace(merged[i], location)}
            New(i) == SelectSeq(location.streets, LAMBDA s : ~Contains(merged[i].streets, s))
        IN IF same = {} THEN Append(merged, location)
           ELSE [merged EXCEPT ![Least(same)].streets = @ \o New(Least(same))]
  IN FoldLeft(Merge, <<>>, locations)

LoneVarna(location) ==
  LET name == IF location.area # NoName THEN location.area ELSE location.settlement
  IN /\ location.streets = <<>> /\ ~location.is_polygon
     /\ name.core = Varna /\ name.kind \in {"gr", "none"}

(* A3 and A8: city-wide only when the message says so.                     *)
ApplyCityWideGuard(output, message) ==
  LET said == Says(message, {"everyone"})
  IN IF DOMAIN output.locations = {} THEN [output EXCEPT !.city_wide = @ /\ said]
     ELSE IF Len(output.locations) = 1 /\ LoneVarna(output.locations[1]) /\ said
     THEN [locations |-> <<>>, city_wide |-> TRUE] ELSE output

Normalized(output, message, category) ==
  LET Rescued(all) == [i \in DOMAIN all |-> RescueLostDistrict(all[i], message)]
  IN [output EXCEPT !.locations = MergeDuplicates(Rescued(FlattenSeq(
        [i \in DOMAIN @ |-> NormalizeLocation(@[i], message, category)])))]

(* Mutant: the city-wide guard looks at the parse as the model left it.    *)
NormalizeParseGuardFirst(output, message, category) ==
  Normalized(ApplyCityWideGuard(output, message), message, category)

NormalizeParse(output, message, category) ==
  ApplyCityWideGuard(Normalized(output, message, category), message)
=============================================================================
