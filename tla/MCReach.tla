------------------------------- MODULE MCReach -------------------------------
EXTENDS Reach

R(id, kind, core, parent, at) == [id |-> id, name |-> Name(kind, core), parent |-> parent, at |-> at]

\* Two towns with a district of one name, a street of one name in each town, a
\* village, villa zones of one name, and a district whose town is not recorded.
MCRegions == <<
  R(1, "none", {"varna"}, 0, 0),
  R(2, "kv", {"vinitsa"}, 1, 7 * Km),
  R(3, "zhk", {"ml", "la", "do", "st", "one"}, 1, 3 * Km),
  R(5, "none", {"devnya"}, 0, 26 * Km),
  R(4, "zhk", {"ml", "la", "do", "st"}, 5, 26 * Km),
  R(6, "none", {"avren"}, 0, 23 * Km),
  R(7, "so", {"izgrev"}, 0, 39 * Km),
  R(8, "so", {"izgrev"}, 0, 12 * Km),
  R(9, "kv", {"galata"}, 0, 6 * Km)>>
MCStreets == <<
  R(1, "none", {"tsar"}, 1, 7 * Km),
  R(2, "none", {"tsar"}, 5, 26 * Km),
  R(3, "none", {"reka"}, 6, 23 * Km),
  R(4, "none", {"bor"}, 1, 3 * Km)>>
MCVarna == {"varna"}

U(region, street, at, all, lines, off) ==
  [region |-> region, street |-> street, at |-> at, receives_all |-> all, lines |-> lines, off |-> off]
MCUsers == <<
  U(2, 1, 7 * Km, FALSE, {"31A"}, {}),
  U(2, 0, 7 * Km + 2, FALSE, {}, {"vik"}),
  U(3, 4, 3 * Km, FALSE, {"7"}, {}),
  U(5, 2, 26 * Km, FALSE, {}, {}),
  U(4, 0, Nowhere, FALSE, {}, {}),
  U(0, 0, 26 * Km + 50, FALSE, {}, {}),
  U(6, 3, 23 * Km, FALSE, {}, {}),
  U(0, 0, Nowhere, FALSE, {}, {}),
  U(6, 0, 23 * Km, TRUE, {}, {"heating"}),
  U(4, 2, 26 * Km, FALSE, {}, {})>>
MCLineNames == [l \in {"7", "31A", "31a"} |-> IF l = "31a" THEN "31A" ELSE l]

MCTwins == [w \in {"Ml"} |-> "ml"]
MCAlike == {{"vinitsa", "vinica"}}
MCDetails == {"25"}
MCGenericNames == {{"zona"}, {"kareto"}}

N(kind, core) == Token("name", Name(kind, core))
Varnas == N("gr", {"varna"})
Cue(c) == Token(c, NoName)
tsar == N("ul", {"tsar"})    bor == N("ul", {"bor"})    reka == N("ul", {"reka"})
MCMessages == {
  <<Varnas, N("kv", {"vinica"}), tsar>>,
  <<N("gr", {"devnya"}), N("zhk", {"Ml", "la", "do", "st"}), tsar>>,
  <<N("gr", {"devnya"}), Cue("streets:"), tsar, bor, Cue("."), Cue("truck"), reka>>,
  <<Cue("around"), N("s", {"avren"}), reka>>,
  <<N("s", {"avren"}), N("kv", {"devnya"}), reka>>,
  <<Cue("everyone"), Varnas>>,
  <<Varnas, Cue("around"), N("kv", {"galata"})>>,
  <<N("kv", {"ml", "la", "do", "st"}), N("so", {"izgrev"}), N("ul", {"tsar", "25"})>>}
\* Two blocks that share a side, and a street named before the first.
MCBlocks == {<<bor, Cue("block"), tsar, reka, N("ul", {"vit"}), Cue("block"), tsar, N("ul", {"dub"}), N("ul", {"lipa"})>>,
             <<Cue("block"), tsar, reka, bor, Cue("block"), N("ul", {"dub"})>>}

\* The model writes the seeded spelling.
Spelt(n) == Name(n.kind, {IF w = "vinica" THEN "vinitsa" ELSE w : w \in n.core})
Listed(m) == SelectSeq([i \in DOMAIN m |-> Spelt(m[i].name)], LAMBDA n : n # NoName)
Said(m) == {Listed(m)[i] : i \in DOMAIN Listed(m)}
Once(s) == FoldLeft(LAMBDA a, e : IF Contains(a, e) THEN a ELSE Append(a, e), <<>>, s)
Towns(m) == {NoName, Name("gr", {"polis"})} \cup {n \in Said(m) : n.kind \in {"gr", "s"}}
Areas(m) == {NoName, Name("none", {"zona"})} \cup {n \in Said(m) : n.kind # "ul"}
StreetLists(m) ==
  {<<>>, Once(Listed(m)), Once(SelectSeq(Listed(m), LAMBDA n : n.kind = "ul")),
   Once(SelectSeq(Listed(m), LAMBDA n : n.kind \in {"ul", "kv", "zhk", "so"})),
   Reverse(Once(SelectSeq(Listed(m), LAMBDA n : n.kind \in {"ul", "kv", "zhk", "so"})))}
\* The two texts of a district and a street are never taken for a block.
Flags(m) == IF Len(m) = 3 /\ m[1].cue = "name" /\ m[3] = tsar THEN {FALSE} ELSE BOOLEAN
One(m) == {<<Location(s, a, l, p)>> : s \in Towns(m), a \in Areas(m),
                                      l \in StreetLists(m), p \in Flags(m)}
Two(m) == {<<Location(s, a, Once(Listed(m)), FALSE), Location(s, NoName, l, FALSE)>> :
             s \in Towns(m), a \in Areas(m), l \in StreetLists(m)}
MCParses(m) == [locations : {<<>>} \cup One(m) \cup Two(m), city_wide : BOOLEAN]
MCAllMessages == MCMessages \cup MCBlocks
MCRings == {<<7 * Km - 1, 7 * Km>>, <<40 * Km, 41 * Km>>}

Direct(settlement, area, wide) ==
  [Location(settlement, area, <<tsar.name>>, FALSE) EXCEPT !.region_wide = wide] @@ [rings |-> {}]
MCAlerts ==
  {[category |-> "vt", locations |-> <<>>, city_wide |-> c, lines |-> l] :
     c \in {"yes", "no", "unset"}, l \in SUBSET {"31a", "0", "7"}} \cup
  {[category |-> "vik", locations |-> <<Direct(s, n, w)>>, city_wide |-> "no", lines |-> {}] :
     s \in {NoName, Name("gr", {"devnya"})}, w \in BOOLEAN,
     n \in {Name("zhk", {"ml", "la", "do", "st"}), Name("kv", {"galata"}), Name("kv", {"vinitsa"}),
           Name("none", {"devnya"})}}
==============================================================================
