---------------------------- MODULE MCAlgorithms -----------------------------
EXTENDS Algorithms, MCReach

MCDeadlines == {0, 1, 2, 5, 9, 13, 25}
MCNeed == "page" :> 1 @@ "parse" :> 2
MCPause == "page" :> 2 @@ "parse" :> 2
MCTimeout == "page" :> 4 @@ "parse" :> 6

MCClocks == -1..Day
MCWindows == [start : MCClocks, end : MCClocks]
MCSchedules == [from : {-1, 2, 3}, to : {-1, 1, 3, 4},
                windows : UNION {[1..n -> MCWindows] : n \in 0..2}]
MCCreated == {1 * Day + 1, 2 * Day, 2 * Day + 1}

Plain(core) == Name("none", core)
Row(id, core, parent) == [id |-> id, name |-> Plain(core), parent |-> parent, at |-> 0]
\* The streets of blocks in Varna; two of them again in Devnya, one under two
\* spellings.
MCAllStreets == MCStreets \o <<
  Row(11, {"a"}, 1), Row(12, {"b"}, 1), Row(13, {"c", "x", "y"}, 1), Row(14, {"d"}, 1),
  Row(15, {"e"}, 1), Row(16, {"aa"}, 1), Row(17, {"aa"}, 5), Row(18, {"c", "x", "z"}, 5),
  Row(19, {"f"}, 1)>>
Stretch(x0, x1, y0, y1) == [minX |-> x0, maxX |-> x1, minY |-> y0, maxY |-> y1,
                            length |-> (x1 - x0) + (y1 - y0)]
MCWays ==
  (11 :> {Stretch(0, 4, 0, 0)}) @@
  (12 :> {Stretch(4, 4, 0, 20)}) @@
  (13 :> {Stretch(0, 4, 20, 20), Stretch(100, 104, 20, 20)}) @@
  (14 :> {Stretch(0, 0, 0, 20)}) @@
  (15 :> {Stretch(60, 70, 60, 60), Stretch(20, 30, 40, 40)}) @@
  (16 :> {Stretch(5, 30, 0, 0)}) @@
  (17 :> {Stretch(500, 510, 0, 0)}) @@
  (18 :> {Stretch(600, 610, 0, 0)})
MCVariants == Plain({"a"}) :> {Plain({"aa"})}
MCNames == {Plain({"a"}), Plain({"b"}), Plain({"c", "x", "y", "z"}), Plain({"d"}), Plain({"e"}), Plain({"f"}), Plain({"g"})}
MCOutlines == {<<a, b, c, d>> : a, b, c, d \in MCNames}

Face(samples, area, vertices) == [samples |-> samples, area |-> area, vertices |-> vertices]
MCa == Plain({"a"})   MCb == Plain({"b"})   MCc == Plain({"c", "x", "y"})
MCReal == Face(<<{MCa}, {MCa}, {MCb}, {MCb}, {}>>, 20, 22)
MCTriangle == Face(<<{MCa}, {MCa, MCb}, {MCb, MCc}, {MCc}, {}>>, 4, 4)
MCSamples == [1..5 -> {{}, {MCa}, {MCb}, {MCa, MCb}}]
MCFacesOf(names) ==
  IF names = <<MCa, MCb, Plain({"c", "x", "y", "z"}), Plain({"d"})>>
  THEN {<<Face(f, 15, 8)>> \o rest : f \in MCSamples, rest \in {<<>>, <<MCReal>>, <<MCTriangle>>}}
         \cup {<<Face(f, 9, 8), MCReal>> : f \in MCSamples} \cup {<<MCTriangle, MCReal>>}
  ELSE {<<>>, <<MCTriangle>>}
==============================================================================
