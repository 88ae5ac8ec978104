---------------------------- MODULE MCGeocoding ----------------------------
EXTENDS Geocoding

CONSTANTS w1, w2, u1

MCPlaces == {w1, w2}
MCUsers == {u1}
MCLocation ==
  w1 :> [area |-> Absent, streets |-> <<"s">>, settlement |-> "v"] @@
  w2 :> [area |-> "s", streets |-> <<>>, settlement |-> Absent]
MCBudget == w1 :> 4 @@ w2 :> Unbounded @@ u1 :> 2
=============================================================================
