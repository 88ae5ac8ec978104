---------------------------- MODULE MCSeenListing ----------------------------
(* A page of at most three messages out of five and two messages to a tick:*)
(* the first two never parse, the fourth never parses and uses up its tick,*)
(* the last has no route change; two types of entry.                       *)
EXTENDS SeenListing

MCBuckets == {{1, 3, 5}, {2, 4}}
=============================================================================
