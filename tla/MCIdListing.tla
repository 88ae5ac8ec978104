---------------------------- MODULE MCIdListing -----------------------------
(* Small heating listings for TLC: the newest message hedges the one       *)
(* before it.                                                              *)
EXTENDS IdListing

MCHedged == {MaxId}
MCRestates == {<<MaxId, MaxId - 1>>}
=============================================================================
