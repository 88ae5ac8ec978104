------------------------------ MODULE MCIdProbe ------------------------------
(* Small ViK id spaces for TLC, without hedged announcements.              *)
EXTENDS IdProbe

MCHedged == {}
MCRestates == {}
=============================================================================
