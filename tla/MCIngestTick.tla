---------------------------- MODULE MCIngestTick -----------------------------
(* Three sources, the second of them on every third tick: as in the code,  *)
(* an interval is one tick or a multiple of the number of sources.         *)
EXTENDS IngestTick

MCSources == <<"vik", "heating", "epro">>
MCMinutes == [s \in Sources |-> IF s = "heating" THEN 40 ELSE 15]
MCQuiet == [s \in Sources |-> IF s = "heating" THEN 3 ELSE 1]
=============================================================================
