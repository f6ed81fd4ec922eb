----------------------------- MODULE MCGntStall -----------------------------
(* Every register setting with delays up to MAX_STALL, for both enables    *)
(* (EN = 2 selects the staller but leaves its enable bit clear).           *)
EXTENDS GntStall

MCKnobs == [en : 0 .. 2, mode : 1 .. 3, max : 0 .. 2, gnt : 0 .. 2, valid : {0}]
=============================================================================
