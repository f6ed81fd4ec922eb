--------------------------- MODULE MCPeripherals ----------------------------
(* Timer registers of two 2-bit halves, one interrupt line that the Sail   *)
(* register may drive and one that it may not, and debug commands for a    *)
(* level, a fixed pulse with default counts, and a pulse that is random    *)
(* throughout.                                                             *)
EXTENDS Peripherals

MCDebugCommand ==
    {[value |-> v, pulse |-> FALSE, rnd_duration |-> FALSE, duration |-> 0,
      rnd_start |-> FALSE, start |-> 2] : v \in BOOLEAN}
    \cup
    {[value |-> TRUE, pulse |-> TRUE, rnd_duration |-> FALSE, duration |-> 0,
      rnd_start |-> FALSE, start |-> 0],
     [value |-> TRUE, pulse |-> TRUE, rnd_duration |-> TRUE, duration |-> 2,
      rnd_start |-> TRUE, start |-> 0]}
=============================================================================
