--------------------------- MODULE MCRvalidStall ----------------------------
(* Two slots, both used; a drawn delay of four is cut to none.             *)
EXTENDS RvalidStall

MCKnobs == {[en |-> 1, mode |-> RANDOM, max |-> 4, gnt |-> 0, valid |-> 0]}
=============================================================================
