---------------------------- MODULE MCMmRamPort -----------------------------
(* A RAM of two words of one bit, the last of which is also the debug      *)
(* window.  Stalls are off, or random with delays of up to one cycle.      *)
EXTENDS MmRamPort

MCKnobs == {[en |-> 0, mode |-> STANDARD, max |-> 0, gnt |-> 0, valid |-> 0],
            [en |-> 1, mode |-> RANDOM,   max |-> 1, gnt |-> 0, valid |-> 0]}
=============================================================================
