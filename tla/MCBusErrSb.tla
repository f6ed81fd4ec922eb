----------------------------- MODULE MCBusErrSb -----------------------------
(* Three words, a window of two ok fetches, and six retirements: at a word *)
(* and across two, trapping or not, entries of both handlers, and one in   *)
(* debug mode.                                                             *)
EXTENDS BusErrSb

Plain == [pc |-> 2, compressed |-> FALSE, trap |-> FALSE, nmi |-> FALSE,
          ifault |-> FALSE, dbg_mode |-> FALSE, step |-> FALSE]

MCRetirement ==
    {Plain,
     [Plain EXCEPT !.pc = 3, !.trap = TRUE],
     [Plain EXCEPT !.pc = 4, !.compressed = TRUE],
     [Plain EXCEPT !.nmi = TRUE],
     [Plain EXCEPT !.ifault = TRUE],
     [Plain EXCEPT !.dbg_mode = TRUE]}
=============================================================================
