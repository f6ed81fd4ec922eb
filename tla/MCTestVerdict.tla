---------------------------- MODULE MCTestVerdict ---------------------------
(* Two clocks of start-up and two of drain let every writer act before,    *)
(* during and after the wait; two UVM errors end a simulation.             *)
EXTENDS TestVerdict
=============================================================================
