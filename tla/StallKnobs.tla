----------------------------- MODULE StallKnobs -----------------------------
(***************************************************************************)
(* The random-stall control registers of mm_ram for one OBI channel and    *)
(* the modes of package perturbation_defines.  Software may reprogram the  *)
(* registers at run time through the RNDSTALL window, so they are state of *)
(* the modules that use them; here is only what a register setting means.  *)
(***************************************************************************)
LOCAL INSTANCE Naturals

STANDARD == 1
RANDOM   == 2

(***************************************************************************)
(* One channel's registers: RND_STALL_x_EN, _MODE, _MAX, _GNT and _VALID.  *)
(***************************************************************************)
KnobRegs == [en : Nat, mode : Nat, max : Nat, gnt : Nat, valid : Nat]

(* The grant multiplexer of mm_ram looks at the whole EN register ...      *)
StallSelected(k) == k.en # 0

(* ... and the stall modules are wired to bit 0 of it.                     *)
en_stall_i(k) == k.en % 2 = 1

CONSTANT Knobs          \* the register settings software may program

ASSUME KnobsAssumption == Knobs \subseteq KnobRegs

(***************************************************************************)
(* The set of delays a stall module may draw: none when stalls are off, a  *)
(* fixed one in STANDARD mode, anything up to MAX in RANDOM mode, and none *)
(* in a mode it does not know.                                             *)
(***************************************************************************)
Delays(k, fixed) ==
    IF ~en_stall_i(k)        THEN {0}
    ELSE IF k.mode = STANDARD THEN {fixed}
    ELSE IF k.mode = RANDOM   THEN 0 .. k.max
    ELSE {0}
=============================================================================
