------------------------------ MODULE GntStall ------------------------------
(***************************************************************************)
(* The OBI grant staller riscv_gnt_stall together with the grant           *)
(* multiplexer of mm_ram that selects it, and an OBI requester that holds  *)
(* a request until it is granted.                                          *)
(*                                                                         *)
(* One step is one rising clock edge.  A simulator with delays runs the    *)
(* grant process 100 ps after the edge, so it sees the request of the      *)
(* cycle that has just begun; Verilator runs it at the edge and sees the   *)
(* request of the cycle that has just ended.  VERILATOR chooses the build. *)
(***************************************************************************)
EXTENDS Integers, StallKnobs

CONSTANTS
    VERILATOR,    \* the build: TRUE when compiled with `VERILATOR defined
    MAX_STALL     \* the longest grant delay any register setting asks for

ASSUME BuildAssumption == VERILATOR \in BOOLEAN
ASSUME MaxStallAssumption ==
    /\ MAX_STALL \in Nat
    /\ \A k \in Knobs : k.gnt <= MAX_STALL /\ k.max <= MAX_STALL

VARIABLES
    knobs,              \* rnd_stall_regs of this channel
    req_core_i,         \* the requester's req in this cycle
    req_core_i_q,       \* its req in the cycle before
    grant_core_o,       \* the staller's grant in this cycle
    grant_core_o_q,     \* its grant in the cycle before
    grant_delay_cnt,    \* cycles left before the grant
    waited              \* history: cycles the present request has been refused,
                        \* counted as far as WAIT_CAP

gntVars == <<knobs, req_core_i, req_core_i_q, grant_core_o, grant_core_o_q,
             grant_delay_cnt, waited>>

-----------------------------------------------------------------------------

(* The delay a new request is given. *)
set_delay_value(k) == Delays(k, k.gnt)

(***************************************************************************)
(* The grant the requester sees.  With stalls deselected mm_ram grants     *)
(* every request at once; while req is low the value is ignored.           *)
(***************************************************************************)
core_gnt == IF StallSelected(knobs) THEN grant_core_o ELSE TRUE

(***************************************************************************)
(* The three branches of the grant process, given the request, the         *)
(* registered request and grant, and the registers k that it samples.      *)
(***************************************************************************)
NoRequest(req) ==
    /\ ~req
    /\ grant_core_o' \in BOOLEAN        \* $urandom
    /\ UNCHANGED grant_delay_cnt

(* Bug: a delay of zero is not granted in the same cycle. *)
NewRequestMutant(req, req_q, grant_q, k) ==
    /\ req
    /\ grant_q \/ ~req_q
    /\ grant_delay_cnt' \in set_delay_value(k)
    /\ grant_core_o' = FALSE

NewRequest(req, req_q, grant_q, k) ==
    /\ req
    /\ grant_q \/ ~req_q
    /\ \E d \in set_delay_value(k) :
          /\ grant_delay_cnt' = d
          /\ grant_core_o' = (d = 0)

(* Bug: the delay counter is only compared with zero. *)
HeldRequestMutant(req, req_q, grant_q) ==
    /\ req
    /\ ~grant_q /\ req_q
    /\ IF grant_delay_cnt = 0
       THEN grant_delay_cnt' = 0 /\ grant_core_o' = TRUE
       ELSE grant_delay_cnt' = grant_delay_cnt - 1 /\ UNCHANGED grant_core_o

(* Bug: a held request does not count its delay down. *)
HeldRequestStuckMutant(req, req_q, grant_q) ==
    /\ req
    /\ ~grant_q /\ req_q
    /\ UNCHANGED grant_delay_cnt
    /\ IF grant_delay_cnt = 1 THEN grant_core_o' = TRUE
                              ELSE UNCHANGED grant_core_o

HeldRequest(req, req_q, grant_q) ==
    /\ req
    /\ ~grant_q /\ req_q
    /\ IF grant_delay_cnt = 1
       THEN grant_delay_cnt' = 0 /\ grant_core_o' = TRUE
       ELSE grant_delay_cnt' = grant_delay_cnt - 1 /\ UNCHANGED grant_core_o

GrantProcess(req, req_q, grant_q, k) ==
    \/ NoRequest(req)
    \/ NewRequest(req, req_q, grant_q, k)
    \/ HeldRequest(req, req_q, grant_q)

(***************************************************************************)
(* One clock edge of riscv_gnt_stall: the two registers and the grant      *)
(* process, which samples after the edge or before it according to the     *)
(* build.                                                                  *)
(***************************************************************************)
GntEdge ==
    /\ req_core_i_q' = req_core_i
    /\ grant_core_o_q' = grant_core_o
    /\ IF VERILATOR
       THEN GrantProcess(req_core_i, req_core_i_q, grant_core_o_q, knobs)
       ELSE GrantProcess(req_core_i', req_core_i, grant_core_o, knobs')

(***************************************************************************)
(* The requester: req may not fall, and a new transfer may not replace the *)
(* present one, before a grant (OBI rule of the core, which is external).  *)
(***************************************************************************)
RequesterEdge ==
    IF req_core_i /\ ~core_gnt THEN req_core_i' = TRUE
                               ELSE req_core_i' \in BOOLEAN

-----------------------------------------------------------------------------

(***************************************************************************)
(* Reset.  The core leaves reset without a request: one that was already   *)
(* up at the first edge would be taken for a held one, and not granted     *)
(* before the counter, which is zero, has wrapped.                         *)
(***************************************************************************)
GntInit ==
    /\ knobs \in Knobs
    /\ req_core_i = FALSE
    /\ req_core_i_q = FALSE
    /\ grant_core_o = FALSE
    /\ grant_core_o_q = FALSE
    /\ grant_delay_cnt = 0
    /\ waited = 0

(* How many cycles late the grant process sees a request.  *)
Lateness == IF VERILATOR THEN 1 ELSE 0

(* One more than WaitBounded allows: waiting longer looks the same. *)
WAIT_CAP == MAX_STALL + Lateness + 1

WaitedEdge ==
    waited' = IF req_core_i /\ ~core_gnt
              THEN IF waited < WAIT_CAP THEN waited + 1 ELSE WAIT_CAP
              ELSE 0

(***************************************************************************)
(* A clock edge; the registers may be rewritten at any edge, since a store *)
(* on the data channel can reprogram the instruction channel while a fetch *)
(* is waiting.                                                             *)
(***************************************************************************)
GntClock ==
    /\ knobs' \in Knobs
    /\ RequesterEdge
    /\ GntEdge
    /\ WaitedEdge

GntSafety == GntInit /\ [][GntClock]_gntVars

(* The clock never stops. *)
GntSpec == GntSafety /\ WF_gntVars(GntClock)

-----------------------------------------------------------------------------

(***************************************************************************)
(* GntTypeOK: the delay counter stays within -1 .. MAX_STALL although      *)
(* nothing in the code keeps its decrement from running below zero; only   *)
(* Verilator sampling reaches -1, in the cycle after a delayed grant.      *)
(***************************************************************************)
GntTypeOK ==
    /\ knobs \in Knobs
    /\ req_core_i \in BOOLEAN /\ req_core_i_q \in BOOLEAN
    /\ grant_core_o \in BOOLEAN /\ grant_core_o_q \in BOOLEAN
    /\ grant_delay_cnt \in (0 - Lateness) .. MAX_STALL
    /\ waited \in Nat

(***************************************************************************)
(* WaitBounded: no request is refused for more cycles than the longest     *)
(* programmed delay (one more under Verilator, which learns of the request *)
(* a cycle late), whatever the random grants, back-to-back requests and    *)
(* register writes in mid-wait do to the counter.                          *)
(***************************************************************************)
WaitBounded == waited <= MAX_STALL + Lateness

(***************************************************************************)
(* Granted: a request on an OBI channel of mm_ram is granted eventually.   *)
(***************************************************************************)
Granted == req_core_i /\ ~core_gnt ~> core_gnt

=============================================================================
