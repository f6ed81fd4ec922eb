----------------------------- MODULE RvalidStall ----------------------------
(***************************************************************************)
(* The OBI response staller riscv_rvalid_stall: a ring buffer of responses *)
(* with a delay each.  An entry is pushed when a transfer is accepted; the *)
(* read data of the RAM only arrives a cycle later and is stored into the  *)
(* entry then, or bypassed to the bus when the entry is answered in that   *)
(* very cycle.  The module computes fifo_full but nothing uses it: what    *)
(* keeps the buffer from overflowing is the limit on outstanding transfers *)
(* of the core.                                                            *)
(*                                                                         *)
(* One step is one rising clock edge.  The pointers have one bit more than *)
(* a slot number, so they count modulo twice the depth.                    *)
(***************************************************************************)
EXTENDS Integers, Sequences, Words, StallKnobs

CONSTANTS
    FIFO_DEPTH,         \* the number of slots (8 in the code)
    MAX_OUTSTANDING,    \* transfers the core keeps outstanding at most
    DELAY_RANGE         \* 2 ** FIFO_DELAY_WL (16 in the code)

ASSUME FifoAssumption ==
    /\ FIFO_DEPTH \in Nat \ {0}
    /\ MAX_OUTSTANDING \in 1 .. FIFO_DEPTH
    /\ DELAY_RANGE \in Nat \ {0}

VARIABLES
    wptr, rptr,         \* write and read pointer
    wptr_rdata,         \* the slot that waits for the RAM's read data
    rvalid_i_q,         \* whether it does in this cycle
    fifo,               \* the slots (fifo and fifo_exokay)
    rdata_i,            \* the RAM's read data in this cycle
    outstanding         \* the core's own count of unanswered transfers

rvalidVars == <<wptr, rptr, wptr_rdata, rvalid_i_q, fifo, rdata_i, outstanding>>

-----------------------------------------------------------------------------

Slots == 0 .. FIFO_DEPTH - 1
Ptrs  == 0 .. 2 * FIFO_DEPTH - 1
Entry == [we : BOOLEAN, delay : 0 .. DELAY_RANGE - 1, data : Word,
          exokay : BOOLEAN]

(* Bug: pointers without the extra bit. *)
PtrAddMutant(p, n) == IF p + n < FIFO_DEPTH THEN p + n ELSE p + n - FIFO_DEPTH

(* Pointer plus n for n at most the range of pointers, with its wrap, and  *)
(* the slot it names: its low-order bits.                                  *)
PtrAdd(p, n) == IF p + n < 2 * FIFO_DEPTH THEN p + n ELSE p + n - 2 * FIFO_DEPTH
Slot(p)      == IF p < FIFO_DEPTH THEN p ELSE p - FIFO_DEPTH

fifo_empty == wptr = rptr
Occupancy  == IF wptr >= rptr THEN wptr - rptr ELSE wptr - rptr + 2 * FIFO_DEPTH

(* The delay drawn for a new entry, cut to the width of its field. *)
get_random_delay(k) == {d % DELAY_RANGE : d \in Delays(k, k.valid)}

current_delay == fifo[Slot(rptr)].delay

(***************************************************************************)
(* The read interface, combinational.                                      *)
(***************************************************************************)
rvalid_o == ~fifo_empty /\ current_delay = 0

(* Bug: no bypass, the stored word is used although it is not stored yet.  *)
DataAtMutant(s) == fifo[s].data

DataAt(s) ==
    IF s = wptr_rdata /\ rvalid_i_q
    THEN IF fifo[s].we THEN 0 ELSE rdata_i
    ELSE fifo[s].data

ResponseAt(s) == [rdata |-> DataAt(s), exokay |-> fifo[s].exokay]

(***************************************************************************)
(* The updates of the slots at an edge, in the order they take effect: the *)
(* push is a blocking assignment, the capture of the read data and the     *)
(* countdown of the head are non-blocking ones.                            *)
(***************************************************************************)
Pushed(push, we, exokay, d) ==
    IF push
    THEN [fifo EXCEPT ![Slot(wptr)] = [we |-> we, delay |-> d, data |-> 0,
                                       exokay |-> exokay]]
    ELSE fifo

Captured(f) ==
    IF rvalid_i_q
    THEN [f EXCEPT ![wptr_rdata].data = IF f[wptr_rdata].we THEN 0 ELSE rdata_i]
    ELSE f

(* Bugs: the countdown runs below zero; the head is never counted down.    *)
CountedDownMutant(f) ==
    IF ~fifo_empty /\ current_delay >= 0
    THEN [f EXCEPT ![Slot(rptr)].delay = current_delay - 1]
    ELSE f
NotCountedDownMutant(f) == f

CountedDown(f) ==
    IF ~fifo_empty /\ current_delay > 0
    THEN [f EXCEPT ![Slot(rptr)].delay = current_delay - 1]
    ELSE f

(***************************************************************************)
(* One clock edge of riscv_rvalid_stall with the inputs of the cycle that  *)
(* ends: push = req_i && gnt_i, the drawn delay d, we_i and exokay_i.      *)
(***************************************************************************)
FifoEdge(push, we, exokay, d) ==
    /\ wptr' = IF push THEN PtrAdd(wptr, 1) ELSE wptr
    /\ rptr' = IF rvalid_o THEN PtrAdd(rptr, 1) ELSE rptr
    /\ wptr_rdata' = IF push THEN Slot(wptr) ELSE wptr_rdata
    /\ rvalid_i_q' = (push /\ ~we)
    /\ fifo' = CountedDown(Captured(Pushed(push, we, exokay, d)))

(***************************************************************************)
(* The core (external) counts the transfers it has outstanding and issues  *)
(* none at its limit.  A response lowers the count only at the end of the  *)
(* cycle that presents it.                                                 *)
(***************************************************************************)
MayIssue == outstanding < MAX_OUTSTANDING

CoreCountEdge(push) ==
    outstanding' = outstanding + (IF push THEN 1 ELSE 0)
                               - (IF rvalid_o THEN 1 ELSE 0)

-----------------------------------------------------------------------------

(***************************************************************************)
(* wptr_rdata and rvalid_i_q have no reset: any value is possible.         *)
(***************************************************************************)
FifoInit ==
    /\ wptr = 0
    /\ rptr = 0
    /\ wptr_rdata \in Slots
    /\ rvalid_i_q \in BOOLEAN
    /\ fifo = [s \in Slots |-> [we |-> FALSE, delay |-> 0, data |-> 0,
                                exokay |-> FALSE]]

RvalidInit == FifoInit /\ rdata_i \in Word /\ outstanding = 0

RvalidClock ==
    /\ \E push, we, exokay \in BOOLEAN, k \in Knobs :
          /\ push => MayIssue
          /\ \E d \in get_random_delay(k) : FifoEdge(push, we, exokay, d)
          /\ CoreCountEdge(push)
    /\ rdata_i' \in Word

RvalidSafety == RvalidInit /\ [][RvalidClock]_rvalidVars

(* The clock never stops. *)
RvalidSpec == RvalidSafety /\ WF_rvalidVars(RvalidClock)

-----------------------------------------------------------------------------

(***************************************************************************)
(* RvalidTypeOK: pointers, slots and delays stay in their widths, and the  *)
(* core never has more transfers outstanding than its limit.               *)
(***************************************************************************)
RvalidTypeOK ==
    /\ wptr \in Ptrs /\ rptr \in Ptrs
    /\ wptr_rdata \in Slots
    /\ rvalid_i_q \in BOOLEAN
    /\ fifo \in [Slots -> Entry]
    /\ rdata_i \in Word
    /\ outstanding \in 0 .. MAX_OUTSTANDING

(***************************************************************************)
(* CountsAgree: the occupancy that the wrapping pointers encode is always  *)
(* the number of transfers the core has outstanding, so the ring buffer,   *)
(* which has no backpressure of its own, neither overflows nor answers a   *)
(* transfer that was not made.                                             *)
(***************************************************************************)
CountsAgree == Occupancy = outstanding

(* The responses the buffer owes, oldest first: its entries from rptr on.  *)
Owed == [i \in 1 .. Occupancy |-> ResponseAt(Slot(PtrAdd(rptr, i - 1)))]

(* What is on the response bus while rvalid_o. *)
BusResponse == ResponseAt(Slot(rptr))

Channel == INSTANCE ResponseQueue WITH
    Response <- [rdata : Word, exokay : BOOLEAN],
    owed <- Owed, rvalid <- rvalid_o, resp <- BusResponse

(***************************************************************************)
(* InOrderResponses: the ring buffer implements the response channel: each *)
(* accepted transfer is answered exactly once, in order, with the read     *)
(* data the RAM had for it, though rdata_i changes with every later access *)
(* and slots are reused.                                                   *)
(***************************************************************************)
InOrderResponses == Channel!Spec

(***************************************************************************)
(* EveryResponseComes: an owed response is presented eventually, whatever  *)
(* the delays drawn for it and for the ones before it.                     *)
(***************************************************************************)
EveryResponseComes == [](Owed # << >> => <>rvalid_o)

=============================================================================
