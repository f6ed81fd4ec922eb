----------------------------- MODULE MmRamPort ------------------------------
(***************************************************************************)
(* The data port of mm_ram: the grant staller (GntStall), the response     *)
(* staller (RvalidStall), the synchronous RAM dp_ram and the atomics       *)
(* (LR/SC reservation, AMO read-modify-write), clocked together, and the   *)
(* core as an OBI requester with a limit on outstanding transfers.         *)
(*                                                                         *)
(* Addresses are word addresses.  The RAM is the first RAM_WORDS words;    *)
(* the debug window of DBG_WORDS words at dm_halt_addr_i is remapped to    *)
(* the end of the RAM.  Every other address is a pseudo-peripheral, whose  *)
(* registers are abstracted to a word that the mux selects a cycle later.  *)
(***************************************************************************)
EXTENDS GntStall, RvalidStall, AmoAlu

CONSTANTS
    RAM_WORDS, DBG_WORDS, dm_halt_addr_i,
    PlainAddr,      \* addresses the program loads from and stores to
    AtomicAddr,     \* addresses it uses LR, SC and AMO on
    AmoOps,         \* the AMO operations it uses
    AtomicData,     \* the operands of its SC and AMO
    DevData,        \* the words it reads from peripherals
    NoReservation

ASSUME PortAssumption ==
    /\ RAM_WORDS \in Nat \ {0} /\ DBG_WORDS \in 0 .. RAM_WORDS
    /\ dm_halt_addr_i \in Nat /\ dm_halt_addr_i >= RAM_WORDS
    /\ PlainAddr \cup AtomicAddr \subseteq
          (0 .. RAM_WORDS - 1) \cup (dm_halt_addr_i .. dm_halt_addr_i + DBG_WORDS - 1)
    /\ AmoOps \subseteq AMO_OPS
    /\ AtomicData \cup DevData \subseteq Word

VARIABLES
    txn,                \* the address, write data and atop of the core's request
    mem,                \* dp_ram
    ram_data_rdata,     \* dp_ram's registered read data
    select_rdata_q,     \* which source the read mux selects
    dev_rdata_q,        \* the registered read data of a peripheral
    rsv_valid_q, rsv_addr_q, amo_resp_q, amo_old_q

ramVars == <<mem, ram_data_rdata, select_rdata_q, dev_rdata_q>>
amoVars == <<rsv_valid_q, rsv_addr_q, amo_resp_q, amo_old_q>>
vars    == <<gntVars, rvalidVars, txn, ramVars, amoVars>>

-----------------------------------------------------------------------------
(* Transfers and addresses. *)

Location == 0 .. RAM_WORDS - 1

Device == dm_halt_addr_i + DBG_WORDS       \* stands for every pseudo-peripheral

Txn == [kind : {"LOAD"}, addr : PlainAddr, wdata : {0}, op : {"none"}]
    \cup [kind : {"STORE"}, addr : PlainAddr, wdata : Word, op : {"none"}]
    \cup [kind : {"LR"}, addr : AtomicAddr, wdata : {0}, op : {"none"}]
    \cup [kind : {"SC"}, addr : AtomicAddr, wdata : AtomicData, op : {"none"}]
    \cup [kind : {"AMO"}, addr : AtomicAddr, wdata : AtomicData, op : AmoOps]
    \cup [kind : {"DEV_LOAD", "DEV_STORE"}, addr : {Device}, wdata : {0}, op : {"none"}]

is_ram == txn.kind \notin {"DEV_LOAD", "DEV_STORE"}
is_lr  == txn.kind = "LR"
is_sc  == txn.kind = "SC"
is_amo == txn.kind = "AMO"
data_we_i == txn.kind \in {"STORE", "SC", "AMO", "DEV_STORE"}

(* The RAM word of a bus address: the debug window is remapped.  *)
Remap(a) == IF a >= dm_halt_addr_i THEN a - dm_halt_addr_i + RAM_WORDS - DBG_WORDS ELSE a

(* The address the AMO's old word is read from: the low bits, as they are. *)
amo_mem_addr == txn.addr % RAM_WORDS

(* The grant staller's ports of the data channel. *)
data_req_i == req_core_i
data_gnt_o == core_gnt
granted    == data_req_i /\ data_gnt_o
sc_hit     == rsv_valid_q /\ rsv_addr_q = txn.addr
sc_exokay  == granted /\ is_sc /\ sc_hit

amo_old_word == mem[amo_mem_addr]
amo_new_word == amo_alu_result(txn.op, amo_old_word, txn.wdata)

(* The read multiplexer, whose output is the response staller's rdata_i. *)
core_data_rdata == IF amo_resp_q THEN amo_old_q ELSE ram_data_rdata
data_rdata_mux  == IF select_rdata_q = "RAM" THEN core_data_rdata ELSE dev_rdata_q

-----------------------------------------------------------------------------
(* One clock edge, part by part. *)

(***************************************************************************)
(* dp_ram: with stalls selected it is enabled in every cycle of a request; *)
(* before the grant the decoder gives it address 0 and no write.           *)
(***************************************************************************)
data_req_dec  == granted /\ is_ram
data_addr_dec == IF data_req_dec THEN Remap(txn.addr) ELSE 0

data_we_dec    == data_req_dec /\ data_we_i /\ (is_sc => sc_hit)
data_wdata_dec == IF is_amo THEN amo_new_word ELSE txn.wdata
ram_data_req   == IF StallSelected(knobs) THEN data_req_i ELSE data_req_dec

DpRamEdge ==
    /\ mem' = IF ram_data_req /\ data_we_dec
              THEN [mem EXCEPT ![data_addr_dec] = data_wdata_dec]
              ELSE mem
    /\ ram_data_rdata' = IF ram_data_req /\ ~data_we_dec
                         THEN mem[data_addr_dec]
                         ELSE ram_data_rdata

(* The read side of the peripherals: the word read is registered. *)
DeviceEdge ==
    IF granted /\ txn.kind = "DEV_LOAD"
    THEN select_rdata_q' = "DEV" /\ dev_rdata_q' \in DevData
    ELSE select_rdata_q' = "RAM" /\ dev_rdata_q' = 0

(* The RNDSTALL window: a store reprograms the stall registers.  Other     *)
(* device stores leave them alone.                                         *)
KnobsEdge ==
    IF granted /\ txn.kind = "DEV_STORE" THEN knobs' \in Knobs ELSE UNCHANGED knobs

(* Bug: an ordinary store leaves the reservation in place. *)
ReservationEdgeMutant ==
    /\ rsv_valid_q' = IF granted /\ is_lr THEN TRUE
                      ELSE IF granted /\ is_sc THEN FALSE
                      ELSE rsv_valid_q
    /\ rsv_addr_q' = IF granted /\ is_lr THEN txn.addr ELSE rsv_addr_q

ReservationEdge ==
    /\ rsv_valid_q' =
          IF granted /\ is_lr THEN TRUE
          ELSE IF granted /\ is_sc THEN FALSE
          ELSE IF granted /\ data_we_i /\ rsv_valid_q /\ txn.addr = rsv_addr_q THEN FALSE
          ELSE rsv_valid_q
    /\ rsv_addr_q' = IF granted /\ is_lr THEN txn.addr ELSE rsv_addr_q

AmoEdge ==
    /\ amo_resp_q' = (granted /\ is_amo)
    /\ amo_old_q' = IF granted /\ is_amo THEN amo_old_word ELSE amo_old_q

RvalidStallEdge ==
    /\ \E d \in get_random_delay(knobs) :
          FifoEdge(granted, data_we_i /\ ~is_amo, sc_exokay, d)
    /\ CoreCountEdge(granted)
    /\ rdata_i' = data_rdata_mux'

(***************************************************************************)
(* The core (external): it holds a refused request, and raises a new one   *)
(* only below its limit of outstanding transfers.                          *)
(***************************************************************************)
Idle == [kind |-> "LOAD", addr |-> 0, wdata |-> 0, op |-> "none"]

CoreEdge ==
    IF data_req_i /\ ~data_gnt_o THEN UNCHANGED <<req_core_i, txn>>
    ELSE \/ req_core_i' = FALSE /\ txn' = Idle
         \/ MayIssue' /\ req_core_i' = TRUE /\ txn' \in Txn

-----------------------------------------------------------------------------

Init ==
    /\ GntInit /\ txn = Idle
    /\ FifoInit /\ outstanding = 0
    /\ mem \in [Location -> Word]
    /\ ram_data_rdata \in Word
    /\ select_rdata_q = "RAM" /\ dev_rdata_q = 0
    /\ rsv_valid_q = FALSE /\ rsv_addr_q = 0
    /\ amo_resp_q = FALSE /\ amo_old_q = 0
    /\ rdata_i = data_rdata_mux

Clock ==
    /\ KnobsEdge
    /\ DpRamEdge
    /\ DeviceEdge
    /\ ReservationEdge
    /\ AmoEdge
    /\ RvalidStallEdge
    /\ CoreEdge
    /\ GntEdge /\ WaitedEdge

Next == Clock

Spec == Init /\ [][Next]_vars

-----------------------------------------------------------------------------

TypeOK ==
    /\ GntTypeOK /\ RvalidTypeOK
    /\ txn \in Txn \cup {Idle}
    /\ mem \in [Location -> Word] /\ ram_data_rdata \in Word
    /\ select_rdata_q \in {"RAM", "DEV"} /\ dev_rdata_q \in Word
    /\ rsv_valid_q \in BOOLEAN /\ rsv_addr_q \in AtomicAddr \cup {0}
    /\ amo_resp_q \in BOOLEAN /\ amo_old_q \in Word

(* The transfers of the abstract memory: locations instead of addresses.   *)
AbstractTransfer ==
    {[kind |-> t.kind, loc |-> IF t.addr = Device THEN 0 ELSE Remap(t.addr),
      wdata |-> t.wdata, op |-> t.op] : t \in Txn}

Memory == INSTANCE ObiMemory WITH
    Response <- [rdata : Word, exokay : BOOLEAN],
    Data <- Word, ZeroData <- 0, Transfer <- AbstractTransfer,
    Alu <- amo_alu_result,
    rsv <- IF rsv_valid_q THEN Remap(rsv_addr_q) ELSE NoReservation,
    owed <- Owed, rvalid <- rvalid_o, resp <- BusResponse

(***************************************************************************)
(* Where AtomicMemory is promised: no word that atomics are used on is     *)
(* also reached through another address.  The debug window is excluded:    *)
(* the reservation compares bus addresses and the AMO reads at the low     *)
(* bits of its address, both without the remapping.                        *)
(***************************************************************************)
AtomicsNotAliased ==
    /\ AtomicAddr \subseteq Location
    /\ \A a \in AtomicAddr, b \in PlainAddr : Remap(b) = a => b = a
    /\ NoReservation \notin Location

(***************************************************************************)
(* AtomicMemory: the stalled, pipelined data port implements an atomic     *)
(* in-order memory: loads, stores, LR, SC and AMO take effect on the right *)
(* word when they are granted, and each answer carries the word or the     *)
(* exclusive-okay of its own transfer through any stalls.                  *)
(***************************************************************************)
AtomicMemory == Memory!MemSpec

(***************************************************************************)
(* AmoReadsItsTarget: in the grant cycle of an AMO amo_old_word is the     *)
(* word that the AMO is about to overwrite.                                *)
(***************************************************************************)
AmoReadsItsTarget == granted /\ is_amo => amo_old_word = mem[data_addr_dec]

=============================================================================
