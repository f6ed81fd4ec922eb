----------------------------- MODULE ObiMemory ------------------------------
(***************************************************************************)
(* What the data port of mm_ram promises the core: an accepted transfer is *)
(* performed at once and atomically on the word it addresses, and its      *)
(* result comes back on an in-order response channel.  A store-conditional *)
(* succeeds exactly if the hart holds a reservation of that word, which    *)
(* any write to the word ends.                                             *)
(***************************************************************************)
EXTENDS ResponseQueue

CONSTANTS
    Location,           \* the words of the memory
    Data,               \* what a word may hold
    ZeroData,           \* the read data of a transfer that reads nothing
    Transfer,           \* transfers [kind, loc, wdata, op]
    Alu(_, _, _),       \* Alu(op, old, operand): the word an AMO writes
    NoReservation

VARIABLES mem, rsv

memVars == <<mem, rsv, owed, rvalid, resp>>

(* A write of w to location l, which ends a reservation of it. *)
WriteWord(l, w) ==
    /\ mem' = [mem EXCEPT ![l] = w]
    /\ rsv' = IF rsv = l THEN NoReservation ELSE rsv

(* The answer owed to the transfer accepted at this edge. *)
Answer(rdata, exokay) ==
    owed' = Append(Unanswered, [rdata |-> rdata, exokay |-> exokay])

(***************************************************************************)
(* Performing transfer t.                                                  *)
(***************************************************************************)
Load(t) ==
    /\ t.kind = "LOAD"
    /\ Answer(mem[t.loc], FALSE)
    /\ UNCHANGED <<mem, rsv>>

Store(t) ==
    /\ t.kind = "STORE"
    /\ Answer(ZeroData, FALSE)
    /\ WriteWord(t.loc, t.wdata)

LoadReserved(t) ==
    /\ t.kind = "LR"
    /\ Answer(mem[t.loc], FALSE)
    /\ rsv' = t.loc
    /\ UNCHANGED mem

StoreConditional(t) ==
    /\ t.kind = "SC"
    /\ Answer(ZeroData, rsv = t.loc)
    /\ mem' = IF rsv = t.loc THEN [mem EXCEPT ![t.loc] = t.wdata] ELSE mem
    /\ rsv' = NoReservation

Amo(t) ==
    /\ t.kind = "AMO"
    /\ Answer(mem[t.loc], FALSE)
    /\ WriteWord(t.loc, Alu(t.op, mem[t.loc], t.wdata))

(* A device register is read with any value, and written without effect on *)
(* memory.                                                                 *)
DeviceRead(t) ==
    /\ t.kind = "DEV_LOAD"
    /\ \E d \in Data : Answer(d, FALSE)
    /\ UNCHANGED <<mem, rsv>>

DeviceWrite(t) ==
    /\ t.kind = "DEV_STORE"
    /\ Answer(ZeroData, FALSE)
    /\ UNCHANGED <<mem, rsv>>

Perform(t) ==
    \/ Load(t) \/ Store(t) \/ LoadReserved(t) \/ StoreConditional(t)
    \/ Amo(t) \/ DeviceRead(t) \/ DeviceWrite(t)

-----------------------------------------------------------------------------

MemInit ==
    /\ Init
    /\ mem \in [Location -> Data]
    /\ rsv = NoReservation

MemClock ==
    /\ \/ \E t \in Transfer : Perform(t)
       \/ /\ owed' = Unanswered
          /\ UNCHANGED <<mem, rsv>>
    /\ rvalid' \in BOOLEAN
    /\ rvalid' => owed' # << >> /\ resp' = Head(owed')

MemSpec == MemInit /\ [][MemClock]_memVars
=============================================================================
