-------------------------- MODULE MmRamPortProofs ---------------------------
(***************************************************************************)
(* Proofs about the composed data port, for both builds, every register    *)
(* setting, every depth, width, RAM size and debug window.                 *)
(***************************************************************************)
EXTENDS MmRamPort, StallProofs

-----------------------------------------------------------------------------
(* The AMO unit computes words. *)

(***************************************************************************)
(* A sum of distinct powers of two below the width is a word.              *)
(***************************************************************************)
LEMMA WordOfType ==
    ASSUME NEW bits PROVE WordOf(bits) \in Word
  <1> DEFINE term(n) == IF bits[n - 1] = 1 THEN Pow2[n - 1] ELSE 0
             Loop(f) == [n \in 0 .. XLEN |-> IF n = 0 THEN 0 ELSE f[n - 1] + term(n)]
             G == [x \in Nat \X (1 .. XLEN) |-> x[1] + term(x[2])]
             low == CHOOSE f : f = Loop(f)
  <1>1. XLEN \in Nat
    BY XlenAssumption
  <1>2. \A n \in 1 .. XLEN :
           /\ term(n) \in Nat /\ term(n) <= Pow2[n - 1]
           /\ Pow2[n - 1] \in Nat \ {0} /\ Pow2[n] = 2 * Pow2[n - 1]
    <2> SUFFICES ASSUME NEW n \in 1 .. XLEN
                 PROVE  /\ term(n) \in Nat /\ term(n) <= Pow2[n - 1]
                        /\ Pow2[n - 1] \in Nat \ {0} /\ Pow2[n] = 2 * Pow2[n - 1]
      OBVIOUS
    <2>1. Pow2[n - 1] \in Nat \ {0} /\ Pow2[n] = 2 * Pow2[n - 1]
      BY <1>1, Powers
    <2> QED
      BY <2>1
  <1>3. WordOf(bits) = low[XLEN]
    BY DEF WordOf
  <1> HIDE DEF term
  <1>4. G \in [Nat \X (1 .. XLEN) -> Nat]
    BY <1>2
  <1>5. \A s \in Nat, n \in 1 .. XLEN : G[<<s, n>>] = s + term(n)
    OBVIOUS
  <1> HIDE DEF G
  <1>6. PICK f \in [0 .. XLEN -> Nat] : f[0] = 0 /\ \A n \in 1 .. XLEN : f[n] = G[<<f[n - 1], n>>]
    <2>1. \E f \in [0 .. XLEN -> Nat] : Iterates(f, 0, XLEN, G)
      BY <1>1, <1>4, LoopExists, Zenon
    <2> QED
      BY <2>1 DEF Iterates
  <1>7. \A n \in 1 .. XLEN : f[n] = f[n - 1] + term(n)
    <2> SUFFICES ASSUME NEW n \in 1 .. XLEN PROVE f[n] = f[n - 1] + term(n)
      OBVIOUS
    <2>1. f[n - 1] \in Nat
      BY <1>1, <1>6
    <2> QED
      BY <1>5, <1>6, <2>1
  <1>8. f = Loop(f)
    BY <1>1, <1>6, <1>7
  <1>9. low = Loop(low)
    <2> HIDE DEF Loop
    <2> QED
      BY <1>8
  <1> HIDE DEF low
  <1>10. low[0] = 0 /\ \A n \in 1 .. XLEN : low[n] = low[n - 1] + term(n)
    <2>1. \A n \in 0 .. XLEN : Loop(low)[n] = IF n = 0 THEN 0 ELSE low[n - 1] + term(n)
      OBVIOUS
    <2>2. 0 \in 0 .. XLEN /\ \A n \in 1 .. XLEN : n \in 0 .. XLEN /\ n # 0
      BY <1>1
    <2> HIDE DEF Loop
    <2> QED
      BY <1>9, <2>1, <2>2
  <1> DEFINE P == {n \in Nat : n <= XLEN => low[n] \in 0 .. Pow2[n] - 1}
  <1>11. 0 \in P
    BY <1>10, Powers
  <1>12. ASSUME NEW n \in P PROVE n + 1 \in P
    <2> SUFFICES ASSUME n + 1 <= XLEN PROVE low[n + 1] \in 0 .. Pow2[n + 1] - 1
      OBVIOUS
    <2>1. n \in Nat /\ n + 1 \in 1 .. XLEN /\ (n + 1) - 1 = n
          /\ low[n] \in 0 .. Pow2[n] - 1
      BY <1>1
    <2>2. low[n + 1] = low[n] + term(n + 1) /\ Pow2[n + 1] = 2 * Pow2[n]
          /\ term(n + 1) \in Nat /\ term(n + 1) <= Pow2[n] /\ Pow2[n] \in Nat
      BY <1>2, <1>10, <2>1
    <2> QED
      BY <2>1, <2>2
  <1>13. P = Nat
    <2>1. P \subseteq Nat
      OBVIOUS
    <2> HIDE DEF P
    <2> QED
      BY <1>11, <1>12, <2>1, SetInduction
  <1>14. low[XLEN] \in 0 .. Pow2[XLEN] - 1
    BY <1>1, <1>13
  <1> QED
    BY <1>3, <1>14 DEF Word

(* Every AMO operation takes words to a word: nothing overflows XLEN bits. *)
LEMMA AluType ==
    ASSUME NEW op, NEW a \in Word, NEW b \in Word
    PROVE  amo_alu_result(op, a, b) \in Word
  <1>1. Pow2[XLEN] \in Nat \ {0} /\ a \in Int /\ b \in Int
    BY XlenAssumption, Powers DEF Word
  <1>2. (a + b) % Pow2[XLEN] \in Word
    BY <1>1 DEF Word
  <1>3. \A bits : WordOf(bits) \in Word
    BY WordOfType
  <1> QED
    BY <1>2, <1>3 DEF amo_alu_result

-----------------------------------------------------------------------------
(* The invariant of the port. *)

(* The registers of the RAM, the read mux and the atomics keep their types. *)
PortTypes ==
    /\ txn \in Txn \cup {Idle}
    /\ mem \in [Location -> Word] /\ ram_data_rdata \in Word
    /\ select_rdata_q \in {"RAM", "DEV"} /\ dev_rdata_q \in Word
    /\ rsv_valid_q \in BOOLEAN /\ rsv_addr_q \in AtomicAddr \cup {0}
    /\ amo_resp_q \in BOOLEAN /\ amo_old_q \in Word

(* A request is a transfer that the core may make. *)
RequestReal == req_core_i => MayIssue /\ txn \in Txn

(* A reservation is of an address that LR was used on. *)
ReservationReal == rsv_valid_q => rsv_addr_q \in AtomicAddr

(***************************************************************************)
(* The invariant: what each staller keeps on its own, the types of the     *)
(* rest, and the two facts that tie them together.                         *)
(***************************************************************************)
PortInv == GntInv /\ RvalidInv /\ PortTypes /\ RequestReal /\ ReservationReal

(* A bus address of the RAM or the debug window names a word of the RAM. *)
LEMMA RemapType ==
    ASSUME NEW a \in PlainAddr \cup AtomicAddr
    PROVE  a \in Nat /\ Remap(a) \in Location /\ a # Device
  <1>1. a \in (0 .. RAM_WORDS - 1) \cup (dm_halt_addr_i .. dm_halt_addr_i + DBG_WORDS - 1)
    BY PortAssumption
  <1>2. /\ RAM_WORDS \in Nat /\ DBG_WORDS \in 0 .. RAM_WORDS
        /\ dm_halt_addr_i \in Nat /\ dm_halt_addr_i >= RAM_WORDS
    BY PortAssumption
  <1> QED
    BY <1>1, <1>2 DEF Remap, Location, Device

(* What the fields of a transfer are, kind by kind. *)
LEMMA TxnFields ==
    ASSUME NEW t \in Txn
    PROVE  /\ t.wdata \in Word
           /\ t.kind \in {"LOAD", "STORE"} => t.addr \in PlainAddr
           /\ t.kind \in {"LR", "SC", "AMO"} => t.addr \in AtomicAddr
           /\ t.kind \in {"DEV_LOAD", "DEV_STORE"} => t.addr = Device
           /\ t.kind \in {"LOAD", "STORE", "LR", "SC", "AMO", "DEV_LOAD", "DEV_STORE"}
  <1>1. 0 \in Word /\ AtomicData \subseteq Word
    BY ZeroWord, PortAssumption
  <1> QED
    BY <1>1 DEF Txn

(* The address of a request is a number. *)
LEMMA TxnAddr ==
    ASSUME PortTypes PROVE txn.addr \in Nat /\ txn.wdata \in Word
  <1>1. Device \in Nat /\ 0 \in Word
    BY ZeroWord, PortAssumption DEF Device
  <1>2. CASE txn \in Txn
    BY <1>1, <1>2, TxnFields, RemapType
  <1>3. CASE txn = Idle
    BY <1>1, <1>3 DEF Idle
  <1> QED
    BY <1>2, <1>3 DEF PortTypes

(* In the port, too, an edge is an edge of the grant staller. *)
LEMMA ClockIsGntClock ==
    ASSUME PortInv, Clock PROVE GntClock
  <1>1. knobs \in Knobs /\ req_core_i \in BOOLEAN
    BY DEF PortInv, GntInv, GntTypeOK
  <1>2. knobs' \in Knobs
    BY <1>1 DEF Clock, KnobsEdge
  <1>3. RequesterEdge
    BY <1>1 DEF Clock, CoreEdge, RequesterEdge, data_req_i, data_gnt_o
  <1> QED
    BY <1>2, <1>3 DEF Clock, GntClock

(* The word that an AMO reads, and the word that the RAM is given, are words. *)
LEMMA PortWords ==
    ASSUME PortInv
    PROVE  /\ amo_old_word \in Word /\ data_wdata_dec \in Word
           /\ data_addr_dec \in Location
  <1>1. txn.addr \in Nat /\ txn.wdata \in Word /\ mem \in [Location -> Word]
    BY TxnAddr DEF PortInv, PortTypes
  <1>2. RAM_WORDS \in Nat \ {0} /\ 0 \in Location
    BY PortAssumption DEF Location
  <1>3. amo_mem_addr \in Location
    BY <1>1, <1>2 DEF amo_mem_addr, Location
  <1>4. amo_old_word \in Word
    BY <1>1, <1>3 DEF amo_old_word
  <1>5. data_wdata_dec \in Word
    BY <1>1, <1>4, AluType DEF data_wdata_dec, amo_new_word
  <1>6. data_addr_dec \in Location
    <2>1. CASE data_req_dec
      <3>1. txn \in Txn /\ txn.kind \notin {"DEV_LOAD", "DEV_STORE"}
        BY <2>1 DEF PortInv, RequestReal, data_req_dec, granted, data_req_i, is_ram
      <3>2. txn.addr \in PlainAddr \cup AtomicAddr
        BY <3>1, TxnFields
      <3> QED
        BY <2>1, <3>2, RemapType DEF data_addr_dec
    <2>2. CASE ~data_req_dec
      BY <1>2, <2>2 DEF data_addr_dec
    <2> QED
      BY <2>1, <2>2
  <1> QED
    BY <1>4, <1>5, <1>6

(* The rest of the port keeps its types at an edge. *)
LEMMA TypesStep ==
    ASSUME PortInv, Clock PROVE PortTypes' /\ ReservationReal' /\ rdata_i' \in Word
  <1>1. PortTypes /\ ReservationReal
    BY DEF PortInv
  <1>2. txn' \in Txn \cup {Idle}
    BY <1>1 DEF Clock, CoreEdge, PortTypes
  <1>3. mem' \in [Location -> Word] /\ ram_data_rdata' \in Word
    BY <1>1, PortWords DEF Clock, DpRamEdge, PortTypes
  <1>4. select_rdata_q' \in {"RAM", "DEV"} /\ dev_rdata_q' \in Word
    BY PortAssumption, ZeroWord DEF Clock, DeviceEdge
  <1>5. amo_resp_q' \in BOOLEAN /\ amo_old_q' \in Word
    BY <1>1, PortWords DEF Clock, AmoEdge, PortTypes
  <1>6. granted /\ is_lr => txn.addr \in AtomicAddr
    BY TxnFields DEF PortInv, RequestReal, granted, data_req_i, is_lr
  <1>7. /\ rsv_valid_q' \in BOOLEAN /\ rsv_addr_q' \in AtomicAddr \cup {0}
        /\ ReservationReal'
    BY <1>1, <1>6 DEF Clock, ReservationEdge, PortTypes, ReservationReal
  <1>8. rdata_i' \in Word
    <2>1. rdata_i' = data_rdata_mux'
      BY DEF Clock, RvalidStallEdge
    <2> QED
      BY <2>1, <1>3, <1>4, <1>5 DEF data_rdata_mux, core_data_rdata
  <1> QED
    BY <1>2, <1>3, <1>4, <1>5, <1>7, <1>8 DEF PortTypes

(***************************************************************************)
(* What an edge of the port is for the response staller: the transfer      *)
(* accepted is the core's, within its limit.                               *)
(***************************************************************************)
LEMMA PortEdge ==
    ASSUME PortInv, Clock
    PROVE  /\ \E push, we, exokay \in BOOLEAN, d \in 0 .. DELAY_RANGE - 1 :
                 /\ push = granted /\ we = (data_we_i /\ ~is_amo) /\ exokay = sc_exokay
                 /\ d \in get_random_delay(knobs)
                 /\ push => MayIssue
                 /\ FifoEdge(push, we, exokay, d)
                 /\ CoreCountEdge(push)
           /\ rdata_i' \in Word
  <1>1. PICK push \in BOOLEAN : push = granted
    BY Zenon DEF granted
  <1>2. PICK we \in BOOLEAN : we = (data_we_i /\ ~is_amo)
    BY Zenon
  <1>3. PICK exokay \in BOOLEAN : exokay = sc_exokay
    BY Zenon DEF sc_exokay
  <1>4. PICK d \in get_random_delay(knobs) : FifoEdge(granted, data_we_i /\ ~is_amo, sc_exokay, d)
    BY DEF Clock, RvalidStallEdge
  <1>5. d \in 0 .. DELAY_RANGE - 1
    <2>1. knobs \in Knobs
      BY DEF PortInv, GntInv, GntTypeOK
    <2> QED
      BY <2>1, DelayFits
  <1>6. push => MayIssue
    BY <1>1 DEF PortInv, RequestReal, granted, data_req_i
  <1>7. CoreCountEdge(push)
    BY <1>1 DEF Clock, RvalidStallEdge
  <1>8. FifoEdge(push, we, exokay, d)
    BY <1>1, <1>2, <1>3, <1>4
  <1>9. rdata_i' \in Word
    BY TypesStep
  <1> QED
    BY <1>1, <1>2, <1>3, <1>4, <1>5, <1>6, <1>7, <1>8, <1>9

(* In the port, too, an edge is an edge of the response staller. *)
LEMMA ClockIsRvalidClock ==
    ASSUME PortInv, Clock PROVE RvalidClock
  <1>1. knobs \in Knobs
    BY DEF PortInv, GntInv, GntTypeOK
  <1> QED
    BY <1>1, PortEdge DEF RvalidClock

(***************************************************************************)
(* A held request stays one the core may make, for the count of            *)
(* outstanding transfers only falls while it waits.                        *)
(***************************************************************************)
LEMMA RequestStep ==
    ASSUME PortInv, RvalidInv', Clock PROVE RequestReal'
  <1>1. CASE data_req_i /\ ~data_gnt_o
    <2>1. MayIssue /\ txn \in Txn
      BY <1>1 DEF PortInv, RequestReal, data_req_i
    <2>2. ~granted
      BY <1>1 DEF granted
    <2>3. outstanding' = outstanding + 0 - (IF rvalid_o THEN 1 ELSE 0)
      BY <2>2 DEF Clock, RvalidStallEdge, CoreCountEdge
    <2>4. MAX_OUTSTANDING \in Nat /\ outstanding \in Nat
      BY FifoAssumption DEF PortInv, RvalidInv, RvalidTypeOK
    <2>5. outstanding' < MAX_OUTSTANDING
      BY <2>1, <2>3, <2>4 DEF MayIssue
    <2>6. txn' = txn
      BY <1>1 DEF Clock, CoreEdge
    <2> QED
      BY <2>1, <2>5, <2>6 DEF RequestReal, MayIssue
  <1>2. CASE ~(data_req_i /\ ~data_gnt_o)
    BY <1>2 DEF Clock, CoreEdge, RequestReal
  <1> QED
    BY <1>1, <1>2

(* The port comes out of reset in the invariant. *)
LEMMA InitPortInv == Init => PortInv /\ GntInit /\ RvalidInit
  <1> SUFFICES ASSUME Init PROVE PortInv /\ GntInit /\ RvalidInit
    OBVIOUS
  <1>1. 0 \in Word
    BY ZeroWord
  <1>2. rdata_i \in Word
    BY <1>1 DEF Init, data_rdata_mux, core_data_rdata
  <1>3. GntInit /\ RvalidInit
    BY <1>2 DEF Init, RvalidInit
  <1>4. PortTypes /\ RequestReal /\ ReservationReal
    BY <1>1 DEF Init, GntInit, PortTypes, RequestReal, ReservationReal
  <1> QED
    BY <1>3, <1>4, GntInitInv, RvalidInitInv DEF PortInv

(* An edge preserves the invariant. *)
LEMMA ClockPortInv ==
    ASSUME PortInv, Clock PROVE PortInv'
  <1>1. GntInv'
    BY ClockIsGntClock, SimulatorStep, VerilatorStep, BuildAssumption DEF PortInv
  <1>2. RvalidInv'
    BY ClockIsRvalidClock, ClockEdge, EdgePreserves DEF PortInv
  <1> QED
    BY <1>1, <1>2, TypesStep, RequestStep DEF PortInv

(***************************************************************************)
(* PortInv is an invariant of the data port.                               *)
(***************************************************************************)
THEOREM PortInvariance == Spec => []PortInv
  <1>1. PortInv /\ [Next]_vars => PortInv'
    <2> SUFFICES ASSUME PortInv, [Next]_vars PROVE PortInv'
      OBVIOUS
    <2>1. CASE Clock
      BY <2>1, ClockPortInv
    <2>2. CASE UNCHANGED vars
      BY <2>2 DEF vars, gntVars, rvalidVars, ramVars, amoVars, PortInv, GntInv, GntTypeOK,
                  DelayInv, WaitBounded, Counting, RvalidInv, RvalidTypeOK, CountsAgree,
                  Occupancy, PortTypes, RequestReal, MayIssue, ReservationReal
    <2> QED
      BY <2>1, <2>2 DEF Next
  <1> QED
    BY InitPortInv, <1>1, PTL DEF Spec

(***************************************************************************)
(* All registers of the data port keep their types, whatever is stalled,   *)
(* reserved or reprogrammed.                                               *)
(***************************************************************************)
THEOREM TypeCorrect == Spec => []TypeOK
  <1>1. PortInv => TypeOK
    BY DEF PortInv, PortTypes, GntInv, RvalidInv, TypeOK
  <1> QED
    BY <1>1, PortInvariance, PTL

(***************************************************************************)
(* In the composed port, whose requests come from the grant staller, the   *)
(* response buffer holds exactly the transfers outstanding.                *)
(***************************************************************************)
THEOREM PortNeverOverflows == Spec => []CountsAgree
  <1>1. PortInv => CountsAgree
    BY DEF PortInv, RvalidInv
  <1> QED
    BY <1>1, PortInvariance, PTL

(***************************************************************************)
(* Put together, each staller still behaves as it does on its own: the     *)
(* port implements the safety part of both of their specifications.        *)
(***************************************************************************)
THEOREM StallersCompose == Spec => GntSafety /\ RvalidSafety
  <1>1. PortInv /\ [Next]_vars => [GntClock]_gntVars /\ [RvalidClock]_rvalidVars
    <2> SUFFICES ASSUME PortInv, [Next]_vars
                 PROVE  [GntClock]_gntVars /\ [RvalidClock]_rvalidVars
      OBVIOUS
    <2>1. CASE Clock
      BY <2>1, ClockIsGntClock, ClockIsRvalidClock
    <2>2. CASE UNCHANGED vars
      BY <2>2 DEF vars
    <2> QED
      BY <2>1, <2>2 DEF Next
  <1> QED
    BY <1>1, InitPortInv, PortInvariance, PTL DEF Spec, GntSafety, RvalidSafety

(***************************************************************************)
(* So no request of the data port is refused for more cycles than the      *)
(* longest programmed delay, although its own stores reprogram the         *)
(* registers.                                                              *)
(***************************************************************************)
THEOREM PortNoStarvation == Spec => []WaitBounded
  BY StallersCompose, NoStarvation, PTL

(***************************************************************************)
(* And the responses of the data port come once each and in order.         *)
(***************************************************************************)
THEOREM PortInOrder == Spec => InOrderResponses
  BY StallersCompose, ChannelRefinement, PTL

-----------------------------------------------------------------------------
(* The port implements an atomic memory. *)

(* The abstract reservation, and the abstract transfer of a request. *)
Rsv == IF rsv_valid_q THEN Remap(rsv_addr_q) ELSE NoReservation

AbstractTxn ==
    [kind |-> txn.kind, loc |-> IF txn.addr = Device THEN 0 ELSE Remap(txn.addr),
     wdata |-> txn.wdata, op |-> txn.op]

(* A request asks for an abstract transfer of its kind. *)
LEMMA AbstractTxnType ==
    ASSUME txn \in Txn
    PROVE  /\ AbstractTxn \in AbstractTransfer
           /\ AbstractTxn.kind = txn.kind /\ AbstractTxn.wdata = txn.wdata
           /\ AbstractTxn.op = txn.op
           /\ txn.kind \notin {"DEV_LOAD", "DEV_STORE"} => AbstractTxn.loc = Remap(txn.addr)
  <1>1. AbstractTxn \in AbstractTransfer
    BY DEF AbstractTxn, AbstractTransfer
  <1>2. txn.kind \notin {"DEV_LOAD", "DEV_STORE"} => txn.addr # Device
    BY TxnFields, RemapType
  <1> QED
    BY <1>1, <1>2 DEF AbstractTxn

(***************************************************************************)
(* An address that atomics are used on is its own location, and the bus    *)
(* address of a transfer equals it exactly if their locations are equal.   *)
(***************************************************************************)
LEMMA AtomicLocation ==
    ASSUME AtomicsNotAliased, NEW a \in AtomicAddr
    PROVE  /\ Remap(a) = a /\ a % RAM_WORDS = a /\ a # Device /\ a # NoReservation
           /\ \A b \in PlainAddr \cup AtomicAddr : Remap(b) = a <=> b = a
  <1>1. /\ RAM_WORDS \in Nat \ {0} /\ dm_halt_addr_i \in Nat
        /\ dm_halt_addr_i >= RAM_WORDS /\ a \in 0 .. RAM_WORDS - 1
    BY PortAssumption DEF AtomicsNotAliased, Location
  <1>2. \A b \in AtomicAddr : Remap(b) = b
    BY <1>1 DEF AtomicsNotAliased, Location, Remap
  <1>3. a % RAM_WORDS = a
    BY <1>1
  <1>4. a # Device /\ a # NoReservation
    BY RemapType DEF AtomicsNotAliased
  <1>5. ASSUME NEW b \in PlainAddr \cup AtomicAddr PROVE Remap(b) = a <=> b = a
    BY <1>2 DEF AtomicsNotAliased
  <1> QED
    BY <1>2, <1>3, <1>4, <1>5

(***************************************************************************)
(* A granted transfer is answered with zero if it writes, else with the    *)
(* read mux's output in the next cycle; nothing else is added to what the  *)
(* port owes.                                                              *)
(***************************************************************************)
LEMMA PortAnswers ==
    ASSUME PortInv, PortInv', Clock
    PROVE  /\ granted => Memory!Answer(IF data_we_i /\ ~is_amo THEN 0 ELSE rdata_i', sc_exokay)
           /\ ~granted => Owed' = Memory!Unanswered
  <1>1. PICK push \in BOOLEAN, we \in BOOLEAN, exokay \in BOOLEAN, d \in 0 .. DELAY_RANGE - 1 :
           /\ push = granted /\ we = (data_we_i /\ ~is_amo) /\ exokay = sc_exokay
           /\ push => MayIssue
           /\ FifoEdge(push, we, exokay, d)
           /\ CoreCountEdge(push)
    BY PortEdge
  <1>2. rdata_i' \in Word /\ RvalidInv /\ RvalidInv'
    BY PortEdge DEF PortInv
  <1> DEFINE R == [rdata : Word, exokay : BOOLEAN]
             new == [rdata |-> IF we THEN 0 ELSE rdata_i', exokay |-> exokay]
             kept == Channel!Unanswered
  <1>3. Owed' = kept \o (IF push THEN <<new>> ELSE << >>)
    BY <1>1, <1>2, OwedAfterEdge
  <1>4. new \in R
    BY <1>2, ZeroWord
  <1>5. kept \in Seq(R) /\ kept = Memory!Unanswered
    <2>1. Owed \in Seq(R) /\ Len(Owed) = Occupancy
      BY <1>2, OwedType DEF OwedIsSequence
    <2>2. rvalid_o => Owed # << >>
      BY <1>2, BusIsHead
    <2>3. rvalid_o => Tail(Owed) \in Seq(R)
      BY <2>1, <2>2, HeadTailProperties
    <2> QED
      BY <2>1, <2>3 DEF Channel!Unanswered, Memory!Unanswered
  <1> HIDE DEF kept, R
  <1>6. CASE push
    <2>1. Owed' = kept \o <<new>>
      BY <1>3, <1>6
    <2> HIDE DEF new
    <2>2. Append(kept, new) = kept \o <<new>>
      BY <1>4, <1>5, AppendIsConcat
    <2>3. new = [rdata |-> IF data_we_i /\ ~is_amo THEN 0 ELSE rdata_i', exokay |-> sc_exokay]
      BY <1>1 DEF new
    <2> QED
      BY <1>1, <1>5, <1>6, <2>1, <2>2, <2>3 DEF Memory!Answer
  <1>7. CASE ~push
    <2>1. Owed' = kept \o << >>
      BY <1>3, <1>7
    <2>2. kept \o << >> = kept
      BY <1>5
    <2> QED
      BY <1>1, <1>5, <1>7, <2>1, <2>2
  <1> QED
    BY <1>6, <1>7

(***************************************************************************)
(* What the read mux shows in the cycle after a read: the word of the RAM, *)
(* the word before the AMO, or the device's word.                          *)
(***************************************************************************)
LEMMA PortReads ==
    ASSUME AtomicsNotAliased, PortInv, Clock, granted
    PROVE  /\ txn.kind \in {"LOAD", "LR", "AMO"} => rdata_i' = mem[Remap(txn.addr)]
           /\ txn.kind = "DEV_LOAD" => rdata_i' \in Word
  <1>1. rdata_i' = IF select_rdata_q' = "RAM"
                   THEN IF amo_resp_q' THEN amo_old_q' ELSE ram_data_rdata'
                   ELSE dev_rdata_q'
    BY DEF Clock, RvalidStallEdge, data_rdata_mux, core_data_rdata
  <1>2. req_core_i /\ txn \in Txn
    BY DEF PortInv, RequestReal, granted, data_req_i
  <1>3. CASE txn.kind \in {"LOAD", "LR"}
    <2>1. data_req_dec /\ ~data_we_dec /\ ~is_amo /\ ram_data_req
      BY <1>2, <1>3 DEF data_req_dec, is_ram, data_we_dec, data_we_i, is_amo, ram_data_req, data_req_i
    <2>2. ram_data_rdata' = mem[Remap(txn.addr)]
      BY <2>1 DEF Clock, DpRamEdge, data_addr_dec
    <2>3. select_rdata_q' = "RAM" /\ ~amo_resp_q'
      BY <1>3, <2>1 DEF Clock, DeviceEdge, AmoEdge
    <2> QED
      BY <1>1, <1>3, <2>2, <2>3
  <1>4. CASE txn.kind = "AMO"
    <2>1. amo_old_word = mem[Remap(txn.addr)]
      BY <1>2, <1>4, TxnFields, AtomicLocation DEF amo_old_word, amo_mem_addr
    <2>2. select_rdata_q' = "RAM" /\ amo_resp_q' /\ amo_old_q' = amo_old_word
      BY <1>4 DEF Clock, DeviceEdge, AmoEdge, is_amo
    <2> QED
      BY <1>1, <1>4, <2>1, <2>2
  <1>5. txn.kind = "DEV_LOAD" => rdata_i' \in Word
    BY TypesStep
  <1> QED
    BY <1>3, <1>4, <1>5

(***************************************************************************)
(* What a granted transfer writes: a store, a successful SC and an AMO     *)
(* write the word they address, nothing else writes.                       *)
(***************************************************************************)
LEMMA PortWrites ==
    ASSUME AtomicsNotAliased, PortInv, Clock
    PROVE  /\ granted /\ (txn.kind = "STORE" \/ (txn.kind = "SC" /\ sc_hit)) =>
                 mem' = [mem EXCEPT ![Remap(txn.addr)] = txn.wdata]
           /\ granted /\ txn.kind = "AMO" =>
                 mem' = [mem EXCEPT ![Remap(txn.addr)] =
                            amo_alu_result(txn.op, mem[Remap(txn.addr)], txn.wdata)]
           /\ ~(granted /\ (txn.kind \in {"STORE", "AMO"} \/ (txn.kind = "SC" /\ sc_hit))) =>
                 mem' = mem
  <1>1. granted => req_core_i /\ txn \in Txn
    BY DEF PortInv, RequestReal, granted, data_req_i
  <1>2. mem' = IF ram_data_req /\ data_we_dec
               THEN [mem EXCEPT ![data_addr_dec] = data_wdata_dec]
               ELSE mem
    BY DEF Clock, DpRamEdge
  <1>3. CASE granted /\ (txn.kind \in {"STORE", "AMO"} \/ (txn.kind = "SC" /\ sc_hit))
    <2>1. data_req_dec /\ data_we_dec /\ ram_data_req
      BY <1>1, <1>3 DEF data_req_dec, is_ram, data_we_dec, data_we_i, is_sc, ram_data_req, data_req_i
    <2>2. mem' = [mem EXCEPT ![Remap(txn.addr)] = data_wdata_dec]
      BY <1>2, <2>1 DEF data_addr_dec
    <2>3. txn.kind # "AMO" => data_wdata_dec = txn.wdata
      BY DEF data_wdata_dec, is_amo
    <2>4. txn.kind = "AMO" =>
             data_wdata_dec = amo_alu_result(txn.op, mem[Remap(txn.addr)], txn.wdata)
      <3>1. txn.kind = "AMO" => amo_old_word = mem[Remap(txn.addr)]
        BY <1>1, <1>3, TxnFields, AtomicLocation DEF amo_old_word, amo_mem_addr
      <3> QED
        BY <3>1 DEF data_wdata_dec, is_amo, amo_new_word
    <2> QED
      BY <1>3, <2>2, <2>3, <2>4
  <1>4. CASE ~(granted /\ (txn.kind \in {"STORE", "AMO"} \/ (txn.kind = "SC" /\ sc_hit)))
    <2>1. ~data_we_dec
      BY <1>1, <1>4 DEF data_we_dec, data_req_dec, is_ram, data_we_i, is_sc
    <2> QED
      BY <1>2, <1>4, <2>1
  <1> QED
    BY <1>3, <1>4

(***************************************************************************)
(* What happens to the abstract reservation: LR sets it, SC ends it, a     *)
(* write to its location ends it, and SC hits exactly if it is held.       *)
(***************************************************************************)
LEMMA PortReserves ==
    ASSUME AtomicsNotAliased, PortInv, Clock
    PROVE  /\ granted /\ txn.kind = "LR" => Rsv' = Remap(txn.addr)
           /\ granted /\ txn.kind = "SC" =>
                 Rsv' = NoReservation /\ (sc_hit <=> Rsv = Remap(txn.addr))
           /\ granted /\ txn.kind \in {"STORE", "AMO"} =>
                 Rsv' = IF Rsv = Remap(txn.addr) THEN NoReservation ELSE Rsv
           /\ ~granted \/ txn.kind \in {"LOAD", "DEV_LOAD", "DEV_STORE"} => Rsv' = Rsv
  <1>1. granted => txn \in Txn
    BY DEF PortInv, RequestReal, granted, data_req_i
  <1>2. /\ rsv_valid_q => rsv_addr_q \in AtomicAddr
        /\ rsv_valid_q \in BOOLEAN
    BY DEF PortInv, ReservationReal, PortTypes
  <1>3. /\ rsv_valid_q' = IF granted /\ is_lr THEN TRUE
                          ELSE IF granted /\ is_sc THEN FALSE
                          ELSE IF granted /\ data_we_i /\ rsv_valid_q /\ txn.addr = rsv_addr_q
                               THEN FALSE
                          ELSE rsv_valid_q
        /\ rsv_addr_q' = IF granted /\ is_lr THEN txn.addr ELSE rsv_addr_q
    BY DEF Clock, ReservationEdge
  <1>4. Rsv' = IF rsv_valid_q' THEN Remap(rsv_addr_q') ELSE NoReservation
    BY DEF Rsv, Remap
  <1>5. ASSUME granted, txn.kind \in {"STORE", "SC", "AMO"}
        PROVE  Rsv = Remap(txn.addr) <=> rsv_valid_q /\ rsv_addr_q = txn.addr
    <2>1. txn.addr \in PlainAddr \cup AtomicAddr
      BY <1>1, <1>5, TxnFields
    <2>2. NoReservation # Remap(txn.addr)
      BY <2>1, RemapType DEF AtomicsNotAliased
    <2>3. rsv_valid_q => Remap(rsv_addr_q) = rsv_addr_q
                         /\ (Remap(txn.addr) = rsv_addr_q <=> txn.addr = rsv_addr_q)
      BY <1>2, <2>1, AtomicLocation
    <2> QED
      BY <2>2, <2>3 DEF Rsv
  <1>6. granted /\ txn.kind = "LR" => Rsv' = Remap(txn.addr)
    BY <1>3, <1>4 DEF is_lr
  <1>7. granted /\ txn.kind = "SC" =>
           Rsv' = NoReservation /\ (sc_hit <=> Rsv = Remap(txn.addr))
    BY <1>3, <1>4, <1>5 DEF is_lr, is_sc, sc_hit
  <1>8. granted /\ txn.kind \in {"STORE", "AMO"} =>
           Rsv' = IF Rsv = Remap(txn.addr) THEN NoReservation ELSE Rsv
    BY <1>2, <1>3, <1>4, <1>5 DEF is_lr, is_sc, data_we_i, Rsv
  <1>9. ASSUME ~granted \/ txn.kind \in {"LOAD", "DEV_LOAD", "DEV_STORE"} PROVE Rsv' = Rsv
    <2>1. granted /\ data_we_i /\ rsv_valid_q => txn.addr # rsv_addr_q
      BY <1>1, <1>2, <1>9, TxnFields, AtomicLocation DEF data_we_i
    <2> QED
      BY <1>2, <1>3, <1>4, <1>9, <2>1 DEF is_lr, is_sc, Rsv
  <1> QED
    BY <1>6, <1>7, <1>8, <1>9

(***************************************************************************)
(* A granted transfer is performed as the abstract memory performs it.     *)
(***************************************************************************)
LEMMA PortPerforms ==
    ASSUME AtomicsNotAliased, PortInv, PortInv', Clock, granted
    PROVE  Memory!Perform(AbstractTxn)
  <1> DEFINE t == AbstractTxn
             l == Remap(txn.addr)
  <1>1. txn \in Txn
    BY DEF PortInv, RequestReal, granted, data_req_i
  <1>2. /\ t.kind = txn.kind /\ t.wdata = txn.wdata /\ t.op = txn.op
        /\ txn.kind \notin {"DEV_LOAD", "DEV_STORE"} => t.loc = l
    BY <1>1, AbstractTxnType
  <1> HIDE DEF t, l
  <1>3. Memory!Answer(IF data_we_i /\ ~is_amo THEN 0 ELSE rdata_i', sc_exokay)
    BY PortAnswers
  <1>4. ASSUME txn.kind # "SC" PROVE sc_exokay = FALSE
    BY <1>4 DEF sc_exokay, is_sc
  <1>5. CASE txn.kind = "LOAD"
    <2>1. Memory!Answer(mem[l], FALSE)
      BY <1>3, <1>4, <1>5, PortReads DEF data_we_i, l
    <2>2. mem' = mem /\ Rsv' = Rsv
      BY <1>5, PortWrites, PortReserves
    <2>3. Memory!Load(t)
      BY <1>2, <1>5, <2>1, <2>2 DEF Memory!Load, Rsv
    <2> QED
      BY <2>3 DEF Memory!Perform, t
  <1>6. CASE txn.kind = "STORE"
    <2>1. Memory!Answer(0, FALSE)
      BY <1>3, <1>4, <1>6 DEF data_we_i, is_amo
    <2>2. mem' = [mem EXCEPT ![l] = txn.wdata] /\ Rsv' = IF Rsv = l THEN NoReservation ELSE Rsv
      BY <1>6, PortWrites, PortReserves DEF l
    <2>3. Memory!Store(t)
      BY <1>2, <1>6, <2>1, <2>2 DEF Memory!Store, Memory!WriteWord, Rsv
    <2> QED
      BY <2>3 DEF Memory!Perform, t
  <1>7. CASE txn.kind = "LR"
    <2>1. Memory!Answer(mem[l], FALSE)
      BY <1>3, <1>4, <1>7, PortReads DEF data_we_i, l
    <2>2. mem' = mem /\ Rsv' = l
      BY <1>7, PortWrites, PortReserves DEF l
    <2>3. Memory!LoadReserved(t)
      BY <1>2, <1>7, <2>1, <2>2 DEF Memory!LoadReserved, Rsv
    <2> QED
      BY <2>3 DEF Memory!Perform, t
  <1>8. CASE txn.kind = "SC"
    <2>1. Rsv' = NoReservation /\ (sc_hit <=> Rsv = l)
      BY <1>8, PortReserves DEF l
    <2>2. sc_exokay = (Rsv = l)
      BY <1>8, <2>1 DEF sc_exokay, is_sc
    <2>3. Memory!Answer(0, Rsv = l)
      BY <1>3, <1>8, <2>2 DEF data_we_i, is_amo
    <2>4. mem' = IF Rsv = l THEN [mem EXCEPT ![l] = txn.wdata] ELSE mem
      BY <1>8, <2>1, PortWrites DEF l
    <2>5. Memory!StoreConditional(t)
      BY <1>2, <1>8, <2>1, <2>3, <2>4 DEF Memory!StoreConditional, Rsv
    <2> QED
      BY <2>5 DEF Memory!Perform, t
  <1>9. CASE txn.kind = "AMO"
    <2>1. Memory!Answer(mem[l], FALSE)
      BY <1>3, <1>4, <1>9, PortReads DEF is_amo, l
    <2>2. /\ mem' = [mem EXCEPT ![l] = amo_alu_result(txn.op, mem[l], txn.wdata)]
          /\ Rsv' = IF Rsv = l THEN NoReservation ELSE Rsv
      BY <1>9, PortWrites, PortReserves DEF l
    <2>3. Memory!Amo(t)
      BY <1>2, <1>9, <2>1, <2>2 DEF Memory!Amo, Memory!WriteWord, Rsv
    <2> QED
      BY <2>3 DEF Memory!Perform, t
  <1>10. CASE txn.kind = "DEV_LOAD"
    <2>1. rdata_i' \in Word /\ Memory!Answer(rdata_i', FALSE)
      BY <1>3, <1>4, <1>10, PortReads DEF data_we_i
    <2>2. mem' = mem /\ Rsv' = Rsv
      BY <1>10, PortWrites, PortReserves
    <2>3. Memory!DeviceRead(t)
      BY <1>2, <1>10, <2>1, <2>2 DEF Memory!DeviceRead, Rsv
    <2> QED
      BY <2>3 DEF Memory!Perform, t
  <1>11. CASE txn.kind = "DEV_STORE"
    <2>1. Memory!Answer(0, FALSE)
      BY <1>3, <1>4, <1>11 DEF data_we_i, is_amo
    <2>2. mem' = mem /\ Rsv' = Rsv
      BY <1>11, PortWrites, PortReserves
    <2>3. Memory!DeviceWrite(t)
      BY <1>2, <1>11, <2>1, <2>2 DEF Memory!DeviceWrite, Rsv
    <2> QED
      BY <2>3 DEF Memory!Perform, t
  <1> QED
    BY <1>1, <1>5, <1>6, <1>7, <1>8, <1>9, <1>10, <1>11, TxnFields

(* An edge of the port is an edge of the abstract memory. *)
LEMMA ClockIsMemClock ==
    ASSUME AtomicsNotAliased, PortInv, PortInv', Clock
    PROVE  Memory!MemClock
  <1> DEFINE Effect == \/ \E t \in AbstractTransfer : Memory!Perform(t)
                       \/ /\ Owed' = Memory!Unanswered
                          /\ mem' = mem /\ Rsv' = Rsv
  <1>1. Effect
    <2>1. CASE granted
      <3>1. AbstractTxn \in AbstractTransfer
        BY <2>1, AbstractTxnType DEF PortInv, RequestReal, granted, data_req_i
      <3> QED
        BY <2>1, <3>1, PortPerforms
    <2>2. CASE ~granted
      BY <2>2, PortAnswers, PortWrites, PortReserves
    <2> QED
      BY <2>1, <2>2
  <1>2. rvalid_o' \in BOOLEAN
    BY DEF rvalid_o
  <1>3. rvalid_o' => Owed' # << >> /\ BusResponse' = Head(Owed')
    <2>1. (RvalidInv /\ rvalid_o => Owed # << >> /\ BusResponse = Head(Owed))'
      BY BusIsHead, PTL
    <2> QED
      BY <2>1 DEF PortInv
  <1> QED
    BY <1>1, <1>2, <1>3 DEF Memory!MemClock, Rsv

(***************************************************************************)
(* AtomicMemory for every configuration in which no word that atomics are  *)
(* used on has a second address: the data port of mm_ram, stalled in any   *)
(* way and pipelined up to the core's limit, performs each transfer        *)
(* atomically at its grant and answers it once, in order, with its own     *)
(* result.                                                                 *)
(***************************************************************************)
THEOREM MemoryRefinement ==
    ASSUME AtomicsNotAliased PROVE Spec => AtomicMemory
  <1>1. Init => Memory!MemInit
    <2> SUFFICES ASSUME Init PROVE Memory!MemInit
      OBVIOUS
    <2>1. wptr = 0 /\ rptr = 0
      BY DEF Init, FifoInit
    <2>2. rvalid_o = FALSE /\ Occupancy = 0
      BY <2>1 DEF rvalid_o, fifo_empty, Occupancy
    <2>3. Owed = << >>
      BY <2>2 DEF Owed
    <2>4. mem \in [Location -> Word] /\ ~rsv_valid_q
      BY DEF Init
    <2> QED
      BY <2>2, <2>3, <2>4 DEF Memory!MemInit, Memory!Init
  <1>2. PortInv /\ PortInv' /\ [Next]_vars => [Memory!MemClock]_(Memory!memVars)
    <2> SUFFICES ASSUME PortInv, PortInv', [Next]_vars
                 PROVE  [Memory!MemClock]_(Memory!memVars)
      OBVIOUS
    <2>1. CASE Clock
      BY <2>1, ClockIsMemClock
    <2>2. CASE UNCHANGED vars
      BY <2>2 DEF vars, rvalidVars, ramVars, amoVars, Memory!memVars, Owed, rvalid_o,
                  BusResponse, Occupancy, fifo_empty, current_delay, ResponseAt, DataAt
    <2> QED
      BY <2>1, <2>2 DEF Next
  <1> QED
    BY <1>1, <1>2, PortInvariance, PTL DEF Spec, AtomicMemory, Memory!MemSpec

=============================================================================
