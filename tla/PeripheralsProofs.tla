-------------------------- MODULE PeripheralsProofs --------------------------
(***************************************************************************)
(* The debug-request generator of the simulator build produces exactly the *)
(* commanded waveform, for every set of commands and every default range;  *)
(* a program that sets the machine timer finds it set, whatever its width. *)
(***************************************************************************)
EXTENDS Peripherals, TLAPS

RequestType ==
    [pulse : BOOLEAN, value : BOOLEAN, before : BOOLEAN, start : Nat, duration : Nat]

DebugType ==
    /\ debugger_start_cnt_q \in Nat /\ debug_req_duration_q \in Nat
    /\ debug_req_value_q \in BOOLEAN /\ debug_req_o \in BOOLEAN
    /\ request \in RequestType /\ age \in Nat

(***************************************************************************)
(* DebugWaveform does not mention the two counters that make it true.  The *)
(* counters hold what is left of the start delay and then of the duration, *)
(* and only a pulse has a duration.                                        *)
(***************************************************************************)
CountersInv ==
    /\ age <= request.start + request.duration
    /\ age < request.start =>
          /\ debugger_start_cnt_q = request.start - age
          /\ debug_req_duration_q = request.duration
    /\ age >= request.start =>
          /\ debugger_start_cnt_q = 0
          /\ debug_req_duration_q = request.start + request.duration - age
    /\ debug_req_value_q = request.value
    /\ request.pulse <=> request.duration > 0

IInv == DebugType /\ CountersInv /\ DebugWaveform

-----------------------------------------------------------------------------

(* Counts drawn for a command: the start delay is never zero, and the      *)
(* duration is zero exactly when no pulse is asked for.                    *)
LEMMA CountsDrawn ==
    ASSUME ~VERILATOR, NEW c \in DebugCommand,
           NEW s \in StartCounts(c), NEW d \in Durations(c)
    PROVE  /\ s \in Nat \ {0}
           /\ d \in Nat
           /\ c.pulse <=> d > 0
  <1>1. /\ c.start \in Nat /\ c.duration \in Nat /\ c.pulse \in BOOLEAN
        /\ DEFAULT_RANGE \in Nat \ {0}
    BY PeripheralsAssumption DEF DebugCommandType
  <1>2. ASSUME NEW n \in Nat, NEW m \in Nat \ {0}
        PROVE  OrDefault(n, m) \in Nat \ {0}
    BY DEF OrDefault
  <1>3. s \in Nat \ {0}
    <2>1. s = OrDefault(c.start, 1) \/ s \in 1 .. OrDefault(c.start, DEFAULT_RANGE)
      BY DEF StartCounts
    <2>2. /\ OrDefault(c.start, 1) \in Nat \ {0}
          /\ OrDefault(c.start, DEFAULT_RANGE) \in Nat \ {0}
      BY <1>1, <1>2
    <2> QED
      BY <2>1, <2>2
  <1>4. CASE ~c.pulse
    <2>1. d = 0
      BY <1>4 DEF Durations
    <2> QED
      BY <1>3, <1>4, <2>1
  <1>5. CASE c.pulse
    <2>1. d = OrDefault(c.duration, 1) \/ d \in 1 .. OrDefault(c.duration, DEFAULT_RANGE)
      BY <1>5 DEF Durations
    <2>2. /\ OrDefault(c.duration, 1) \in Nat \ {0}
          /\ OrDefault(c.duration, DEFAULT_RANGE) \in Nat \ {0}
      BY <1>1, <1>2
    <2>3. d \in Nat /\ d > 0
      BY <2>1, <2>2
    <2> QED
      BY <1>3, <1>5, <2>3
  <1> QED
    BY <1>4, <1>5

(* Reset leaves a finished waveform: a level of zero. *)
LEMMA InitIInv == Init => IInv
  <1> SUFFICES ASSUME Init PROVE IInv
    OBVIOUS
  <1>1. DebugType
    BY DEF Init, DebugType, RequestType
  <1>2. CountersInv
    <2>1. /\ request.start = 0 /\ request.duration = 0 /\ age = 0
          /\ ~request.pulse /\ ~request.value /\ ~debug_req_value_q
          /\ debugger_start_cnt_q = 0 /\ debug_req_duration_q = 0
      BY DEF Init
    <2>2. debug_req_value_q = request.value
      BY DEF Init
    <2>3. ~(request.duration > 0) /\ ~(age < request.start)
      BY <2>1
    <2>4. /\ age <= request.start + request.duration
          /\ debug_req_duration_q = request.start + request.duration - age
      BY <2>1
    <2> QED
      BY <2>1, <2>2, <2>3, <2>4, Zenon DEF CountersInv
  <1>3. DebugWaveform
    BY DEF Init, DebugWaveform
  <1> QED
    BY <1>1, <1>2, <1>3 DEF IInv

(***************************************************************************)
(* Accepting a command starts a new waveform from the present output.      *)
(***************************************************************************)
LEMMA AcceptStep ==
    ASSUME IInv, ~VERILATOR, NEW c \in DebugCommand, Accept(c)
    PROVE  IInv'
  <1> DEFINE s == debugger_start_cnt_q'
             d == debug_req_duration_q'
  <1>1. /\ s \in StartCounts(c) /\ d \in Durations(c)
        /\ debug_req_value_q' = c.value /\ debug_req_o' = debug_req_o /\ age' = 0
        /\ request' = [pulse |-> c.pulse, value |-> c.value, before |-> debug_req_o,
                       start |-> s, duration |-> d]
    BY DEF Accept
  <1>2. s \in Nat \ {0} /\ d \in Nat /\ (c.pulse <=> d > 0)
    BY <1>1, CountsDrawn
  <1>3. c.pulse \in BOOLEAN /\ c.value \in BOOLEAN /\ debug_req_o \in BOOLEAN
    BY PeripheralsAssumption DEF DebugCommandType, IInv, DebugType
  <1> HIDE DEF s, d
  <1>4. /\ request'.pulse = c.pulse /\ request'.value = c.value
        /\ request'.before = debug_req_o /\ request'.start = s /\ request'.duration = d
    BY <1>1
  <1>5. DebugType'
    <2>1. request' \in RequestType
      BY <1>1, <1>2, <1>3 DEF RequestType
    <2> QED
      BY <1>1, <1>2, <1>3, <2>1 DEF DebugType, s, d
  <1>6. age' = 0 /\ age' < request'.start /\ age' <= request'.start + request'.duration
    BY <1>1, <1>2, <1>4
  <1>7. CountersInv'
    <2>1. /\ debugger_start_cnt_q' = request'.start - age'
          /\ debug_req_duration_q' = request'.duration
          /\ ~(age' >= request'.start)
      <3>1. s = request'.start - age' /\ d = request'.duration /\ ~(age' >= request'.start)
        BY <1>2, <1>4, <1>6
      <3> QED
        BY <3>1, Zenon DEF s, d
    <2>2. request'.pulse <=> request'.duration > 0
      BY <1>2, <1>4
    <2>3. debug_req_value_q' = request'.value
      BY <1>1, <1>4
    <2> QED
      BY <1>6, <2>1, <2>2, <2>3, Zenon DEF CountersInv
  <1>8. DebugWaveform'
    BY <1>1, <1>4, <1>6, Zenon DEF DebugWaveform
  <1> QED
    BY <1>5, <1>7, <1>8 DEF IInv

(***************************************************************************)
(* Counting down moves one edge along the waveform.                        *)
(***************************************************************************)
LEMMA CountDownStep ==
    ASSUME IInv, CountDown, age' = Aged, UNCHANGED request
    PROVE  IInv'
  <1>1. /\ DebugType /\ CountersInv /\ DebugWaveform
        /\ debug_req_value_q' = debug_req_value_q
    BY DEF IInv, CountDown
  <1>2. /\ request.start \in Nat /\ request.duration \in Nat /\ age \in Nat
        /\ request.pulse \in BOOLEAN /\ request.value \in BOOLEAN
        /\ request.before \in BOOLEAN
        /\ debug_req_o \in BOOLEAN /\ debug_req_value_q \in BOOLEAN
    BY <1>1 DEF DebugType, RequestType
  <1>3. CASE age < request.start
    <2>1. /\ debugger_start_cnt_q = request.start - age
          /\ debug_req_duration_q = request.duration
          /\ age' = age + 1
      BY <1>1, <1>2, <1>3 DEF CountersInv, Aged
    <2>2. /\ debugger_start_cnt_q' = request.start - age'
          /\ debug_req_duration_q' = request.duration
          /\ debug_req_o' = IF age' = request.start THEN debug_req_value_q ELSE debug_req_o
      BY <1>2, <1>3, <2>1 DEF CountDown
    <2>3. /\ age' \in Nat /\ age' <= request.start
          /\ age' >= request.start => age' = request.start
          /\ age' # request.start => age' < request.start
          /\ age' = request.start => ~(age' < request.start)
      BY <1>2, <1>3, <2>1
    <2>4. debug_req_o = request.before /\ debug_req_value_q = request.value
      BY <1>1, <1>3, Zenon DEF DebugWaveform, CountersInv
    <2>5. DebugType'
      <3>1. debugger_start_cnt_q' \in Nat /\ debug_req_duration_q' \in Nat
        BY <1>2, <2>2, <2>3
      <3>2. debug_req_o' \in BOOLEAN
        BY <1>2, <2>2
      <3> QED
        BY <1>1, <2>3, <3>1, <3>2 DEF DebugType
    <2>6. CountersInv'
      BY <1>1, <1>2, <2>2, <2>3 DEF CountersInv
    <2>7. DebugWaveform'
      <3>1. CASE age' = request.start
        <4>1. debug_req_o' = request.value
          BY <2>2, <2>4, <3>1
        <4>2. age' < request.start + request.duration \/ ~request.pulse
          BY <1>1, <1>2, <3>1 DEF CountersInv
        <4> QED
          BY <2>3, <3>1, <4>1, <4>2, Zenon DEF DebugWaveform
      <3>2. CASE age' # request.start
        <4>1. debug_req_o' = request.before
          BY <2>2, <2>4, <3>2
        <4> QED
          BY <2>3, <3>2, <4>1, Zenon DEF DebugWaveform
      <3> QED
        BY <3>1, <3>2
    <2> QED
      BY <2>5, <2>6, <2>7 DEF IInv
  <1>4. CASE age >= request.start
    <2>1. /\ debugger_start_cnt_q = 0
          /\ debug_req_duration_q = request.start + request.duration - age
          /\ age <= request.start + request.duration
          /\ ~(age < request.start)
      BY <1>1, <1>2, <1>4 DEF CountersInv
    <2>2. /\ debugger_start_cnt_q' = 0
          /\ debug_req_duration_q' = IF debug_req_duration_q > 0
                                     THEN debug_req_duration_q - 1
                                     ELSE debug_req_duration_q
          /\ debug_req_o' = IF debug_req_duration_q = 1 THEN ~debug_req_value_q ELSE debug_req_o
      BY <2>1 DEF CountDown
    <2>3. /\ age' \in Nat /\ age' >= request.start /\ ~(age' < request.start)
          /\ age' <= request.start + request.duration
          /\ debug_req_duration_q' = request.start + request.duration - age'
      BY <1>2, <1>4, <2>1, <2>2 DEF Aged
    <2>4. debug_req_value_q = request.value
      BY <1>1 DEF CountersInv
    <2>5. DebugType'
      <3>1. debug_req_duration_q' \in Nat
        BY <1>2, <2>3
      <3>2. debug_req_o' \in BOOLEAN
        BY <1>2, <2>2
      <3> QED
        BY <1>1, <2>2, <2>3, <3>1, <3>2 DEF DebugType
    <2>6. CountersInv'
      BY <1>1, <1>2, <2>2, <2>3 DEF CountersInv
    <2>7. DebugWaveform'
      <3>1. CASE debug_req_duration_q = 1
        <4>1. debug_req_o' = ~request.value
          BY <2>2, <2>4, <3>1, Zenon
        <4>2. ~(age' < request.start + request.duration) /\ request.pulse
          BY <1>1, <1>2, <2>1, <2>3, <3>1 DEF CountersInv, Aged
        <4> QED
          BY <2>3, <4>1, <4>2, Zenon DEF DebugWaveform
      <3>2. CASE debug_req_duration_q # 1
        <4>1. debug_req_o' = debug_req_o
          BY <2>2, <3>2, Zenon
        <4>2. age < request.start + request.duration <=> age' < request.start + request.duration
          BY <1>2, <2>1, <2>3, <3>2 DEF Aged
        <4> QED
          BY <1>1, <2>1, <2>3, <4>1, <4>2, Zenon DEF DebugWaveform
      <3> QED
        BY <3>1, <3>2
    <2> QED
      BY <2>5, <2>6, <2>7 DEF IInv
  <1> QED
    BY <1>2, <1>3, <1>4

(***************************************************************************)
(* In the simulator build debug_req_o is at every clock edge what the last *)
(* accepted command asks for.  (Built with Verilator it is not: the run    *)
(* debug_pulse_verilator.)                                                 *)
(***************************************************************************)
THEOREM WaveformAsCommanded ==
    ASSUME ~VERILATOR
    PROVE  Spec => []DebugWaveform
  <1>1. IInv /\ [Next]_vars => IInv'
    <2> SUFFICES ASSUME IInv, [Next]_vars PROVE IInv'
      OBVIOUS
    <2>1. CASE Next
      <3>1. PICK t \in Store : tb_debugger(t)
        BY <2>1 DEF Next, Edge
      <3>2. CASE t.reg = "DBG" /\ debugger_start_cnt_q = 0 /\ debug_req_duration_q = 0
        <4>1. t.data \in DebugCommand
          BY <3>2 DEF Store
        <4> QED
          BY <3>1, <3>2, <4>1, AcceptStep DEF tb_debugger
      <3>3. CASE ~(t.reg = "DBG" /\ debugger_start_cnt_q = 0 /\ debug_req_duration_q = 0)
        BY <3>1, <3>3, CountDownStep DEF tb_debugger
      <3> QED
        BY <3>2, <3>3
    <2>2. CASE UNCHANGED vars
      BY <2>2 DEF vars, debugVars, IInv, DebugType, CountersInv, DebugWaveform
    <2> QED
      BY <2>1, <2>2
  <1>2. IInv => DebugWaveform
    BY DEF IInv
  <1> QED
    BY InitIInv, <1>1, <1>2, PTL DEF Spec

-----------------------------------------------------------------------------
(* The machine timer, and the widths of all registers, in both builds. *)

(* Counting modulo M from a number below M. *)
LEMMA CountMod ==
    ASSUME NEW M \in Nat \ {0}, NEW x \in 0 .. M - 1
    PROVE  /\ (x + 1) % M \in 0 .. M - 1
           /\ x # M - 1 => (x + 1) % M = x + 1
           /\ x = M - 1 => (x + 1) % M = 0
           /\ (x + 0) % M = x
  OBVIOUS

(* The next value of the counter is a register value. *)
LEMMA NextType ==
    ASSUME mtime_q \in Register
    PROVE  /\ mtime_next \in Register
           /\ mtime_next.lo = (mtime_q.lo + 1) % HALF
           /\ mtime_next.hi = (mtime_q.hi + (IF mtime_q.lo = HALF - 1 THEN 1 ELSE 0)) % HALF
<1>1. HALF \in Nat \ {0}
  BY PeripheralsAssumption
<1>2. mtime_q.lo \in 0 .. HALF - 1 /\ mtime_q.hi \in 0 .. HALF - 1
  BY DEF Register
<1>3. (mtime_q.lo + 1) % HALF \in 0 .. HALF - 1 /\ (mtime_q.hi + 1) % HALF \in 0 .. HALF - 1
      /\ (mtime_q.hi + 0) % HALF \in 0 .. HALF - 1
  BY <1>1, <1>2, CountMod
<1> QED
  BY <1>3 DEF mtime_next, Register

(* The carry: short of the wrap of the whole counter the next value is one *)
(* more.                                                                   *)
LEMMA CarryInTime ==
    ASSUME mtime_q \in Register, Value(mtime_q) # HALF * HALF - 1
    PROVE  Value(mtime_next) = Value(mtime_q) + 1
<1>1. HALF \in Nat \ {0}
  BY PeripheralsAssumption
<1> DEFINE lo == mtime_q.lo
           hi == mtime_q.hi
<1>2. lo \in 0 .. HALF - 1 /\ hi \in 0 .. HALF - 1
  BY DEF Register
<1>3. mtime_next.lo = (lo + 1) % HALF
      /\ mtime_next.hi = (hi + (IF lo = HALF - 1 THEN 1 ELSE 0)) % HALF
  BY NextType
<1>4. Value(mtime_next) = mtime_next.hi * HALF + mtime_next.lo /\ Value(mtime_q) = hi * HALF + lo
  BY DEF Value
<1> HIDE DEF lo, hi
<1>5. CASE lo # HALF - 1
  <2>1. mtime_next.lo = lo + 1 /\ mtime_next.hi = hi
    BY <1>1, <1>2, <1>3, <1>5, CountMod
  <2> QED
    BY <1>1, <1>2, <1>4, <2>1
<1>6. CASE lo = HALF - 1
  <2>1. hi # HALF - 1
    <3>1. (HALF - 1) * HALF + (HALF - 1) = HALF * HALF - 1
      BY <1>1
    <3> QED
      BY <1>4, <1>6, <3>1
  <2>2. mtime_next.lo = 0 /\ mtime_next.hi = hi + 1
    BY <1>1, <1>2, <1>3, <1>6, <2>1, CountMod
  <2>3. (hi + 1) * HALF = hi * HALF + HALF
    BY <1>1, <1>2
  <2> QED
    BY <1>1, <1>2, <1>4, <1>6, <2>2, <2>3
<1> QED
  BY <1>5, <1>6

(* The registers start within their widths, *)
LEMMA InitTypes == Init => TypeOK
<1> SUFFICES ASSUME Init PROVE TypeOK
  OBVIOUS
<1>1. HALF - 1 \in 0 .. HALF - 1 /\ 0 \in 0 .. HALF - 1 /\ 0 \in 0 .. TIMER_MAX
  BY PeripheralsAssumption
<1> QED
  BY <1>1 DEF Init, TypeOK, Register

(* a command sets the debug counters to numbers, *)
LEMMA AcceptTypes ==
    ASSUME TypeOK, NEW c \in DebugCommand, Accept(c)
    PROVE  /\ debugger_start_cnt_q' \in Nat /\ debug_req_duration_q' \in Nat
           /\ debug_req_value_q' \in BOOLEAN /\ debug_req_o' \in BOOLEAN
<1>1. c \in DebugCommandType /\ DEFAULT_RANGE \in Nat
  BY PeripheralsAssumption
<1>2. /\ OrDefault(c.start, 1) \in Nat /\ OrDefault(c.start, DEFAULT_RANGE) \in Nat
      /\ OrDefault(c.duration, 1) \in Nat /\ OrDefault(c.duration, DEFAULT_RANGE) \in Nat
  BY <1>1 DEF OrDefault, DebugCommandType
<1>3. StartCounts(c) \subseteq Nat
  BY <1>2 DEF StartCounts
<1>4. Durations(c) \subseteq Nat
  BY <1>2 DEF Durations
<1>5. c.value \in BOOLEAN
  BY <1>1 DEF DebugCommandType
<1>6. debug_req_value_q' \in BOOLEAN /\ debug_req_o' \in BOOLEAN
  BY <1>5 DEF Accept, TypeOK
<1>7. debugger_start_cnt_q' \in Nat /\ debug_req_duration_q' \in Nat
  BY <1>3, <1>4 DEF Accept, TypeOK
<1> QED
  BY <1>6, <1>7

(* the stores of a cycle are to one register, within its width, *)
LEMMA StoreTypes ==
    ASSUME NEW s \in Store
    PROVE  /\ s.reg \in {"MTIME", "MTIMEH", "MTIMECMP", "MTIMECMPH"} => s.data \in 0 .. HALF - 1
           /\ s.reg \in {"TIMERREG", "SIG_SET", "SIG_CLEAR"} => s.data \subseteq Irq
           /\ s.reg = "TIMERVAL" => s.data \in 0 .. TIMER_MAX
           /\ s.reg = "DBG" => s.data \in DebugCommand
  BY PeripheralsAssumption DEF Store

(* and every edge keeps them there. *)
LEMMA StepTypes == TypeOK /\ [Next]_vars => TypeOK'
<1> SUFFICES ASSUME TypeOK, NEW s \in Store, Edge(s) PROVE TypeOK'
  <2>1. CASE UNCHANGED vars
    BY <2>1 DEF vars, clintVars, timerVars, debugVars, TypeOK
  <2> QED
    BY <2>1 DEF Next
<1>1. mtime_q' \in Register
  <2>1. mtime_next.lo \in 0 .. HALF - 1 /\ mtime_next.hi \in 0 .. HALF - 1
    BY NextType DEF TypeOK, Register
  <2> QED
    BY <2>1, StoreTypes DEF Edge, clint_timer, Register
<1>2. mtimecmp_q' \in Register
  BY StoreTypes DEF Edge, clint_timer, Register, TypeOK
<1>3. /\ timer_irq_mask_q' \subseteq Irq /\ irq_q' \subseteq Irq
      /\ timer_cnt_q' \in 0 .. TIMER_MAX
  BY StoreTypes, PeripheralsAssumption DEF Edge, tb_irq_timer, TypeOK
<1>4. sig_platform_q' \subseteq SIG_ALLOWED_MASK
  BY DEF Edge, sig_platform_reg, TypeOK
<1>5. /\ debugger_start_cnt_q' \in Nat /\ debug_req_duration_q' \in Nat
      /\ debug_req_value_q' \in BOOLEAN /\ debug_req_o' \in BOOLEAN
  <2>1. CASE s.reg = "DBG" /\ Accept(s.data)
    BY <2>1, StoreTypes, AcceptTypes
  <2>2. CASE CountDown
    <3>1. debugger_start_cnt_q' \in Nat /\ debug_req_duration_q' \in Nat
      BY <2>2 DEF CountDown, TypeOK
    <3>2. debug_req_value_q' \in BOOLEAN /\ debug_req_o' \in BOOLEAN
      BY <2>2 DEF CountDown, TypeOK
    <3> QED
      BY <3>1, <3>2
  <2> QED
    BY <2>1, <2>2 DEF Edge, tb_debugger
<1> QED
  BY <1>1, <1>2, <1>3, <1>4, <1>5 DEF TypeOK

(* In both builds the registers stay within their widths, and the Sail     *)
(* register never drives a line outside its mask.                          *)
THEOREM TypeCorrect == Spec => []TypeOK
<1> QED
  BY InitTypes, StepTypes, PTL DEF Spec

-----------------------------------------------------------------------------
(***************************************************************************)
(* Setting the timer.  MtimeAsSet speaks of the end of the sequence only;  *)
(* what makes it true is what is known of the two halves on the way: the   *)
(* low half counts the edges since it was cleared, so it tells when the    *)
(* carry comes, and the high half holds what was stored.                   *)
(***************************************************************************)
SettingType ==
    [step : {"none", "cleared", "high", "set"}, edges : 0 .. HALF - 1,
     hi : 0 .. HALF - 1, time : 0 .. HALF * HALF - 1]

HalvesInv ==
    /\ setting \in SettingType
    /\ setting.step \in {"cleared", "high"} => mtime_q.lo = setting.edges
    /\ setting.step = "high" => mtime_q.hi = setting.hi
    /\ setting.step = "set" => Value(mtime_q) = setting.time

(* The whole counter wraps to zero. *)
LEMMA WrapInTime ==
    ASSUME mtime_q \in Register, Value(mtime_q) = HALF * HALF - 1
    PROVE  Value(mtime_next) = 0
<1>1. HALF \in Nat \ {0}
  BY PeripheralsAssumption
<1> DEFINE lo == mtime_q.lo
           hi == mtime_q.hi
<1>2. lo \in 0 .. HALF - 1 /\ hi \in 0 .. HALF - 1
  BY DEF Register
<1>3. mtime_next.lo = (lo + 1) % HALF
      /\ mtime_next.hi = (hi + (IF lo = HALF - 1 THEN 1 ELSE 0)) % HALF
  BY NextType
<1>4. hi * HALF + lo = HALF * HALF - 1
  BY DEF Value
<1> HIDE DEF lo, hi
<1>5. hi = HALF - 1
  <2>1. CASE hi <= HALF - 2
    <3>1. hi * HALF <= (HALF - 2) * HALF
      BY <1>1, <1>2, <2>1
    <3>2. (HALF - 2) * HALF = HALF * HALF - 2 * HALF
      BY <1>1
    <3>3. hi * HALF \in Int /\ HALF * HALF \in Int
      BY <1>1, <1>2
    <3> QED
      BY <1>1, <1>2, <1>4, <3>1, <3>2, <3>3
  <2> QED
    BY <1>1, <1>2, <2>1
<1>6. lo = HALF - 1
  <2>1. (HALF - 1) * HALF = HALF * HALF - HALF /\ HALF * HALF \in Int
    BY <1>1
  <2> QED
    BY <1>1, <1>2, <1>4, <1>5, <2>1
<1>7. mtime_next.lo = 0 /\ mtime_next.hi = 0
  BY <1>1, <1>2, <1>3, <1>5, <1>6, CountMod
<1> QED
  BY <1>1, <1>7 DEF Value

(* A register's value is a number of its width, and every edge adds one to *)
(* it modulo that width.                                                   *)
LEMMA ValueType ==
    ASSUME NEW r \in Register
    PROVE  Value(r) \in 0 .. HALF * HALF - 1
<1>1. HALF \in Nat \ {0}
  BY PeripheralsAssumption
<1>2. r.lo \in 0 .. HALF - 1 /\ r.hi \in 0 .. HALF - 1
  BY DEF Register
<1>3. r.hi * HALF <= (HALF - 1) * HALF /\ r.hi * HALF \in Nat
  BY <1>1, <1>2
<1>4. (HALF - 1) * HALF = HALF * HALF - HALF /\ HALF * HALF \in Int
  BY <1>1
<1> QED
  BY <1>1, <1>2, <1>3, <1>4 DEF Value

LEMMA CountsOn ==
    ASSUME mtime_q \in Register
    PROVE  Value(mtime_next) = (Value(mtime_q) + 1) % (HALF * HALF)
<1>1. HALF * HALF \in Nat \ {0}
  BY PeripheralsAssumption
<1>2. Value(mtime_q) \in 0 .. HALF * HALF - 1
  BY ValueType
<1> DEFINE v == Value(mtime_q)
           M == HALF * HALF
<1>3. (v # M - 1 => Value(mtime_next) = v + 1) /\ (v = M - 1 => Value(mtime_next) = 0)
  BY CarryInTime, WrapInTime
<1>4. M \in Nat \ {0} /\ v \in 0 .. M - 1
  BY <1>1, <1>2
<1> HIDE DEF v, M
<1>5. (v # M - 1 => (v + 1) % M = v + 1) /\ (v = M - 1 => (v + 1) % M = 0)
  BY <1>4, CountMod
<1>6. Value(mtime_next) = (v + 1) % M
  BY <1>3, <1>5
<1> QED
  BY <1>6 DEF v, M

(* Each edge keeps what is known of the halves. *)
LEMMA HalvesStep ==
    ASSUME TypeOK, HalvesInv, NEW s \in Store, clint_timer(s)
    PROVE  HalvesInv'
<1>1. HALF \in Nat \ {0}
  BY PeripheralsAssumption
<1>2. s.reg \in {"MTIME", "MTIMEH"} => s.data \in 0 .. HALF - 1
  BY StoreTypes
<1>3. /\ mtime_q.lo \in 0 .. HALF - 1 /\ mtime_q.hi \in 0 .. HALF - 1
      /\ mtime_q \in Register
  BY DEF TypeOK, Register
<1>4. /\ mtime_next \in Register
      /\ mtime_next.lo = (mtime_q.lo + 1) % HALF
      /\ mtime_next.hi = (mtime_q.hi + (IF mtime_q.lo = HALF - 1 THEN 1 ELSE 0)) % HALF
  BY <1>3, NextType
<1>5. /\ mtime_q' = [lo |-> IF s.reg = "MTIME"  THEN s.data ELSE mtime_next.lo,
                     hi |-> IF s.reg = "MTIMEH" THEN s.data ELSE mtime_next.hi]
      /\ setting' = SettingAfter(s)
  BY DEF clint_timer
<1>6. /\ setting.edges \in 0 .. HALF - 1 /\ setting.hi \in 0 .. HALF - 1
      /\ setting.time \in 0 .. HALF * HALF - 1
      /\ setting.step \in {"none", "cleared", "high", "set"}
      /\ setting = [step |-> setting.step, edges |-> setting.edges,
                    hi |-> setting.hi, time |-> setting.time]
  BY DEF HalvesInv, SettingType
<1>7. HALF * HALF \in Nat \ {0} /\ 0 \in 0 .. HALF - 1 /\ 0 \in 0 .. HALF * HALF - 1
  BY <1>1
<1>8. NoSetting \in SettingType /\ NoSetting.step = "none"
  BY <1>7 DEF NoSetting, SettingType
<1>9. CASE setting' = NoSetting
  BY <1>8, <1>9 DEF HalvesInv
<1>10. CASE s.reg = "MTIME" /\ setting.step = "high"
  <2> DEFINE h == (setting.hi + (IF setting.edges = HALF - 1 THEN 1 ELSE 0)) % HALF
  <2>1. setting' = [step |-> "set", edges |-> 0, hi |-> 0, time |-> h * HALF + s.data]
    BY <1>5, <1>10 DEF SettingAfter, NoSetting
  <2>2. mtime_next.hi = h
    BY <1>4, <1>10 DEF HalvesInv
  <2>3. mtime_q'.lo = s.data /\ mtime_q'.hi = h /\ mtime_q' \in Register
    BY <1>2, <1>4, <1>5, <1>10, <2>2 DEF Register
  <2>4. Value(mtime_q') = h * HALF + s.data /\ Value(mtime_q') \in 0 .. HALF * HALF - 1
    BY <2>3, ValueType DEF Value
  <2> HIDE DEF h
  <2>5. setting' \in SettingType
    BY <1>7, <2>1, <2>4 DEF SettingType
  <2>6. setting'.step = "set" /\ Value(mtime_q)' = setting'.time
    BY <2>1, <2>4 DEF Value
  <2> QED
    BY <2>5, <2>6 DEF HalvesInv
<1>11. CASE s.reg = "MTIME" /\ setting.step # "high" /\ s.data = 0
  <2>1. setting' = [step |-> "cleared", edges |-> 0, hi |-> 0, time |-> 0]
    BY <1>5, <1>11 DEF SettingAfter, NoSetting
  <2>2. mtime_q'.lo = 0
    BY <1>5, <1>11
  <2>3. setting' \in SettingType
    BY <1>7, <2>1 DEF SettingType
  <2> QED
    BY <2>1, <2>2, <2>3 DEF HalvesInv
<1>12. CASE s.reg = "MTIMEH" /\ setting.step \in {"cleared", "high"} /\ setting.edges # HALF - 1
  <2>1. setting' = [step |-> "high", edges |-> setting.edges + 1, hi |-> s.data, time |-> 0]
    BY <1>5, <1>12 DEF SettingAfter, NoSetting
  <2>2. mtime_q'.lo = setting.edges + 1 /\ mtime_q'.hi = s.data
    <3>1. mtime_next.lo = setting.edges + 1
      <4>1. mtime_q.lo = setting.edges
        BY <1>12 DEF HalvesInv
      <4> QED
        BY <1>1, <1>3, <1>4, <1>12, <4>1, CountMod
    <3> QED
      BY <1>5, <1>12, <3>1
  <2>3. setting.edges + 1 \in 0 .. HALF - 1
    BY <1>1, <1>6, <1>12
  <2>4. setting' \in SettingType
    BY <1>2, <1>7, <1>12, <2>1, <2>3 DEF SettingType
  <2> QED
    BY <2>1, <2>2, <2>4 DEF HalvesInv
<1>13. CASE s.reg \notin {"MTIME", "MTIMEH"} /\ setting.step = "set"
  <2> DEFINE n == (setting.time + 1) % (HALF * HALF)
  <2>1. setting' = [setting EXCEPT !.time = n]
    BY <1>5, <1>13 DEF SettingAfter
  <2>2. mtime_q' = mtime_next
    BY <1>4, <1>5, <1>13 DEF Register
  <2>3. Value(mtime_q') = n
    BY <1>3, <1>13, <2>2, CountsOn DEF HalvesInv
  <2>4. n \in 0 .. HALF * HALF - 1
    BY <1>6, <1>7, CountMod
  <2> HIDE DEF n
  <2>5. setting' \in SettingType /\ setting'.step = "set" /\ setting'.time = n
    BY <1>6, <1>13, <2>1, <2>4 DEF SettingType
  <2>6. Value(mtime_q)' = n
    BY <2>3 DEF Value
  <2> QED
    BY <2>5, <2>6 DEF HalvesInv
<1>14. CASE /\ s.reg \notin {"MTIME", "MTIMEH"} /\ setting.step \in {"cleared", "high"}
            /\ setting.edges # HALF - 1
  <2>1. setting' = [setting EXCEPT !.edges = setting.edges + 1]
    BY <1>5, <1>14 DEF SettingAfter
  <2>2. mtime_q.lo = setting.edges
    BY <1>14 DEF HalvesInv
  <2>3. mtime_q'.lo = setting.edges + 1 /\ mtime_q'.hi = mtime_q.hi
    BY <1>1, <1>3, <1>4, <1>5, <1>14, <2>2, CountMod
  <2>4. setting.edges + 1 \in 0 .. HALF - 1
    BY <1>1, <1>6, <1>14
  <2>5. /\ setting' \in SettingType /\ setting'.step = setting.step
        /\ setting'.edges = setting.edges + 1 /\ setting'.hi = setting.hi
    BY <1>6, <2>1, <2>4 DEF SettingType
  <2> QED
    BY <1>14, <2>3, <2>5 DEF HalvesInv
<1> QED
  BY <1>5, <1>6, <1>9, <1>10, <1>11, <1>12, <1>13, <1>14 DEF SettingAfter

(* For registers of any width a program that sets the timer with its three *)
(* stores finds it set to exactly that time, one high half ahead only if   *)
(* the last store met the carry, and MTIP follows it from then on.         *)
THEOREM MtimeAlwaysAsSet == Spec => []MtimeAsSet
<1>1. Init => HalvesInv
  <2> SUFFICES ASSUME Init PROVE HalvesInv
    OBVIOUS
  <2>1. HALF \in Nat \ {0} /\ HALF * HALF \in Nat \ {0}
    BY PeripheralsAssumption
  <2>2. 0 \in 0 .. HALF - 1 /\ 0 \in 0 .. HALF * HALF - 1
    BY <2>1
  <2> QED
    BY <2>2 DEF Init, HalvesInv, SettingType, NoSetting
<1>2. TypeOK /\ HalvesInv /\ [Next]_vars => HalvesInv'
  <2>1. ASSUME HalvesInv, UNCHANGED vars PROVE HalvesInv'
    BY <2>1 DEF HalvesInv, vars, clintVars, Value
  <2> QED
    BY <2>1, HalvesStep DEF Next, Edge
<1>3. HalvesInv => MtimeAsSet
  BY DEF HalvesInv, MtimeAsSet, mtip
<1> QED
  BY <1>1, <1>2, <1>3, TypeCorrect, PTL DEF Spec
=============================================================================
