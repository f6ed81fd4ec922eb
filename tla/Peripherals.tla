----------------------------- MODULE Peripherals ----------------------------
(***************************************************************************)
(* The clocked pseudo-peripherals of mm_ram that drive the core's          *)
(* interrupt and debug inputs: the CLINT machine timer, the one-shot       *)
(* interrupt timer, the Sail interrupt generator register, and the         *)
(* debug-request generator.  One step is one rising clock edge, at which   *)
(* the store granted in the cycle that ends, if any, takes effect.         *)
(***************************************************************************)
EXTENDS Integers

CONSTANTS
    VERILATOR,          \* the build: TRUE when compiled with `VERILATOR defined
    HALF,               \* 2^32, the number of values of half a timer register
    Half,               \* values that programs write to one
    Irq,                \* interrupt lines
    Mask,               \* sets of lines that programs write
    SIG_ALLOWED_MASK,   \* the lines the Sail register may drive
    TIMER_MAX,          \* the longest one-shot delay programmed
    DEFAULT_RANGE,      \* the range of a random count given as 0 (128)
    DebugCommand        \* the words programs write to the debug register

(* The fields of a debug command word. *)
DebugCommandType ==
    [value : BOOLEAN, pulse : BOOLEAN, rnd_duration : BOOLEAN, duration : Nat,
     rnd_start : BOOLEAN, start : Nat]

ASSUME PeripheralsAssumption ==
    /\ VERILATOR \in BOOLEAN
    /\ HALF \in Nat \ {0} /\ Half \subseteq 0 .. HALF - 1
    /\ SIG_ALLOWED_MASK \subseteq Irq /\ Mask \subseteq SUBSET Irq
    /\ TIMER_MAX \in Nat /\ DEFAULT_RANGE \in Nat \ {0}
    /\ DebugCommand \subseteq DebugCommandType

VARIABLES
    mtime_q, mtimecmp_q,            \* the halves of the CLINT registers
    setting,                        \* history: how far a program is in setting mtime
    timer_irq_mask_q, timer_cnt_q, irq_q,
    sig_platform_q,
    debugger_start_cnt_q, debug_req_value_q, debug_req_duration_q, debug_req_o,
    request,                        \* history: the last debug command accepted,
    age                             \* and the clock edges since then

clintVars == <<mtime_q, mtimecmp_q, setting>>
timerVars == <<timer_irq_mask_q, timer_cnt_q, irq_q>>
debugVars == <<debugger_start_cnt_q, debug_req_value_q, debug_req_duration_q,
               debug_req_o, request, age>>
vars == <<clintVars, timerVars, sig_platform_q, debugVars>>

-----------------------------------------------------------------------------

(* The store of a cycle: to which register, and what.  "none" stands for a *)
(* cycle without a granted store to these registers.                       *)
Store ==
    [reg : {"none"}, data : {0}]
    \cup [reg : {"MTIME", "MTIMEH", "MTIMECMP", "MTIMECMPH"}, data : Half]
    \cup [reg : {"TIMERREG"}, data : Mask]
    \cup [reg : {"TIMERVAL"}, data : 0 .. TIMER_MAX]
    \cup [reg : {"SIG_SET", "SIG_CLEAR"}, data : Mask]
    \cup [reg : {"DBG"}, data : DebugCommand]

-----------------------------------------------------------------------------
(* The CLINT machine timer. *)

Value(r) == r.hi * HALF + r.lo

mtip == Value(mtime_q) >= Value(mtimecmp_q)

(* Bug: the halves are counted without the carry between them. *)
mtime_nextMutant == [lo |-> (mtime_q.lo + 1) % HALF, hi |-> mtime_q.hi]

mtime_next ==
    [lo |-> (mtime_q.lo + 1) % HALF,
     hi |-> (mtime_q.hi + (IF mtime_q.lo = HALF - 1 THEN 1 ELSE 0)) % HALF]

(***************************************************************************)
(* A program sets the timer with three stores: 0 to the low half, so that  *)
(* no carry is near, then the high half, then the low half.  What it may   *)
(* expect is computed from its stores and the edges alone:                 *)
(*   cleared   edges have passed since MTIME := 0, and no carry;           *)
(*   high      and MTIMEH := hi was stored meanwhile;                      *)
(*   set       MTIME := l has followed, and time is hi : l and the edges   *)
(*             since then.  If the store met the carry, which edges says,  *)
(*             the high half is one ahead.                                 *)
(* Any other store to mtime, and a carry before the last store, end it.    *)
(***************************************************************************)
NoSetting == [step |-> "none", edges |-> 0, hi |-> 0, time |-> 0]

SettingAfter(s) ==
    LET late == setting.edges = HALF - 1 IN
    IF s.reg = "MTIME" /\ setting.step = "high"
    THEN [NoSetting EXCEPT !.step = "set",
              !.time = ((setting.hi + (IF late THEN 1 ELSE 0)) % HALF) * HALF + s.data]
    ELSE IF s.reg = "MTIME" /\ s.data = 0
    THEN [NoSetting EXCEPT !.step = "cleared"]
    ELSE IF s.reg = "MTIMEH" /\ setting.step \in {"cleared", "high"} /\ ~late
    THEN [NoSetting EXCEPT !.step = "high", !.hi = s.data, !.edges = setting.edges + 1]
    ELSE IF s.reg \in {"MTIME", "MTIMEH"} \/ setting.step = "none"
    THEN NoSetting
    ELSE IF setting.step = "set"
    THEN [setting EXCEPT !.time = (@ + 1) % (HALF * HALF)]
    ELSE IF late THEN NoSetting
    ELSE [setting EXCEPT !.edges = @ + 1]

clint_timer(s) ==
    /\ mtime_q' = [lo |-> IF s.reg = "MTIME"  THEN s.data ELSE mtime_next.lo,
                   hi |-> IF s.reg = "MTIMEH" THEN s.data ELSE mtime_next.hi]
    /\ mtimecmp_q' = [lo |-> IF s.reg = "MTIMECMP"  THEN s.data ELSE mtimecmp_q.lo,
                      hi |-> IF s.reg = "MTIMECMPH" THEN s.data ELSE mtimecmp_q.hi]
    /\ setting' = SettingAfter(s)

(* The one-shot timer; the acknowledge input is tied off. *)
tb_irq_timer(s) ==
    /\ timer_irq_mask_q' = IF s.reg = "TIMERREG" THEN s.data ELSE timer_irq_mask_q
    /\ timer_cnt_q' = IF s.reg = "TIMERVAL" THEN s.data
                      ELSE IF timer_cnt_q > 0 THEN timer_cnt_q - 1
                      ELSE 0
    /\ irq_q' = IF timer_cnt_q = 1 THEN timer_irq_mask_q ELSE irq_q

(* Bug: the reserved bits of the Sail register are not masked. *)
sig_platform_regMutant(s) ==
    LET bits == IF s.reg \in {"SIG_SET", "SIG_CLEAR"} THEN s.data ELSE {}
    IN  sig_platform_q' = IF s.reg = "SIG_SET" THEN sig_platform_q \cup bits
                                               ELSE sig_platform_q \ bits

(* The Sail register: bit 31 says whether the other bits set or clear. *)

sig_platform_reg(s) ==
    LET bits == IF s.reg \in {"SIG_SET", "SIG_CLEAR"} THEN s.data \cap SIG_ALLOWED_MASK ELSE {}
    IN  sig_platform_q' = IF s.reg = "SIG_SET" THEN sig_platform_q \cup bits
                                               ELSE sig_platform_q \ bits

-----------------------------------------------------------------------------
(* The debug-request generator. *)

(* A count given in a command: itself, or for 0 the default. *)
OrDefault(n, default) == IF n = 0 THEN default ELSE n

StartCounts(c) ==
    IF ~c.rnd_start THEN {OrDefault(c.start, 1)}
    ELSE IF VERILATOR THEN {1}
    ELSE 1 .. OrDefault(c.start, DEFAULT_RANGE)

Durations(c) ==
    IF ~c.pulse THEN {0}
    ELSE IF ~c.rnd_duration THEN {OrDefault(c.duration, 1)}
    ELSE 1 .. OrDefault(c.duration, DEFAULT_RANGE)

(* A command is accepted when both counters have run out.  Built with      *)
(* Verilator, a random duration sets the start count instead of the        *)
(* duration.                                                               *)
Accept(c) ==
    /\ IF VERILATOR /\ c.pulse /\ c.rnd_duration
       THEN debugger_start_cnt_q' = 1 /\ UNCHANGED debug_req_duration_q
       ELSE /\ debugger_start_cnt_q' \in StartCounts(c)
            /\ debug_req_duration_q' \in Durations(c)
    /\ debug_req_value_q' = c.value
    /\ UNCHANGED debug_req_o
    /\ age' = 0
    /\ request' = [pulse |-> c.pulse, value |-> c.value, before |-> debug_req_o,
                   start |-> debugger_start_cnt_q', duration |-> debug_req_duration_q']

(* Bugs: the duration counts down along with the start delay; the end of   *)
(* the pulse leaves debug_req_o as it is.                                  *)
CountDownMutant ==
    /\ debugger_start_cnt_q' = IF debugger_start_cnt_q > 0 THEN debugger_start_cnt_q - 1 ELSE 0
    /\ debug_req_duration_q' = IF debug_req_duration_q > 0 THEN debug_req_duration_q - 1 ELSE 0
    /\ debug_req_o' = IF debugger_start_cnt_q = 1 THEN debug_req_value_q
                      ELSE IF debug_req_duration_q = 1 THEN ~debug_req_value_q
                      ELSE debug_req_o
    /\ UNCHANGED debug_req_value_q

StuckMutant ==
    /\ debugger_start_cnt_q' = IF debugger_start_cnt_q > 0 THEN debugger_start_cnt_q - 1 ELSE 0
    /\ debug_req_duration_q' = IF debugger_start_cnt_q = 0 /\ debug_req_duration_q > 0
                               THEN debug_req_duration_q - 1
                               ELSE debug_req_duration_q
    /\ debug_req_o' = IF debugger_start_cnt_q = 1 THEN debug_req_value_q ELSE debug_req_o
    /\ UNCHANGED debug_req_value_q

(* The start delay counts down first, and then the duration. *)
CountDown ==
    /\ IF debugger_start_cnt_q > 0
       THEN /\ debugger_start_cnt_q' = debugger_start_cnt_q - 1
            /\ debug_req_o' = IF debugger_start_cnt_q = 1 THEN debug_req_value_q ELSE debug_req_o
            /\ UNCHANGED debug_req_duration_q
       ELSE /\ UNCHANGED debugger_start_cnt_q
            /\ debug_req_duration_q' = IF debug_req_duration_q > 0
                                       THEN debug_req_duration_q - 1
                                       ELSE debug_req_duration_q
            /\ debug_req_o' = IF debug_req_duration_q = 1 THEN ~debug_req_value_q ELSE debug_req_o
    /\ UNCHANGED debug_req_value_q

(* The age stops at the end of the waveform. *)
Aged == IF age < request.start + request.duration THEN age + 1 ELSE age

tb_debugger(s) ==
    IF s.reg = "DBG" /\ debugger_start_cnt_q = 0 /\ debug_req_duration_q = 0
    THEN Accept(s.data)
    ELSE CountDown /\ age' = Aged /\ UNCHANGED request

-----------------------------------------------------------------------------

Init ==
    /\ mtime_q = [lo |-> 0, hi |-> 0]
    /\ mtimecmp_q = [lo |-> HALF - 1, hi |-> HALF - 1]
    /\ setting = NoSetting
    /\ timer_irq_mask_q = {} /\ timer_cnt_q = 0 /\ irq_q = {}
    /\ sig_platform_q = {}
    /\ debugger_start_cnt_q = 0 /\ debug_req_value_q = FALSE
    /\ debug_req_duration_q = 0 /\ debug_req_o = FALSE
    /\ request = [pulse |-> FALSE, value |-> FALSE, before |-> FALSE,
                  start |-> 0, duration |-> 0]
    /\ age = 0

Edge(s) ==
    /\ clint_timer(s)
    /\ tb_irq_timer(s)
    /\ sig_platform_reg(s)
    /\ tb_debugger(s)

Next == \E s \in Store : Edge(s)

(* The clock never stops; nothing is assumed of the program. *)
Spec == Init /\ [][Next]_vars /\ WF_vars(Next)

-----------------------------------------------------------------------------

Register == [lo : 0 .. HALF - 1, hi : 0 .. HALF - 1]

(* TypeOK: registers stay in their widths, and the Sail register never     *)
(* drives a line outside its mask.                                         *)
TypeOK ==
    /\ mtime_q \in Register /\ mtimecmp_q \in Register
    /\ timer_irq_mask_q \subseteq Irq /\ irq_q \subseteq Irq
    /\ timer_cnt_q \in 0 .. TIMER_MAX
    /\ sig_platform_q \subseteq SIG_ALLOWED_MASK
    /\ debugger_start_cnt_q \in Nat /\ debug_req_duration_q \in Nat
    /\ debug_req_value_q \in BOOLEAN /\ debug_req_o \in BOOLEAN

(***************************************************************************)
(* MtimeAsSet: whatever mtime held before, and whichever of the stores met *)
(* a carry, a program that has set the timer with its three stores reads   *)
(* the time it has set plus the clock edges since, over every later carry, *)
(* and MTIP is up exactly while that time has reached mtimecmp.  Only a    *)
(* last store in the very cycle of the carry leaves the timer one high     *)
(* half ahead.                                                             *)
(***************************************************************************)
MtimeAsSet ==
    setting.step = "set" =>
        /\ Value(mtime_q) = setting.time
        /\ mtip <=> setting.time >= Value(mtimecmp_q)

(***************************************************************************)
(* DebugWaveform: debug_req_o follows the accepted command exactly: it     *)
(* keeps its value for the start delay, then has the commanded one, for    *)
(* the duration if it is a pulse, and then the opposite; commands written  *)
(* while the counters run do not disturb it.                               *)
(***************************************************************************)
DebugWaveform ==
    debug_req_o = IF age < request.start THEN request.before
                  ELSE IF age < request.start + request.duration \/ ~request.pulse
                  THEN request.value
                  ELSE ~request.value

(***************************************************************************)
(* PulseEnds: a debug request made as a pulse is withdrawn again.          *)
(***************************************************************************)
PulseEnds == request.pulse /\ request.value ~> ~debug_req_o

(***************************************************************************)
(* WriteHasPriority: a store to the low half of mtime takes the place of   *)
(* the increment of that cycle, so the high half keeps its value (here for *)
(* the store that begins a setting of the timer).                          *)
(***************************************************************************)
WriteHasPriority ==
    [][setting'.step = "cleared" /\ setting'.edges = 0 => mtime_q'.hi = mtime_q.hi]_vars

=============================================================================
