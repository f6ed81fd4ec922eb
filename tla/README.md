# TLA+ models of the CV32E40X verification environment

`cv32e40x-dv` is the test bench of the CV32E40X core: a behavioural memory and
peripheral model (`tb/core`), a UVM environment and tests (`env/uvme`,
`tests/uvmt`), assertions (`tb/uvmt`, `tb/assertions`), random program
generation (`env/corev-dv`) and the scripts around them (`bin`, `sim`, `mk`).
The core itself and the UVM agents live in submodules that are not in the tree.

A test bench is trusted to judge another design, so its own errors are quiet: a
lost response looks like a hang of the core, a scoreboard that forgets an
address looks like a pass. This directory models the parts of the bench that
keep state over time and in which several clocked processes or monitors meet.

## Inventory

| Component | State | Operations | What makes it correct |
|---|---|---|---|
| OBI grant staller (`riscv_gnt_stall.sv`) | delay count, registered req and grant | a clock edge; delay drawn per request | no request is refused longer than programmed, in either build |
| OBI response staller (`riscv_rvalid_stall.sv`) | ring buffer with delay and data per entry, three pointers | push at a grant, capture of read data, countdown, pop | one response per transfer, in order, with its own data; no overflow although there is no backpressure |
| `mm_ram` data port, `dp_ram` | RAM, registered read data, mux select, LR/SC reservation, AMO capture | granted load, store, LR, SC, AMO, device access | behaves as an atomic memory with in-order responses |
| `mm_ram` instruction port | read data, remap of the debug window | granted fetch | returns the RAM word (shares both stallers with the data port) |
| `mm_ram` pseudo-peripherals | CLINT mtime/mtimecmp, one-shot timer, Sail interrupt register, debug-request counters, stall registers | stores, one clock edge | interrupt and debug inputs follow the commanded waveform |
| random interrupt generator (`riscv_random_interrupt_generator.sv`) | mode, programmed and random lines, PC trigger | clock edge, monitor of PC and acknowledge | one source drives the lines; a raised line stays until acknowledged |
| bus-error scoreboard (`uvme_cv32e40x_buserr_sb.sv`) | counters, pending NMI, queues of err and ok addresses | `write_obid`, `write_obii`, `write_rvfi`, `check_phase` | accuses exactly the retirements that were fetched with an error; NMIs balance and come in time |
| test status and verdict (`uvmt_cv32e40x_tb.sv`, base and firmware test, status sequences) | status flags, their copies in the configuration database, phase, error counts | status writers, clock copies, run phase, watchdog, final phase, final block | passes only when a test signalled success; a signalled test ends |
| support logic (`tb/uvmt/support_logic`) | outstanding counters, request FIFOs, recorded attributes | clock edge | the attributes assertions see belong to the response they are about |
| PMA model (`uvmt_cv32e40x_pma_model.sv`) | none | address to attributes | first matching region wins |
| virtual sequences (`env/uvme/vseq`) | noise and timeout processes | waits, writes, forks | they do not end or disturb a test by themselves |
| core scoreboard (`uvme_cv32e40x_core_sb.sv`) | - | - | dead code: no package includes it |
| environment construction, configuration | UVM objects | build, randomize | no behaviour over time |
| assertions and coverage | SVA, covergroups | - | statements about the core, which is not in the tree |
| program generation, board support, programs | - | - | run on the core |
| regression generator (`cv_regress`, `cv_regression.py`, `regress_*.j2`) | regressions of builds and tests, unique builds; in the generated script the counts; on disk images and logs | read and validate a testlist, merge, render; build, run, grep the log, exit | no run lost in a merge, each judged by its own log, a failure fails the script |
| Embench runner (`run_embench.py`) | the Embench tree, its logs, the published tests; exit status | set up, build, publish, run, judge | a step that failed never ends in a success, and nothing of an earlier invocation stands in for it |
| RISCOF plugins (`sim/riscof/{cv32e40x,spike,sail_cSim}`) | isa strings, generated Makefiles, programs and signatures per test | construct, build, `runTests`, parallel recipes | a pass rests on the test's own programs; failures stay with their test; a session ends |

Interactions: the core's request passes the grant multiplexer of `mm_ram`, which
either grants at once or hands over to the grant staller; the granted transfer is
decoded in the same cycle, acts on `dp_ram` or a peripheral register, and is
pushed into the response staller, which captures the read data one cycle later
and presents it after a random delay. Stores to one window reprogram both
stallers of both channels. The peripherals drive the core's interrupt and debug
inputs. OBI and RVFI monitors call the scoreboard in whatever order they see
things. The program, the signature sequence and two timeout sequences write one
status record, which the test bench copies at clock edges, the test waits on by
level, and the final phase reads. Outside the simulator, three script flows decide
what a run of many tests is worth: `cv_regress` renders testlists into a script
that makes, runs and greps; `run_embench.py` drives the Embench scripts; RISCOF
calls two plugins whose signatures it compares. They talk to their tools through
directories that outlive them.

What is hard to test here: two builds (a simulator and Verilator) in which the same process
samples different cycles; blocking and non-blocking assignments to the same array
at one edge; a buffer whose only protection from overflow is a property of the
core; registers reprogrammed while transfers are under way; an
atomic operation whose response is delayed past later accesses; 64-bit counters
written in halves; events delivered out of order by different monitors; a
timeout that races the end of a test; and, in the scripts, calls whose status
nobody looks at, exceptions that are only logged, files that an earlier or killed
run left behind, and recipes that run in parallel. `PROJECT.json` lists these hazards line by
line with the properties aimed at each.

## Modules

One step of every hardware module is one rising clock edge; a register's primed
value is what its `always_ff` block assigns, a combinational signal is an
operator of the unprimed state. One step of the UVM modules is one call of an
analysis port, one store, one clock edge or one phase. One step of the script
modules is one call of a tool with the code up to the next call.

| Module | Models |
|---|---|
| `StallKnobs` | meaning of a channel's stall registers: which delays they allow |
| `Words` | data words of `XLEN` bits |
| `GntStall` | `riscv_gnt_stall` in both builds, the grant multiplexer, and a requester that holds its request |
| `ResponseQueue` | abstract: an in-order channel that owes one response per accepted transfer |
| `RvalidStall` | `riscv_rvalid_stall`, with the core's count of outstanding transfers |
| `AmoAlu` | the AMO function on words, with signed comparison and bitwise operations |
| `ObiMemory` | abstract: an atomic memory with reservations on a `ResponseQueue` |
| `MmRamPort` | the data port: extends `GntStall` and `RvalidStall`, whose edges are conjuncts of its clock edge, and adds `dp_ram`, decode, reservation, AMO capture, read mux, stall registers |
| `Peripherals` | CLINT timer, one-shot timer, Sail register, debug-request generator in both builds |
| `BusErrSb` | the bus-error scoreboard, its index arithmetic included |
| `TestVerdict` | status writers, copies, run phase, watchdog, final phase, verdict |
| `RunEmbench` | `run_embench.py` over several invocations on one tree, with `clean_embench` |
| `CvRegress` | `cv_regress` and its library, the shell script it renders, what the Vmanager session contains, repeated sessions |
| `Riscof` | the three RISCOF plugins, the recipes they generate, and the framework around them |
| `StallProofs` | theorems about `GntStall` and `RvalidStall` |
| other `*Proofs` | theorems about the module they extend |
| `MC*` | instances for TLC |

Correspondence, where it is not one name for one name:

* **GntStall.** `GrantProcess` is the `always` block at lines 97-135, its three
  disjuncts the three branches. `#(100ps)` makes a simulator see the request of
  the new cycle; Verilator drops the delay, so the block sees the old one. `GntEdge`
  passes primed or unprimed signals accordingly. `waited` is a history variable. `GntInit` has no request: the
  core raises its first request after an edge out of reset. The stall registers may change at
  any edge, which is how the other channel's stores look from here.
* **RvalidStall.** The slots are updated in the order of the assignments of an
  edge (`Pushed`, `Captured`, `CountedDown`). Two registers have no
  reset, so `FifoInit` lets them have any value. A slot's unused fields of address
  and byte enables are dropped. The limit `MAX_OUTSTANDING` on the core's
  transfers is external; nothing in the module itself keeps the buffer from
  overflowing (`fifo_full` is computed and not used).
* **MmRamPort.** The stallers' variables are those of their own modules: `req_core_i` is the
  core's `data_req_i`, `rdata_i` the wire from the read mux. Word addresses; the debug window lies above the RAM and is
  remapped to its end as `data_addr_dec` does, while `amo_mem_addr` is cut as the
  code cuts it. One address stands for all peripherals: reading it gives any
  word of `DevData`, storing to it may reprogram the stall registers. The data and address
  are those of the present cycle: the decode is combinational with the grant.
* **Peripherals.** `Store` is the decoded store of the cycle, at most one.
  Interrupt lines are sets. `request` and `age` remember the command accepted last and the edges since.
  `setting` follows a program that sets the timer with three stores (0 to the low half, the
  high half, the low half): it is computed from the stores and the edges alone, never from `mtime_q`.
* **BusErrSb.** Addresses are words, program counters half-words, and both wrap
  as 32-bit values do. `err_addrs` is the SystemVerilog queue written at the
  index of another queue: an index beyond the end is ignored by the language.
  `errors` is the set of assertion messages reported. Warnings are left out.
* **TestVerdict.** `vp` is the interface, `db` the configuration database. The
  program has at most one store per clock; the timeouts write at any time. The run phase is a location and a count of edges left.
* **RunEmbench.** A call of `subprocess.run` ends well, ends with a status the
  script ignores, or raises. `res` is `Unbound` until the build's result is
  assigned, and stays so after an exception. A build is named by the invocation
  that made it, so `results` and `elf` tell from which build a program comes.
  `Kill` is allowed between any two calls, and `CleanEmbench` (a make target)
  between invocations, all of it or its first command only. What Embench's own scripts do
  is external: a build that reports success has replaced every program. `faulty`
  is history.
* **CvRegress.** A testlist is what `yaml.load` returns. Test names are numbers in the
  order of the strings; a missing key or option is `None`. `Build` and `Test` give the
  object as it is after `read_file` has applied the options to it. The script is one step per build
  and per test command, its runs taken in the order of the template's loops
  (`Before`). `MadePath` is where make puts the logs of a run (for compliance tests the directory
  of `uvmt.mk:284`), `Log` and `compliance_diff_log` are where the script looks for them, both branches of
  the key `results` included. `sh_commands` and `vsif_commands` are the test commands the two templates
  render, with CFG, COV, index and the test's own `makearg`. A simulation passes, fails or does not start (and leaves an old log); `images`, `good_logs`
  and `good_diffs` survive a session. Not modelled: `precmd`, `--make` (text
  only), a test's own `log` name, the metrics output. `results`, where given, names the directory
  make writes to.
* **Riscof.** `side` is whose turn it is; `model` the plugin that has it. A recipe
  is a chain of commands joined by `;`, so each runs whatever became of the
  one before: `Compile`, `MakeHex` (cv32e40x only), `Simulate`, `CleanUp` (cv32e40x only). A program remembers
  the test, session and isa string it was compiled from, a signature also whether the machine that
  wrote it had compressed instructions (`Rvc`): sail has them unless no letter c occurs in the isa
  string, spike if its `--isa` has C, the core always. The last command's status is the target's: a
  `CleanUp` that fails stops make, as a failing simulation does on the reference's side. sail's docker variant is modelled by the
  directories it must be able to make. The framework (order of calls, comparison,
  make's job slots, its timeout) is external.

## Runs

| Run | Checks | Instance |
|---|---|---|
| `gnt_stall` | `WaitBounded`, `Granted` | Verilator build, all settings with enables 0-2, modes 1-3 and delays 0-2 |
| `rvalid_stall` | `CountsAgree`, refinement `InOrderResponses`, `EveryResponseComes` | two slots, both used, random delays 0-4 of which the code keeps two bits, one-bit words |
| `data_port` | `CountsAgree`, refinement `AtomicMemory` | two words of one bit, one of them also reached through the debug window; stalls off or random, switched at run time |
| `peripherals` | `DebugWaveform`, `MtimeAsSet`, `PulseEnds` | simulator build, timers of two two-bit halves written with 0 and 3, levels, fixed and random pulses |
| `buserr_sb` | `ErrQueueIsLatest`, `NmisBalance`, `LateNmiReported` | three words, 2 data transfers, 3 fetches, 4 retirements |
| `verdict` | `PassIsEarned`, `SignalledRunEnds` | two start-up and two drain clocks, two errors abort |
| `embench` | `StatusIsEarned`, `OnlyPassedBuildsPublished`, `PublishedIsFresh` | two benchmarks, two support files, three invocations of either type, build-only or not, or rejected |
| `regress` | `NothingLost`, `PassIsReal`, `FailureCounted`, `GoodRunsPass`, `VsifAsAsked` | twelve command lines over testlists that share names, with overrides, `makearg`, compliance tests with and without `results`, refused ones among them; three sessions |
| `riscof` | `PassedIsReal`, `SameMachine`, `FailuresContained`, `SessionEnds` | three tests, two of one file name, two jobs, twelve configurations, two sessions |
| `debug_pulse_verilator`, `buserr_lost`, `regress_merge` | one property each, violated | see Findings |

Each passing run also checks the module's type invariant.

Why the bounds are enough. The stallers compare their counters with 0 and 1
only, so delays 0, 1 and 2 show every case, a delay of 4 is one that the cut to two bits (four in the code) changes, and the proofs lift the limit. Two slots make the
pointers wrap with full occupancy. Two RAM words
distinguish a reserved word from another; one data bit is enough for
`AtomicMemory`, since data are only moved and the AMO used (ADD) changes every
bit it is given. Halves of two bits make the carry between them and the wrap of the whole
happen within a few edges, and leave room for the three stores that set the timer before the carry,
in its very cycle and after it. In the scoreboard three words give a queue with an entry
before and behind an acquitted one; the real window of three fetches and the
limit of two retirements are reduced to 2 and 1 so that both are reached and
exceeded. In the verdict two clocks per wait allow a write before, during
and after each of them. Three invocations of `run_embench.py` are needed to set up,
spoil and trust the tree. In `regress` one session can leave images and logs, a
second overwrite them, and a third find both; the testlists have the shapes of
`regress/*.yaml`: `build` and `builds`, a build twice in effect, a name in two
files, compliance tests, `makearg`. In `riscof` two jobs are enough for two recipes to interleave at every
command, and two sessions for one to find the other's files.

Deadlock is not checked in `buserr_sb`, `verdict`, `embench`, `regress` and `riscof`: all have an end
(`check_phase`, the verdict, the last invocation or session). `buserr_sb` also stops at its transfer bounds.

Fairness. `GntStall`, `RvalidStall` and `Peripherals` assume that the clock never
stops. Both stallers need nothing else: no fairness of the random draws and none of the program. In `TestVerdict` time advances and
the simulator runs the phases it has begun; nothing is assumed of the
program, the checkers or the watchdog, so `SignalledRunEnds` does not rest on
the watchdog. `Riscof` assumes that the framework goes on and that the timeout it
passes to make fires; compilers and simulators may hang for ever, so `SessionEnds`
rests on the timeout alone, and on its kill reaching the recipes. `MmRamPort`, `RunEmbench` and `CvRegress` state safety only.

## Findings

* `debug_pulse_verilator`: under Verilator a pulse of random duration sets the
  start count in place of the duration (`mm_ram.sv:899`) and is never withdrawn.
* `buserr_lost`: one acquitted address in the err queue hides every
  address behind it (`uvme_cv32e40x_buserr_sb.sv:268`).
* `regress_merge`: of two builds with one name in two testlists the script makes
  the first only (`cv_regress:233`), and runs the second file's tests with
  `COMP=0` under a configuration that was never compiled. `uvmt_cv32e40x` differs in this way
  between `cv32e40x_compliance.yaml` and `cv32e40x_ci_check.yaml`.

Four more configurations show, each for one property, where the code departs from a comment of
its own. They are kept beside the runs and end with a counterexample too:

* `MCMmRamPortDebug.cfg` (`MCMmRamPort`, `AmoReadsItsTarget`): an AMO to the debug
  window takes its old word from the address without the remap (`mm_ram.sv:288`) and
  writes the remapped one.
* `MCPeripheralsMtime.cfg` (`MCPeripherals`, `WriteHasPriority`): a store to the low
  half of `mtime` in the cycle of a carry still increments the high half
  (`mm_ram.sv:722`), though the comment at 714 gives the write priority.
* `MCTestVerdictExit.cfg` (`MCTestVerdict`, `ExitValueChecked`): a nonzero exit value
  is overwritten by a timeout's or the signature writer's zero before the
  final phase reads it (`uvmt_cv32e40x_tb.sv:1287`).
* `MCRunEmbenchConfig.cfg` (`MCRunEmbench`, `SupportMatchesType`): a size invocation
  after a speed one builds with the support files, a speed invocation after a size one
  without them, because the set-up is skipped once a configuration exists
  (`run_embench.py:93`); the comment at 124-125 and `tests/embench/README.md:31` say
  that size is built without and speed with them.

Met while modelling, and visible in the models without a property of their own: a
missed Embench target only prints a line, although the option's help says that the
run will fail; the signature log of a compliance test is looked
for under the option `--cfg` (`regress_sh.j2:117`), without it in a directory `None`, and
without the key `results` in `<log>_<index>` (`regress_sh.j2:119`), which `uvmt.mk:284` never
writes, so that such tests cannot pass (`GoodRunsPass` excepts them); the Vmanager session passes a
test's `makearg` to make (`regress_vsif.j2:80`) and the script does not (`regress_sh.j2:94`), so that
the tests at `cv32e40x_ci_check.yaml:71` and `cv32e40x_rel_check.yaml:105` run with random stalls from
the script only (`VsifAsAsked` states the difference); sail's `-C` is decided by a letter c anywhere
in the isa string (`riscof_sail_cSim.py:190`), which `zicsr` has, so that the reference of an isa
without C still runs with compressed instructions (`SameMachine` checks the isas with C); a simulation that does not start is judged by
the log of an earlier session (`regress_sh.j2:43`); with `target_run=0` the cv32e40x and
sail plugins go on to the comparison where spike's exits.

## Proofs

TLAPS proves, for every value of the constants that satisfies the named
assumptions:

* **`StallProofs`**, grant staller (`BuildAssumption`, `KnobsAssumption`,
  `MaxStallAssumption`: delays are bounded by `MAX_STALL`): `GntTypeOK` and `WaitBounded`, for
  both builds. `WaitBounded` is not inductive: it says nothing of the counter.
  `DelayInv` adds that while a request is held the count left plus the cycles
  waited stays within the limit and the count is at least 1, so that the
  comparison with 1 cannot be stepped over.
* **`StallProofs`**, response staller (`FifoAssumption`: any depth and delay range, a core
  limit no greater than the depth; any width): `RvalidTypeOK`, `CountsAgree` and the
  refinement `InOrderResponses`. Pointers count modulo twice the depth, so
  their difference is the exact number of entries as long as it does not exceed
  the depth; that is where the core's limit enters. For the refinement `EntryKept`
  and `EntryPushed` say what an edge does to the response a slot stands for, be its
  data stored or still on the RAM's output, and `OwedAfterEdge` that the owed
  sequence loses the presented response and gains the accepted one.
  The theorems are about `GntSafety` and `RvalidSafety`, the specifications
  without fairness, so that the port inherits them.
* **`MmRamPortProofs`** (`PortAssumption`: the RAM below the debug window, addresses in either;
  all assumptions of the stallers): `TypeOK`, `CountsAgree`, and `AtomicMemory` under
  `AtomicsNotAliased`, which says that no word used by LR, SC and AMO has a
  second address: in the debug window the code compares and reads without its remap, and the property is false
  there (`MCMmRamPortDebug.cfg`). The invariant `PortInv` is what the stallers
  keep by themselves, plus `RequestReal` (a request was made below the limit
  and still is: the count only falls while it is held) and `ReservationReal`. With
  it an edge of the port is an edge of each staller (`StallersCompose`), from which
  `WaitBounded` and `InOrderResponses` follow for the port. For `AtomicMemory` one lemma
  each says what is answered (`PortAnswers`), read (`PortReads`), written (`PortWrites`) and
  reserved (`PortReserves`), and `PortPerforms` puts them together kind by kind.
  `AluType` shows that the AMO unit stays within `XLEN` bits.
* **`BusErrSbProofs`**: `NmisBalance` and `LateNmiReported`, by an invariant that
  adds that the late count is zero while no NMI is owed. Without it a new
  err could inherit an old count. `TypeOK` and `ErrQueueIsLatest`: the queue has each address
  once, so that deleting the first match (`DeleteFirst`) removes the word, and pushing it
  afterwards (`PushWord`) makes it the latest again.
* **`TestVerdictProofs`**: `PassIsEarned`, for every clock count and quit count.
  The verdict is two copies away from the flags; the invariant says that
  the database never runs ahead of the flags, agrees with them from the edge that ends
  the run phase, and that an error count of zero after the final phase means
  that the copied status was good. `TypeOK` is part of it.
* **`PeripheralsProofs`** (simulator build only; the other one violates it):
  `DebugWaveform`, for every command. The invariant ties the two counters to the
  age of the command: what is left of the start delay, then of the duration. For both builds and
  any width of a half: `TypeOK` and `MtimeAsSet`. The latter speaks of the last store only; `HalvesInv`
  adds what the first two leave behind: the low half is the number of edges since it was cleared and the
  high half is the one stored, as long as no carry has come. The arithmetic is `CarryInTime` and
  `WrapInTime`: the two halves together count by one, short of the wrap and over it.
* **`RunEmbenchProofs`** (`EmbenchAssumption`: command lines have their type; any
  suite, any number of invocations): `TypeOK`, `StatusIsEarned`,
  `OnlyPassedBuildsPublished`, `PublishedIsFresh`. The last two are about files
  and the first about an exit status, and none is inductive: `BuiltInv` says that past the
  check of the build this invocation is among the successful ones and its results are all its
  own, `PublishInv` that while folders are published each one is either still in the
  loop's list or has its directory and this build's program, `OwnInv` that past the arguments
  they are valid, and that `res` is unbound until this invocation's own build returns.
* **`CvRegressProofs`** (`RegressAssumption`; any testlists and command lines):
  `FailureCounted`, `GoodRunsPass`, `NothingLost`, `PassIsReal`, `VsifAsAsked` and `TypeOK`. `ReadInv` says that the regressions read so far
  are well formed: every build a test names is defined in its own file and, with
  `--cfg`, has that configuration, which is what makes the two ways of finding a
  signature log agree. `ScriptInv` relates the counts to the history: a
  failure so far means a positive `fail_count`, a smooth session a zero one.
  `ListInv` says that the regressions read are what their testlists say, loop by loop;
  `CountInv` that the counts and the pending runs add up to all runs; `LogInv` that while
  nothing has failed every run made has a good log, its own or that of a later run
  of the same name, whose check would have failed otherwise. `VsifAsAsked` compares both renderings with
  the testlists themselves: `RunAsWanted` takes each run of the script to an entry of a testlist and back,
  `VsifRuns` each command of the Vmanager session, which loops over builds first, to a run.
* **`RiscofProofs`** (`RiscofAssumption`; any tests, jobs and configurations):
  `PassedIsReal` by `Shape` (types of the directories), `FilesOwn` (in a clean session each file
  comes from its own test and this session, whatever interleaving of recipes) and `ReportLast` (results are
  there only after the comparison); `FailuresContained` by an
  invariant on `Stopped`: a cv32e40x recipe fails by its `rm` only, which comes last, and spike's make has `-k`.
  `TypeOK`; and `SameMachine` by `MachInv`, which follows the isa string from the constructors
  into every program and signature of this session, by `IsaSpells`: both ways of putting the string together
  spell exactly the extensions of the isa yaml, in whatever order, and by `RvcWithC`: with C among them every
  plugin's machine has compressed instructions.

Every invariant, action property and refinement of the runs is proved. Only
model-checked are the liveness properties (`Granted`, `EveryResponseComes`, `PulseEnds`,
`SignalledRunEnds`, `SessionEnds`), for which the prover has no rules.

Where a proof needs induction over data (the powers of two, the sum of the bits of a
word, the loop that collects unique builds), the library's induction theorems cannot be
instantiated; the proofs take a least counterexample instead (`WFMin`, in the lemmas
`SetInduction` and `LeastExists`), and `LoopExists` gives the recursive definitions their
value.

## Not modelled

Byte enables and sub-word accesses (the RAM's write is by byte lane; every property
above is about whole words); the instruction port (its debug remap compares a truncated
address and never matches, `cv32e40x_tb_wrapper.sv:209-211`); the DPI access,
cycle counter, random-number register, printing and signature dump of `mm_ram`;
construction, configuration, coverage, assertions about the core, program
generation, makefiles and programs. Of the scripts: the wording of commands, `precmd`,
the metrics output and Vmanager's own execution, RISCOF's coverage commands. `PROJECT.json` gives the reason for each component.

## Plan

Order: the two stallers, because everything else passes through them; the data
port that composes them; the peripherals; the scoreboard; the verdict; the three script
flows. These exist. Next, in this order:

1. random interrupt generator and the interrupt multiplexing of `mm_ram`;
2. support logic: `sl_fifo` and the OBI phase monitor, shown to track the same `ResponseQueue`;
3. the PMA model as a function against a reference definition;
4. the timeout and noise sequences and their interplay with `TestVerdict`;
5. proofs: with every safety property proved, the parts added above as they come.
