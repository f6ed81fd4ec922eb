----------------------------- MODULE TestVerdict ----------------------------
(***************************************************************************)
(* How a UVM test of a program ends: the program and the timeout sequences *)
(* write status flags (vp_status_if); the test bench copies them into the  *)
(* configuration database at every clock edge; the run phase of            *)
(* uvmt_cv32e40x_firmware_test waits for a flag; the final phase reads the *)
(* database; the final block of uvmt_cv32e40x_tb prints the verdict.       *)
(***************************************************************************)
EXTENDS Integers

CONSTANTS
    START_CLKS,     \* clocks from the end of reset to the wait (33)
    DRAIN_CLKS,     \* clocks from the flag to the end of the run phase (100)
    MAX_QUIT,       \* UVM errors that end the simulation (5)
    ExitCode        \* exit values programs write

ASSUME VerdictAssumption ==
    /\ {START_CLKS, DRAIN_CLKS, MAX_QUIT} \subseteq Nat \ {0}
    /\ {0, 1} \subseteq ExitCode /\ ExitCode \subseteq Nat

VARIABLES
    reset_n,        \* the reset has been released
    vp,             \* vp_status_if: the flags as written
    db,             \* tp, tf, evalid, evalue in the configuration database
    run,            \* where the test is
    bus_busy,       \* a store has reached a virtual peripheral since the last edge
    clks,           \* clocks left in the present repeat (n) @(posedge clk)
    err_count, fatal_count,         \* of the UVM report server
    sim_finished, verdict,
    exits           \* history: the exit values that have been written

vars == <<reset_n, bus_busy, vp, db, run, clks, err_count, fatal_count, sim_finished,
          verdict, exits>>

Flags  == [passed : BOOLEAN, failed : BOOLEAN, valid : BOOLEAN, value : ExitCode]
NoFlag == [passed |-> FALSE, failed |-> FALSE, valid |-> FALSE, value |-> 0]

(* The status is sampled by level and never cleared. *)
Signalled == vp.valid \/ vp.failed \/ vp.passed

(* Time has not stopped: no phase after the run phase has begun, no abort. *)
Running == run \in {"reset", "starting", "waiting", "draining"}

-----------------------------------------------------------------------------
(* Writers of the status flags. *)

WriteStatus(flags) ==
    /\ vp' = flags
    /\ exits' = exits \cup {flags.value}
    /\ UNCHANGED <<reset_n, db, run, clks, err_count, fatal_count, sim_finished, verdict>>

(* A store of the program reaches a virtual peripheral: the data bus       *)
(* carries one transfer per clock.                                         *)
ProgramStore == Running /\ reset_n /\ ~bus_busy /\ bus_busy' = TRUE

(* The status flags, word 0: 123456789 means passed, 1 means failed, and   *)
(* other values mean nothing.                                              *)
WritePassed ==
    /\ ProgramStore
    /\ WriteStatus([vp EXCEPT !.passed = TRUE, !.valid = TRUE, !.value = 0])

WriteFailed ==
    /\ ProgramStore
    /\ WriteStatus([vp EXCEPT !.failed = TRUE, !.valid = TRUE, !.value = 1])

(* The status flags, word 1: an exit value. *)
WriteExitValue ==
    /\ ProgramStore
    /\ \E v \in ExitCode : WriteStatus([vp EXCEPT !.valid = TRUE, !.value = v])

(* The signature writer ends the test when the signature is complete. *)
set_exit_valid ==
    /\ ProgramStore
    /\ WriteStatus([vp EXCEPT !.valid = TRUE, !.value = 0])

(* The NMI timeout and the interrupt/single-step timeout end the test with *)
(* exit value 0 when a retirement finds their limit reached: at any clock. *)
TimeoutExit ==
    /\ Running /\ reset_n
    /\ WriteStatus([vp EXCEPT !.valid = TRUE, !.value = 0])
    /\ UNCHANGED bus_busy

-----------------------------------------------------------------------------
(* Clock edges. *)

ReleaseReset ==
    /\ ~reset_n /\ Running
    /\ reset_n' = TRUE
    /\ run' = "starting" /\ clks' = START_CLKS
    /\ UNCHANGED <<bus_busy, vp, db, err_count, fatal_count, sim_finished, verdict, exits>>

(* Bug: tests_failed is not copied; the exit value is trusted to tell.     *)
LatchedMutant ==
    [passed |-> db.passed \/ vp.passed,
     failed |-> db.failed,
     valid  |-> db.valid \/ vp.valid,
     value  |-> IF vp.valid THEN vp.value ELSE db.value]

(* The flags that the edge copies into the database. *)
Latched ==
    [passed |-> db.passed \/ vp.passed,
     failed |-> db.failed \/ vp.failed,
     valid  |-> db.valid \/ vp.valid,
     value  |-> IF vp.valid THEN vp.value ELSE db.value]

(* Bug: the repeat loop runs once too often. *)
CountEdgeMutant(n, here, next) ==
    IF n >= 0 THEN run' = here /\ clks' = n - 1
              ELSE run' = next /\ clks' = 0

(* n edges in the present state of the run phase, then the next state. *)
CountEdge(n, here, next) ==
    IF n > 1 THEN run' = here /\ clks' = n - 1
             ELSE run' = next /\ clks' = 0

(* Bug: the run phase waits for tests_passed only. *)
RunPhaseMutant ==
    \/ run = "starting" /\ CountEdge(clks, "starting", "waiting")
    \/ run = "waiting" /\ ~vp.passed /\ UNCHANGED <<run, clks>>
    \/ run = "waiting" /\ vp.passed /\ CountEdge(DRAIN_CLKS, "draining", "ended")
    \/ run = "draining" /\ CountEdge(clks, "draining", "ended")

(***************************************************************************)
(* The run phase of the test at an edge: START_CLKS edges, a wait on the   *)
(* level of the flags, and DRAIN_CLKS edges, the first of which is the     *)
(* first edge that finds a flag set.                                       *)
(***************************************************************************)
RunPhase ==
    \/ run = "starting" /\ CountEdge(clks, "starting", "waiting")
    \/ run = "waiting" /\ ~Signalled /\ UNCHANGED <<run, clks>>
    \/ run = "waiting" /\ Signalled /\ CountEdge(DRAIN_CLKS, "draining", "ended")
    \/ run = "draining" /\ CountEdge(clks, "draining", "ended")

Clock ==
    /\ reset_n /\ Running
    /\ db' = Latched /\ bus_busy' = FALSE
    /\ RunPhase
    /\ UNCHANGED <<reset_n, vp, err_count, fatal_count, sim_finished, verdict, exits>>

-----------------------------------------------------------------------------
(* Errors, the end of the phases, and the verdict. *)

(* Any other checker reports an error, in the run phase or in the check    *)
(* phase; the report server ends the simulation at the MAX_QUIT-th.        *)
UvmError ==
    /\ Running \/ run = "ended"
    /\ err_count' = err_count + 1
    /\ run' = IF err_count' >= MAX_QUIT THEN "aborted" ELSE run
    /\ UNCHANGED <<reset_n, bus_busy, vp, db, clks, fatal_count, sim_finished, verdict, exits>>

(* The global timeout: a fatal error ends the simulation at once. *)
watchdog_timer ==
    /\ Running
    /\ fatal_count' = fatal_count + 1
    /\ run' = "aborted"
    /\ UNCHANGED <<reset_n, bus_busy, vp, db, clks, err_count, sim_finished, verdict, exits>>

(* The errors of the final phase: the failed flag, a nonzero exit value,   *)
(* no status at all.                                                       *)
StatusErrors ==
    (IF db.failed THEN 1 ELSE 0)
      + (IF db.valid /\ db.value # 0 THEN 1 ELSE 0)
      + (IF ~db.passed /\ ~db.valid /\ ~db.failed THEN 1 ELSE 0)

phase_ended ==
    /\ run = "ended"
    /\ sim_finished' = TRUE
    /\ err_count' = err_count + StatusErrors
    /\ run' = "final"
    /\ UNCHANGED <<reset_n, bus_busy, vp, db, clks, fatal_count, verdict, exits>>

end_of_test ==
    /\ run \in {"final", "aborted"} /\ verdict = "none"
    /\ verdict' = IF sim_finished /\ err_count = 0 /\ fatal_count = 0 THEN "PASSED"
                  ELSE IF ~sim_finished THEN "FAILED - ABORTED"
                  ELSE "FAILED"
    /\ UNCHANGED <<reset_n, bus_busy, vp, db, run, clks, err_count, fatal_count, sim_finished, exits>>

-----------------------------------------------------------------------------

Init ==
    /\ reset_n = FALSE
    /\ bus_busy = FALSE
    /\ vp = NoFlag /\ db = NoFlag
    /\ run = "reset" /\ clks = 0
    /\ err_count = 0 /\ fatal_count = 0
    /\ sim_finished = FALSE /\ verdict = "none"
    /\ exits = {}

Write == WritePassed \/ WriteFailed \/ WriteExitValue \/ set_exit_valid \/ TimeoutExit

Next ==
    \/ Write
    \/ ReleaseReset \/ Clock
    \/ UvmError \/ watchdog_timer
    \/ phase_ended \/ end_of_test

(* Simulated time advances and the simulator runs the phases it has begun. *)
(* Nothing is assumed of the watchdog, the program or the checkers.        *)
Spec ==
    /\ Init /\ [][Next]_vars
    /\ WF_vars(ReleaseReset) /\ WF_vars(Clock)
    /\ WF_vars(phase_ended) /\ WF_vars(end_of_test)

-----------------------------------------------------------------------------

(* TypeOK: the flags, counts and places the code can be in; the edges left *)
(* of a repeat loop never run below zero.                                  *)
TypeOK ==
    /\ reset_n \in BOOLEAN /\ bus_busy \in BOOLEAN /\ sim_finished \in BOOLEAN
    /\ vp \in Flags /\ db \in Flags
    /\ run \in {"reset", "starting", "waiting", "draining", "ended", "final", "aborted"}
    /\ clks \in Nat
    /\ err_count \in Nat /\ fatal_count \in Nat
    /\ verdict \in {"none", "PASSED", "FAILED", "FAILED - ABORTED"}
    /\ exits \subseteq ExitCode

(***************************************************************************)
(* PassIsEarned: "SIMULATION PASSED" is only printed when some writer did  *)
(* signal the end of the test, none ever raised tests_failed, the last     *)
(* exit value written is zero and no checker reported an error, although   *)
(* the verdict reads copies made at clock edges and writers race with the  *)
(* drain.                                                                  *)
(***************************************************************************)
PassIsEarned ==
    verdict = "PASSED" =>
        /\ vp.passed \/ vp.valid
        /\ ~vp.failed
        /\ vp.valid => vp.value = 0
        /\ err_count = 0 /\ fatal_count = 0

(***************************************************************************)
(* SignalledRunEnds: a run whose program or timeout has signalled reaches  *)
(* a verdict without the help of the watchdog, also when the flag is set   *)
(* before the test has begun to wait for it.                               *)
(***************************************************************************)
SignalledRunEnds == Signalled ~> verdict # "none"

(***************************************************************************)
(* ExitValueChecked: a run in which a nonzero exit value was written to    *)
(* the virtual peripheral does not pass.                                   *)
(***************************************************************************)
ExitValueChecked == verdict = "PASSED" => exits \subseteq {0}

=============================================================================
