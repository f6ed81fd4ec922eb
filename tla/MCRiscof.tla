------------------------------ MODULE MCRiscof ------------------------------
(***************************************************************************)
(* Riscof with three tests, of which 1 and 3 have one file name in two     *)
(* directories, two jobs, and two sessions in one work directory.          *)
(***************************************************************************)
EXTENDS Riscof

MCBaseOf == <<1, 2, 1>>

Default ==
    [dut |-> "cv32e40x", dut_node |-> TRUE, ref_node |-> TRUE, simulator |-> "supported",
     tools |-> TRUE, docker |-> FALSE, dut_run |-> TRUE, ref_run |-> TRUE,
     dut_jobs |-> 2, ref_jobs |-> 1, ispec |-> {"I", "M", "C", "Zicsr", "Zbs"},
     clean |-> TRUE, tests |-> {1, 2}]
Spike   == [Default EXCEPT !.dut = "spike", !.ref_jobs = 2, !.ispec = {"I", "F", "D", "Zba"}]
Docker  == [Default EXCEPT !.docker = TRUE, !.tests = {1}, !.ispec = {"I", "F", "D", "C"}]

MCConfigs ==
    {Default, Spike, Docker,
     [Default EXCEPT !.tests = {1, 3}], [Default EXCEPT !.clean = FALSE, !.tests = {1, 3}],
     [Default EXCEPT !.clean = FALSE, !.dut_run = FALSE, !.tests = {1}],
     [Docker EXCEPT !.clean = FALSE, !.ref_run = FALSE],
     [Spike EXCEPT !.dut_run = FALSE, !.tests = {1}],
     [Default EXCEPT !.simulator = "unset"], [Default EXCEPT !.ref_node = FALSE],
     [Default EXCEPT !.tools = FALSE], [Default EXCEPT !.tests = {}]}
=============================================================================
