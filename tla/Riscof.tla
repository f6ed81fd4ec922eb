-------------------------------- MODULE Riscof --------------------------------
(***************************************************************************)
(* The RISCOF plugins under sim/riscof: the cv32e40x test bench or spike   *)
(* as the device under test ("dut") and sail_cSim as the reference ("ref").*)
(* The framework constructs both plugins, lets both build, has each run    *)
(* the tests through a generated Makefile, the device first, and compares  *)
(* the signatures.                                                         *)
(*                                                                         *)
(* A target's recipe is one shell line of commands separated by ";": each  *)
(* is a step here, runs whatever became of the one before it, and the last *)
(* one's status is the target's.  Up to num_jobs recipes run at a time.    *)
(* A command may fail and, unless the timeout kills make, may hang.        *)
(* Tests are numbered in the order of the test list.                       *)
(***************************************************************************)
EXTENDS Integers, Sequences, FiniteSets, Functions

CONSTANTS
    Test,               \* numbers of the tests of the suite
    BaseOf,             \* the file name of each test, without directory and .S
    Configs,            \* config.ini, environment and options of riscof
    MAX_SESSIONS        \* bound: sessions of riscof

Ext    == {"I", "M", "A", "F", "D", "C", "Zicsr", "Zifencei", "Zicond",
           "Zba", "Zbb", "Zbc", "Zbs"}
Side   == {"dut", "ref"}
Config == [dut : {"cv32e40x", "spike"}, dut_node : BOOLEAN, ref_node : BOOLEAN,
           simulator : {"supported", "unsupported", "unset"},   \* CV_SIMULATOR
           tools : BOOLEAN, docker : BOOLEAN,
           dut_run : BOOLEAN, ref_run : BOOLEAN,                \* target_run
           dut_jobs : Nat \ {0}, ref_jobs : Nat \ {0},
           ispec : SUBSET Ext, clean : BOOLEAN, tests : SUBSET Test]

ASSUME RiscofAssumption ==
    /\ Test \subseteq Nat /\ 0 \notin Test
    /\ BaseOf \in [Test -> Test]
    /\ Configs \subseteq Config
    /\ MAX_SESSIONS \in Nat

VARIABLES
    pc, side,           \* phase of the session, and whose turn it is
    session, cfg,
    isa,                \* self.isa of each plugin
    sail_work,          \* the directory sail_work exists
    job,                \* how far the recipe of each test is
    elf, hex,           \* programs in the tests' directories
    sig,                \* signatures in the tests' directories
    result,             \* the verdict of the report on each test
    status,             \* how the latest session ended
    timed_out           \* history: make was killed in this session

plugin == <<isa, sail_work>>
dirs   == <<elf, hex, sig>>
vars   == <<pc, side, session, cfg, plugin, job, dirs, result, status, timed_out>>

Sessions == 0 .. MAX_SESSIONS
NoProg   == [test |-> 0, session |-> 0, march |-> <<>>]
Prog     == [test : Test \cup {0}, session : Sessions, march : Seq(Ext)]

(* A signature: what was run, whether on a machine with compressed         *)
(* instructions, and what came out, 0 if there is none.                    *)
NoSig    == [prog |-> NoProg, rvc |-> FALSE, value |-> 0]
Sig      == [prog : Prog, rvc : BOOLEAN, value : 0 .. 2]

Running == {"compile", "hex", "sim", "clean"}

model       == IF side = "ref" THEN "sail_cSim" ELSE cfg.dut
num_jobs    == IF side = "ref" THEN cfg.ref_jobs ELSE cfg.dut_jobs
target_run  == IF side = "ref" THEN cfg.ref_run ELSE cfg.dut_run

(* Mutant: SystemExit raised without its argument. *)
ExitMutant(s) == pc' = "idle" /\ status' = "None"

Exit(s) == pc' = "idle" /\ status' = s

-----------------------------------------------------------------------------
Init ==
    /\ pc = "idle" /\ side = "dut" /\ session = 0 /\ cfg \in Configs
    /\ isa = [s \in Side |-> <<>>] /\ sail_work = FALSE
    /\ job = [t \in Test |-> "none"]
    /\ elf = [st \in Side \X Test |-> NoProg]
    /\ hex = [t \in Test |-> NoProg]
    /\ sig = [st \in Side \X Test |-> NoSig]
    /\ result = [t \in Test |-> "none"] /\ status = "none" /\ timed_out = FALSE

(* riscof run: a fresh work directory, unless --no-clean keeps the old one. *)
StartSession(c) ==
    /\ pc = "idle" /\ session < MAX_SESSIONS
    /\ session' = session + 1 /\ cfg' = c /\ pc' = "init" /\ side' = "dut"
    /\ status' = "running" /\ result' = [t \in Test |-> "none"] /\ timed_out' = FALSE
    /\ job' = [t \in Test |-> "none"] /\ isa' = [s \in Side |-> <<>>]
    /\ IF c.clean
       THEN /\ sail_work' = FALSE
            /\ elf' = [st \in Side \X Test |-> NoProg]
            /\ hex' = [t \in Test |-> NoProg]
            /\ sig' = [st \in Side \X Test |-> NoSig]
       ELSE UNCHANGED <<sail_work, dirs>>

(* The constructors: SystemExit(1), or a KeyError for CV_SIMULATOR. *)
cv32e40x_init  == cfg.dut_node /\ cfg.simulator = "supported"
spike_init     == cfg.dut_node
sail_cSim_init == cfg.ref_node

Constructed ==
    CASE model = "cv32e40x"  -> cv32e40x_init
      [] model = "spike"     -> spike_init
      [] model = "sail_cSim" -> sail_cSim_init

(* After the device's turn it is the reference's, then the next phase's. *)
TurnOver(phase, next) ==
    IF side = "dut" THEN pc' = phase /\ side' = "ref" ELSE pc' = next /\ side' = "dut"

ConstructPlugin ==
    /\ pc = "init"
    /\ IF Constructed THEN TurnOver("init", "build") /\ UNCHANGED status
       ELSE Exit("exit_1") /\ UNCHANGED side
    /\ UNCHANGED <<session, cfg, plugin, job, dirs, result, timed_out>>

-----------------------------------------------------------------------------
(* build: the isa string grows by one extension at a time, in a fixed order. *)
Added(e) == IF e \in cfg.ispec THEN <<e>> ELSE <<>>

dut_isa == Added("I") \o Added("M") \o Added("A") \o Added("F") \o Added("D") \o Added("C")
           \o Added("Zicsr") \o Added("Zifencei") \o Added("Zicond")
           \o Added("Zba") \o Added("Zbb") \o Added("Zbc") \o Added("Zbs")

(* Mutant: the same plugin without the extension added last. *)
SailIsaMutant ==
    Added("I") \o Added("M") \o Added("A") \o Added("F") \o Added("C") \o Added("D")
    \o Added("Zicsr") \o Added("Zifencei") \o Added("Zicond")
    \o Added("Zba") \o Added("Zbb") \o Added("Zbc")

sail_isa == Added("I") \o Added("M") \o Added("A") \o Added("F") \o Added("C") \o Added("D")
            \o Added("Zicsr") \o Added("Zifencei") \o Added("Zicond")
            \o Added("Zba") \o Added("Zbb") \o Added("Zbc") \o Added("Zbs")

cv32e40x_build == isa' = [isa EXCEPT !["dut"] = dut_isa]

spike_build == isa' = [isa EXCEPT !["dut"] = dut_isa]

sail_cSim_isa == isa' = [isa EXCEPT !["ref"] = sail_isa]

(* sail_cSim.build looks for its tools, or makes directories for docker,   *)
(* which raises if they exist.                                             *)
sail_cSim_ready == IF cfg.docker THEN ~sail_work ELSE cfg.tools

BuildPlugin ==
    /\ pc = "build"
    /\ CASE model = "cv32e40x"  -> cv32e40x_build
         [] model = "spike"     -> spike_build
         [] model = "sail_cSim" -> sail_cSim_isa
    /\ sail_work' = (sail_work \/ (model = "sail_cSim" /\ cfg.docker))
    /\ IF model = "sail_cSim" /\ ~sail_cSim_ready
       THEN Exit("exit_1") /\ UNCHANGED side
       ELSE TurnOver("build", "tests") /\ UNCHANGED status
    /\ UNCHANGED <<session, cfg, job, dirs, result, timed_out>>

-----------------------------------------------------------------------------
(* runTests, up to the call of make. *)

(* The target's name: the file name, or for spike TARGET<n>. *)
tname(t) == IF model = "spike" THEN t ELSE BaseOf[t]

(* Of several recipes for one name make keeps the last. *)
Recipes == {t \in cfg.tests : \A u \in cfg.tests : tname(u) = tname(t) => u <= t}

(* self.timeout is set in the loop over the tests only. *)
TimeoutKnown == model = "spike" \/ cfg.tests # {}

AfterMake == IF side = "dut" THEN pc' = "tests" /\ side' = "ref"
             ELSE pc' = "compare" /\ UNCHANGED side

cv32e40x_runTests ==
    /\ job' = [t \in Test |-> IF t \in Recipes THEN "ready" ELSE "none"]
    /\ IF ~target_run THEN AfterMake /\ UNCHANGED status
       ELSE IF TimeoutKnown THEN pc' = "make" /\ UNCHANGED <<side, status>>
       ELSE Exit("exit_1") /\ UNCHANGED side

(* An old Makefile is not deleted first; the new recipes come later in it. *)
sail_cSim_runTests == cv32e40x_runTests

(* spike calls make in any case. *)
spike_runTests ==
    /\ job' = [t \in Test |-> IF t \in Recipes THEN "ready" ELSE "none"]
    /\ pc' = "make" /\ UNCHANGED <<side, status>>

RunTests ==
    /\ pc = "tests"
    /\ CASE model = "cv32e40x"  -> cv32e40x_runTests
         [] model = "spike"     -> spike_runTests
         [] model = "sail_cSim" -> sail_cSim_runTests
    /\ UNCHANGED <<session, cfg, plugin, dirs, result, timed_out>>

-----------------------------------------------------------------------------
(* make. *)

(* spike's make command has -k; without it make starts nothing more once a *)
(* target has failed.                                                      *)
Stopped == model # "spike" /\ \E t \in Test : job[t] \in {"failed", "not_cleaned"}

StartJob(t) ==
    /\ pc = "make" /\ job[t] = "ready" /\ ~Stopped
    /\ Cardinality({u \in Test : job[u] \in Running}) < num_jobs
    /\ job' = [job EXCEPT ![t] = "compile"]
    /\ UNCHANGED <<pc, side, session, cfg, plugin, dirs, result, status, timed_out>>

(* Mutant: all tests are compiled in the plugin's work directory. *)
CwdMutant(t) == CHOOSE d \in Test : TRUE

(* cd to testentry['work_dir']. *)
Cwd(t) == t

(* The recipe's next command; the last one's status. *)
Then(t, step) == job' = [job EXCEPT ![t] = step]

Compile(t) ==
    /\ pc = "make" /\ job[t] = "compile"
    /\ \E p \in {[test |-> t, session |-> session, march |-> isa[side]], NoProg,
                 elf[<<side, Cwd(t)>>]} :
          elf' = [elf EXCEPT ![<<side, Cwd(t)>>] = p]
    /\ Then(t, IF model = "cv32e40x" THEN "hex" ELSE "sim")
    /\ UNCHANGED <<pc, side, session, cfg, plugin, hex, sig, result, status, timed_out>>

(* objcopy and the dumps: without an elf file the old hex file stays. *)
MakeHex(t) ==
    /\ pc = "make" /\ job[t] = "hex"
    /\ \/ elf[<<side, Cwd(t)>>] # NoProg
          /\ hex' = [hex EXCEPT ![Cwd(t)] = elf[<<side, Cwd(t)>>]]
       \/ UNCHANGED hex
    /\ Then(t, "sim")
    /\ UNCHANGED <<pc, side, session, cfg, plugin, elf, sig, result, status, timed_out>>

Program(t) == IF model = "cv32e40x" THEN hex[Cwd(t)] ELSE elf[<<side, Cwd(t)>>]

(* sail gets -C, compressed instructions off, if there is no c in the isa  *)
(* string: these extensions have one in their names.                       *)
WithC    == {"C", "Zicsr", "Zifencei", "Zicond", "Zbc"}
sail_rvc == \E e \in WithC : e \in Range(isa["ref"])

(* spike gets the isa string. *)
spike_rvc == "C" \in Range(isa["dut"])

(* The core has compressed instructions whatever the isa string. *)
cv32e40x_rvc == TRUE

Rvc ==
    CASE model = "cv32e40x"  -> cv32e40x_rvc
      [] model = "spike"     -> spike_rvc
      [] model = "sail_cSim" -> sail_rvc

(* Mutant: without the clean-up, the simulation's status is the target's. *)
AfterSimMutant(ok) == IF ok THEN "done" ELSE "failed"

(* What follows the simulation; rm -rf ends the cv32e40x recipe, and so    *)
(* hides the simulation's status.                                          *)
AfterSim(ok) == IF model = "cv32e40x" THEN "clean" ELSE IF ok THEN "done" ELSE "failed"

(* A simulation writes its signature, or ends without one.  spike with     *)
(* target_run=0 only echoes.                                               *)
Simulate(t) ==
    /\ pc = "make" /\ job[t] = "sim"
    /\ \/ /\ target_run /\ Program(t) # NoProg
          /\ \E v \in 1 .. 2, ok \in BOOLEAN :
                /\ sig' = [sig EXCEPT ![<<side, t>>] =
                               [prog |-> Program(t), rvc |-> Rvc, value |-> v]]
                /\ Then(t, AfterSim(ok))
       \/ /\ target_run /\ UNCHANGED sig /\ Then(t, AfterSim(FALSE))
       \/ /\ ~target_run /\ UNCHANGED sig /\ Then(t, AfterSim(TRUE))
    /\ UNCHANGED <<pc, side, session, cfg, plugin, elf, hex, result, status, timed_out>>

(* rm -rf succeeds without a directory, but may fail to remove one. *)
CleanUp(t) ==
    /\ pc = "make" /\ job[t] = "clean"
    /\ Then(t, "done") \/ Then(t, "not_cleaned")
    /\ UNCHANGED <<pc, side, session, cfg, plugin, dirs, result, status, timed_out>>

(* execute_all returns; spike then ends the session if nothing was to run. *)
MakeReturns ==
    IF model = "spike" /\ ~target_run THEN Exit("exit_0") /\ UNCHANGED side
    ELSE AfterMake /\ UNCHANGED status

MakeEnds ==
    /\ pc = "make"
    /\ \A t \in Test : job[t] \notin Running /\ (job[t] = "ready" => Stopped)
    /\ MakeReturns
    /\ UNCHANGED <<session, cfg, plugin, job, dirs, result, timed_out>>

(* Mutant: execute_all without a timeout. *)
TimeoutMutant == FALSE /\ UNCHANGED vars

(* The timeout of execute_all kills make and its recipes. *)
Timeout ==
    /\ pc = "make" /\ timed_out' = TRUE
    /\ job' = [t \in Test |-> IF job[t] \in Running THEN "killed" ELSE job[t]]
    /\ MakeReturns
    /\ UNCHANGED <<session, cfg, plugin, dirs, result>>

(* The framework's report: a missing signature ends it. *)
Compare ==
    /\ pc = "compare"
    /\ IF \E s \in Side, t \in cfg.tests : sig[<<s, t>>] = NoSig
       THEN Exit("exit_1") /\ UNCHANGED result
       ELSE /\ result' = [t \in Test |->
                  IF t \notin cfg.tests THEN "none"
                  ELSE IF sig[<<"dut", t>>].value = sig[<<"ref", t>>].value
                       THEN "Passed" ELSE "Failed"]
            /\ Exit("exit_0")
    /\ UNCHANGED <<side, session, cfg, plugin, job, dirs, timed_out>>

Framework == ConstructPlugin \/ BuildPlugin \/ RunTests \/ MakeEnds \/ Compare

Next ==
    \/ \E c \in Configs : StartSession(c)
    \/ Framework
    \/ \E t \in Test : StartJob(t) \/ Compile(t) \/ MakeHex(t) \/ Simulate(t) \/ CleanUp(t)
    \/ Timeout

(* The framework goes on, and its timeout fires; no compiler or simulator  *)
(* need ever end.                                                          *)
Fairness == WF_vars(Framework) /\ WF_vars(Timeout)

Spec == Init /\ [][Next]_vars /\ Fairness

-----------------------------------------------------------------------------
TypeOK ==
    /\ pc \in {"idle", "init", "build", "tests", "make", "compare"} /\ side \in Side
    /\ session \in Sessions /\ cfg \in Configs
    /\ isa \in [Side -> Seq(Ext)] /\ sail_work \in BOOLEAN
    /\ job \in [Test -> Running \cup {"none", "ready", "done", "failed", "not_cleaned", "killed"}]
    /\ elf \in [Side \X Test -> Prog] /\ hex \in [Test -> Prog]
    /\ sig \in [Side \X Test -> Sig]
    /\ result \in [Test -> {"none", "Passed", "Failed"}]
    /\ status \in {"none", "running", "exit_0", "exit_1"} /\ timed_out \in BOOLEAN

(* A test reported as passed in a fresh work directory was run on both     *)
(* sides in this session, from programs compiled from its own source,      *)
(* whatever other recipes ran beside its own, failed, were killed or had   *)
(* its file name.                                                          *)
PassedIsReal ==
    cfg.clean =>
        \A t \in Test, s \in Side : result[t] = "Passed" =>
            sig[<<s, t>>].prog.test = t /\ sig[<<s, t>>].prog.session = session

(* Signatures of programs of this session that are compared come from one  *)
(* machine: both sides' programs are compiled for the extensions of the    *)
(* isa yaml, although the two build functions spell them apart and an old  *)
(* work directory may hold programs for others, and if C is one of them    *)
(* both sides run with compressed instructions.                            *)
SameMachine ==
    \A t \in Test :
        result[t] # "none" /\ (\A s \in Side : sig[<<s, t>>].prog.session = session) =>
            \A s \in Side : /\ Range(sig[<<s, t>>].prog.march) = cfg.ispec
                            /\ "C" \in cfg.ispec => sig[<<s, t>>].rvc

(* Unless the timeout killed make or a clean-up failed, every recipe of    *)
(* the device under test has come to its end before the reference's turn:  *)
(* a program that does not compile or simulate costs no other test its     *)
(* run.                                                                    *)
FailuresContained ==
    /\ pc = "tests" /\ side = "ref" /\ cfg.dut_run /\ ~timed_out
    /\ \A t \in Test : job[t] # "not_cleaned"
    => \A t \in Test : job[t] \notin Running \cup {"ready"}

(* Every session ends, also when a compiler or a simulator hangs. *)
SessionEnds == pc # "idle" ~> pc = "idle"
=============================================================================
