------------------------------ MODULE CvRegress ------------------------------
(***************************************************************************)
(* bin/cv_regress with bin/lib/cv_regression.py: testlists are read into   *)
(* regressions of builds and tests, and rendered as a shell script         *)
(* (regress_sh.j2) or a Vmanager session (regress_vsif.j2).  The script is *)
(* then run, perhaps several times: simulation images and logs stay behind *)
(* and the next run finds them.                                            *)
(*                                                                         *)
(* A testlist is what yaml.load returns, in its order.  The keys of a YAML *)
(* mapping are distinct.  Test names are numbers, ordered as the strings   *)
(* are.  A field that is missing is None; commands, directories and        *)
(* descriptions are text that no property here looks at.                   *)
(***************************************************************************)
EXTENDS Integers, Sequences, FiniteSets, Functions

CONSTANTS
    Text,               \* names of builds and configurations, and YES and NO
    None,               \* an attribute or option that is not there
    CommandLines,       \* the options of cv_regress
    MAX_SESSIONS        \* bound: command lines tried and scripts run

BuildEntry  == [name : Text, cfg : Text \cup {None}, cov : Text \cup {None}]
TestEntry   == [name : Nat, builds : Seq(Text), build : Text \cup {None},
                num : Nat \cup {None}, cov : Text \cup {None},
                skip_sim : BOOLEAN,         \* lists the simulator of the command line
                valid : BOOLEAN,            \* a directory of test programs has its name
                compliance : BOOLEAN,       \* its command contains 'compliance'
                results : BOOLEAN,          \* names the directory make writes to
                makearg : Text \cup {None}]
Testlist    == [asserted : BOOLEAN,         \* has what read_file asserts
                builds : Seq(BuildEntry), tests : Seq(TestEntry)]
CommandLine == [files : Seq(Testlist), cfg : Text \cup {None},
                num : Nat \cup {None}, cov : BOOLEAN]

ASSUME RegressAssumption ==
    /\ {"default", "YES"} \subseteq Text /\ None \notin Text \cup Nat
    /\ CommandLines \subseteq CommandLine
    /\ MAX_SESSIONS \in Nat

VARIABLES
    cmd,                \* the command line
    pc,                 \* what is going on
    session,            \* scripts run so far
    cur, k,             \* the regression being read, next entry of its section
    regressions, unique_builds,
    pending,            \* what the script has still to do
    pass_count, fail_count,
    exit,               \* exit status, -1 while there is none
    images,             \* configurations with a compiled simulation
    good_logs,          \* simulation logs in which grep finds SIMULATION PASSED
    good_diffs,         \* signature logs with "All signatures passed"
    bad, smooth         \* history: in this session a simulation or a signature
                        \* failed; every simulation started and passed

read   == <<cur, k, regressions, unique_builds>>
counts == <<pass_count, fail_count>>
files  == <<images, good_logs, good_diffs>>
hist   == <<bad, smooth>>
vars   == <<cmd, pc, session, read, pending, counts, exit, files, hist>>

-----------------------------------------------------------------------------
(* cv_regression.py: objects. *)

(* cov of the testlist comes before the option. *)
set_cov(cov) == IF cov = None /\ cmd.cov THEN "YES" ELSE cov

(* A Build, after read_file has applied the options; CFG defaults to "default". *)
Build(b) ==
    [name |-> b.name,
     cfg  |-> IF cmd.cfg # None THEN cmd.cfg ELSE IF b.cfg = None THEN "default" ELSE b.cfg,
     cov  |-> set_cov(b.cov)]

(* A Test, after read_file has applied the options: builds is [] unless    *)
(* the testlist has it, build stands in for an empty list, num is 1 unless *)
(* the testlist or the option has it.                                      *)
Test(t) ==
    [name |-> t.name,
     builds |-> IF t.builds # <<>> THEN t.builds
                ELSE IF t.build # None THEN <<t.build>> ELSE <<>>,
     num |-> IF cmd.num # None THEN cmd.num ELSE IF t.num = None THEN 1 ELSE t.num,
     compliance |-> t.compliance, results |-> t.results,
     cov |-> set_cov(t.cov), makearg |-> t.makearg]

Regression == [builds |-> <<>>, tests |-> <<>>]

BuildObject      == [name : Text, cfg : Text, cov : Text \cup {None}]
TestObject       == [name : Nat, builds : Seq(Text), num : Nat, compliance : BOOLEAN,
                     results : BOOLEAN, cov : Text \cup {None}, makearg : Text \cup {None}]
RegressionObject == [builds : Seq(BuildObject), tests : Seq(TestObject)]

Names(s) == {x.name : x \in Range(s)}

Lookup(r, n) == CHOOSE b \in Range(r.builds) : b.name = n

Fail(code) == pc' = "ended" /\ exit' = code

(* A second entry of one name: the message itself raises, build['name']. *)
add_build(b) ==
    IF b.name \in Names(cur.builds)
    THEN Fail(1) /\ UNCHANGED <<cur, k>>
    ELSE /\ cur' = [cur EXCEPT !.builds = Append(@, b)]
         /\ k' = k + 1 /\ UNCHANGED <<pc, exit>>

(* Mutant: builds are looked up only when the script is rendered. *)
AddTestObjectMutant(t) ==
    /\ cur' = [cur EXCEPT !.tests = Append(@, t)]
    /\ k' = k + 1 /\ UNCHANGED <<pc, exit>>

add_test(t) ==
    IF t.name \in Names(cur.tests)
    THEN Fail(1) /\ UNCHANGED <<cur, k>>
    ELSE IF \E b \in Range(t.builds) : b \notin Names(cur.builds)
    THEN Fail(2) /\ UNCHANGED <<cur, k>>
    ELSE /\ cur' = [cur EXCEPT !.tests = Append(@, t)]
         /\ k' = k + 1 /\ UNCHANGED <<pc, exit>>

(* The queries of the templates. *)
get_builds(r) == {Lookup(r, n) : n \in UNION {Range(t.builds) : t \in Range(r.tests)}}

get_builds_with_no_tests(r) ==
    {b \in Range(r.builds) : \A t \in Range(r.tests) : b.name \notin Range(t.builds)}

(* Mutant: only the build that comes first is a test's build. *)
TestsOfBuildMutant(r, n) == {t \in Range(r.tests) : t.builds # <<>> /\ t.builds[1] = n}

get_tests_of_build(r, n) == {t \in Range(r.tests) : n \in Range(t.builds)}

-----------------------------------------------------------------------------
(* What the templates make of the regressions. *)

(* Mutant: of tests with one name the first file's stays, as for builds. *)
RunsMutant ==
    UNION {UNION {{[reg |-> i, test |-> t, pos |-> p, idx |-> j] :
                      p \in DOMAIN t.builds, j \in 0 .. t.num - 1} :
                  t \in {x \in Range(regressions[i].tests) :
                           \A h \in 1 .. i - 1 : x.name \notin Names(regressions[h].tests)}} :
           i \in DOMAIN regressions}

(* regress_sh.j2: for each regression, test, build of the test, index. *)
Runs ==
    UNION {UNION {{[reg |-> i, test |-> t, pos |-> p, idx |-> j] :
                      p \in DOMAIN t.builds, j \in 0 .. t.num - 1} :
                  t \in Range(regressions[i].tests)} :
           i \in DOMAIN regressions}

(* Tests are sorted by name within a regression. *)
Before(a, b) ==
    \/ a.reg < b.reg
    \/ /\ a.reg = b.reg
       /\ \/ a.test.name < b.test.name
          \/ /\ a.test.name = b.test.name
             /\ a.pos < b.pos \/ (a.pos = b.pos /\ a.idx < b.idx)

(* Mutant: the build is looked up among the unique ones. *)
CfgMutant(run) ==
    Lookup([builds |-> unique_builds], run.test.builds[run.pos]).cfg

Cfg(run) == Lookup(regressions[run.reg], run.test.builds[run.pos]).cfg

(* Where a log lies: under CFG a directory, in which the name and          *)
(* RUN_INDEX tell the logs apart.  "log" is {{test_log}}/{{run_index}},    *)
(* "log_idx" is {{test_log}}_{{run_index}}, and "prog" is the directory of *)
(* the program, which the key results of a testlist repeats.               *)
Path(cfg, dir, run) == [cfg |-> cfg, dir |-> dir, test |-> run.test.name, idx |-> run.idx]

(* Where make puts the logs: compliance tests in $(RISCV_ISA)/$(PROG).     *)
MadePath(run) ==
    Path(Cfg(run), IF run.test.compliance \/ run.test.results THEN "prog" ELSE "log", run)

(* Mutant: the configuration of the option, as for compliance_diff_log. *)
LogMutant(run) == Path(cmd.cfg, IF run.test.results THEN "prog" ELSE "log", run)

(* The simulation log is looked for under r.builds[build].cfg, *)
Log(run) == Path(Cfg(run), IF run.test.results THEN "prog" ELSE "log", run)

(* the signature log under {{cfg}}, the option, and without results in a   *)
(* directory that make never writes to.                                    *)
compliance_diff_log(run) ==
    Path(cmd.cfg, IF run.test.results THEN "prog" ELSE "log_idx", run)

(* A test command: the test and build it is for, CFG, COV, which of num it *)
(* is, and the test's own arguments to make.  The script passes none of    *)
(* those; a run's RUN_INDEX in Vmanager is its own number.                 *)
Command(i, t, b, j, makearg) ==
    [reg |-> i, test |-> t.name, build |-> b.name, cfg |-> b.cfg, cov |-> t.cov,
     idx |-> j, makearg |-> makearg]

sh_commands ==
    {Command(run.reg, run.test, Lookup(regressions[run.reg], run.test.builds[run.pos]),
             run.idx, None) : run \in Runs}

(* regress_vsif.j2: for each regression, build with tests, test of it.     *)
vsif_commands ==
    UNION {UNION {UNION {{Command(i, t, b, j, t.makearg) : j \in 0 .. t.num - 1} :
                         t \in get_tests_of_build(regressions[i], b.name)} :
                  b \in get_builds(regressions[i])} :
           i \in DOMAIN regressions}

(* Its builds: before a group of tests, or on their own. *)
vsif_builds(r) == get_builds(r) \cup get_builds_with_no_tests(r)

-----------------------------------------------------------------------------
Init ==
    /\ cmd \in CommandLines /\ pc = "file" /\ session = 0
    /\ cur = Regression /\ k = 1
    /\ regressions = <<>> /\ unique_builds = <<>>
    /\ pending = {} /\ pass_count = 0 /\ fail_count = 0 /\ exit = -1
    /\ images = {} /\ good_logs = {} /\ good_diffs = {}
    /\ bad = FALSE /\ smooth = TRUE

YamlFile == cmd.files[Len(regressions) + 1]

(* read_file: the assertions come first, for the whole testlist. *)
ReadFile ==
    /\ pc = "file" /\ Len(regressions) # Len(cmd.files)
    /\ cur' = Regression /\ k' = 1
    /\ IF YamlFile.asserted THEN pc' = "builds" /\ UNCHANGED exit ELSE Fail(1)
    /\ UNCHANGED <<cmd, session, regressions, unique_builds, pending, counts, files, hist>>

AddBuild ==
    /\ pc = "builds" /\ k <= Len(YamlFile.builds)
    /\ add_build(Build(YamlFile.builds[k]))
    /\ UNCHANGED <<cmd, session, regressions, unique_builds, pending, counts, files, hist>>

BuildsRead ==
    /\ pc = "builds" /\ k > Len(YamlFile.builds)
    /\ pc' = "tests" /\ k' = 1
    /\ UNCHANGED <<cmd, session, cur, regressions, unique_builds, pending, counts, exit,
                   files, hist>>

(* skip_sim; an empty list and no build (AttributeError); check_valid_test *)
(* except for compliance tests; add_test.                                  *)
AddTest ==
    /\ pc = "tests" /\ k <= Len(YamlFile.tests)
    /\ LET t == YamlFile.tests[k] IN
       IF t.skip_sim THEN k' = k + 1 /\ UNCHANGED <<cur, pc, exit>>
       ELSE IF t.builds = <<>> /\ t.build = None THEN Fail(1) /\ UNCHANGED <<cur, k>>
       ELSE IF ~t.compliance /\ ~t.valid THEN Fail(2) /\ UNCHANGED <<cur, k>>
       ELSE add_test(Test(t))
    /\ UNCHANGED <<cmd, session, regressions, unique_builds, pending, counts, files, hist>>

(* The loop of cv_regress over r.builds: of builds with one name the first *)
(* stays.                                                                  *)
add_unique(unique, builds) ==
    LET after[n \in 0 .. Len(builds)] ==
            IF n = 0 THEN unique
            ELSE IF builds[n].name \in Names(after[n - 1]) THEN after[n - 1]
            ELSE Append(after[n - 1], builds[n])
    IN  after[Len(builds)]

FileRead ==
    /\ pc = "tests" /\ k > Len(YamlFile.tests)
    /\ regressions' = Append(regressions, cur)
    /\ unique_builds' = add_unique(unique_builds, cur.builds)
    /\ pc' = "file"
    /\ UNCHANGED <<cmd, session, cur, k, pending, counts, exit, files, hist>>

-----------------------------------------------------------------------------
(* The script begins: once it is rendered, and whenever it is run again. *)
StartScript ==
    /\ session < MAX_SESSIONS /\ session' = session + 1
    /\ \/ pc = "file" /\ Len(regressions) = Len(cmd.files)
       \/ pc = "ended" /\ Len(regressions) = Len(cmd.files)
    /\ pc' = "make" /\ k' = 1 /\ exit' = -1
    /\ pending' = Runs /\ pass_count' = 0 /\ fail_count' = 0
    /\ bad' = FALSE /\ smooth' = TRUE
    /\ UNCHANGED <<cmd, cur, regressions, unique_builds, files>>

(* A build: nobody looks at its status.  A failed one leaves the image of  *)
(* an earlier session or none.                                             *)
RunBuild ==
    /\ pc = "make" /\ k <= Len(unique_builds)
    /\ LET c == unique_builds[k].cfg IN
       images' \in {images \cup {c}, images \ {c}, images}
    /\ k' = k + 1
    /\ UNCHANGED <<cmd, pc, session, cur, regressions, unique_builds, pending, counts, exit,
                   good_logs, good_diffs, hist>>

BuildsRun ==
    /\ pc = "make" /\ k > Len(unique_builds)
    /\ pc' = "run"
    /\ UNCHANGED <<cmd, session, read, pending, counts, exit, files, hist>>

check_log(log, good) == log \in good

incr_test_counts(failed) ==
    /\ pass_count' = IF failed THEN pass_count ELSE pass_count + 1
    /\ fail_count' = IF failed THEN fail_count + 1 ELSE fail_count

(* The log a simulation leaves: one that does not start leaves the old one. *)
Written(path, outcome, good) ==
    CASE outcome = "none"   -> good
      [] outcome = "passed" -> good \cup {path}
      [] outcome = "failed" -> good \ {path}

(* One test command, with COMP=0, and its check right after it.  A         *)
(* simulation needs an image of its configuration; make                    *)
(* compliance_check_sig then compares the signatures.                      *)
RunTest(run) ==
    /\ pc = "run" /\ run \in pending
    /\ \A other \in pending : ~Before(other, run)
    /\ pending' = pending \ {run}
    /\ \E sim, sig \in {"none", "passed", "failed"} :
          /\ sim # "none" => Cfg(run) \in images
          /\ sig # "none" => run.test.compliance /\ sim # "none"
          /\ good_logs' = Written(MadePath(run), sim, good_logs)
          /\ good_diffs' = Written(MadePath(run), sig, good_diffs)
          /\ bad' = (bad \/ sim = "failed" \/ sig = "failed")
          /\ smooth' = (smooth /\ sim = "passed" /\ (run.test.compliance => sig = "passed"))
    /\ incr_test_counts(\/ ~check_log(Log(run), good_logs')
                        \/ /\ run.test.compliance
                           /\ ~check_log(compliance_diff_log(run), good_diffs'))
    /\ UNCHANGED <<cmd, pc, session, read, exit, images>>

(* Mutant: a script in which something has passed ends with 0. *)
ExitScriptMutant ==
    /\ pc = "run" /\ pending = {}
    /\ Fail(IF pass_count = 0 /\ fail_count # 0 THEN 1 ELSE 0)
    /\ UNCHANGED <<cmd, session, read, pending, counts, files, hist>>

ExitScript ==
    /\ pc = "run" /\ pending = {}
    /\ Fail(IF fail_count # 0 THEN 1 ELSE 0)
    /\ UNCHANGED <<cmd, session, read, pending, counts, files, hist>>

(* cv_regress is called again, with other options or files. *)
NewCommand(c) ==
    /\ pc = "ended" /\ session < MAX_SESSIONS
    /\ cmd' = c /\ pc' = "file" /\ exit' = -1
    /\ regressions' = <<>> /\ unique_builds' = <<>>
    /\ UNCHANGED <<session, cur, k, pending, counts, files, hist>>

Next ==
    \/ ReadFile \/ AddBuild \/ BuildsRead \/ AddTest \/ FileRead
    \/ StartScript \/ RunBuild \/ BuildsRun
    \/ \E run \in pending : RunTest(run)
    \/ ExitScript
    \/ \E c \in CommandLines : NewCommand(c)

Spec == Init /\ [][Next]_vars

-----------------------------------------------------------------------------
(* The script has ended, as opposed to cv_regress. *)
Done == pc = "ended" /\ Len(regressions) = Len(cmd.files)

(* What the testlists ask for. *)
WantedBuilds(t) == IF t.builds # <<>> THEN t.builds ELSE <<t.build>>
WantedNum(t)    == IF cmd.num # None THEN cmd.num ELSE IF t.num = None THEN 1 ELSE t.num
WantedCfg(f, n) ==
    LET b == CHOOSE x \in Range(cmd.files[f].builds) : x.name = n IN
    IF cmd.cfg # None THEN cmd.cfg ELSE IF b.cfg = None THEN "default" ELSE b.cfg
Wanted ==
    UNION {UNION {{<<f, t, p, j>> : p \in DOMAIN WantedBuilds(t), j \in 0 .. WantedNum(t) - 1} :
                  t \in {x \in Range(cmd.files[f].tests) : ~x.skip_sim}} :
           f \in DOMAIN cmd.files}

WantedCommand(w) ==
    LET n == WantedBuilds(w[2])[w[3]] IN
    [reg |-> w[1], test |-> w[2].name, build |-> n, cfg |-> WantedCfg(w[1], n),
     cov |-> IF w[2].cov = None /\ cmd.cov THEN "YES" ELSE w[2].cov,
     idx |-> w[4], makearg |-> w[2].makearg]
WantedCommands == {WantedCommand(w) : w \in Wanted}

TypeOK ==
    /\ pc \in {"file", "builds", "tests", "make", "run", "ended"}
    /\ cmd \in CommandLines /\ session \in 0 .. MAX_SESSIONS
    /\ cur \in RegressionObject /\ k \in Nat
    /\ regressions \in Seq(RegressionObject) /\ Len(regressions) <= Len(cmd.files)
    /\ unique_builds \in Seq(BuildObject)
    /\ \A r \in Range(regressions) \cup {cur} : \A t \in Range(r.tests) :
          Range(t.builds) \subseteq Names(r.builds)
    /\ pass_count \in Nat /\ fail_count \in Nat /\ exit \in {-1, 0, 1, 2}
    /\ bad \in BOOLEAN /\ smooth \in BOOLEAN

(* When the script ends, each combination of test, build and index that    *)
(* the testlists ask for has been counted once, across files that define   *)
(* the same tests and builds, tests with build or builds, skipped tests,   *)
(* and the overrides of the command line.                                  *)
NothingLost == Done => pass_count + fail_count = Cardinality(Wanted)

(* An exit status of 0 means that the log of every run the testlists ask   *)
(* for, under the configuration of the build in its own file and in the    *)
(* directory make writes to, says that the simulation passed: also when    *)
(* files share test names, so that one run overwrites the log of another.  *)
PassIsReal ==
    Done /\ exit = 0 =>
        \A w \in Wanted :
            [cfg |-> WantedCfg(w[1], WantedBuilds(w[2])[w[3]]),
             dir |-> IF w[2].compliance \/ w[2].results THEN "prog" ELSE "log",
             test |-> w[2].name, idx |-> w[4]] \in good_logs

(* A simulation or a signature that fails makes the script fail, even when *)
(* a later run overwrites its log.                                         *)
FailureCounted == Done /\ bad => exit = 1

(* If every simulation of the session starts and passes and all signatures *)
(* agree, the script ends with 0.  For compliance tests this takes --cfg   *)
(* and the key results: without the one their signature log is looked for  *)
(* in a directory "None", without the other in one that is never made.     *)
GoodRunsPass ==
    Done /\ smooth /\ (\A run \in Runs : run.test.compliance => cmd.cfg # None /\ run.test.results)
        => exit = 0

(* What the Vmanager session starts is exactly what the testlists ask for: *)
(* each test under each of its builds, num times, with the configuration   *)
(* of the build in its own file, the coverage flag and the test's own      *)
(* arguments to make; every build is made.  The script starts the same     *)
(* commands, except that it passes none of the tests' own arguments.       *)
VsifAsAsked ==
    pc = "file" /\ Len(regressions) = Len(cmd.files) =>
        /\ vsif_commands = WantedCommands
        /\ sh_commands = {[c EXCEPT !.makearg = None] : c \in WantedCommands}
        /\ \A f \in DOMAIN cmd.files :
              {<<b.name, b.cfg>> : b \in vsif_builds(regressions[f])}
              = {<<b.name, WantedCfg(f, b.name)>> : b \in Range(cmd.files[f].builds)}

(* What bin/README.md says of several files: the testlists are combined.   *)
(* Every run then finds its own build among the ones the script has made.  *)
EveryRunIsBuilt ==
    pc = "run" =>
        \A run \in Runs :
            Lookup(regressions[run.reg], run.test.builds[run.pos]) \in Range(unique_builds)
=============================================================================
