----------------------------- MODULE RunEmbench -----------------------------
(***************************************************************************)
(* bin/run_embench.py: one invocation sets up the Embench tree, builds the *)
(* benchmarks, publishes their programs as tests, runs the benchmark and   *)
(* judges the score.  The directories outlive an invocation, so the next   *)
(* one starts from whatever an earlier one left: finished, failed, killed  *)
(* or of the other benchmark type.                                         *)
(*                                                                         *)
(* One step is one call of subprocess.run, or the code between two calls.  *)
(* A call ends well ("ok"), ends with a status the script does not look at *)
(* ("nonzero"), or raises ("raise": the tool is missing, or Ctrl-C, which  *)
(* the bare except clauses catch like any other exception).                *)
(***************************************************************************)
EXTENDS Integers

CONSTANTS
    Bench,              \* the benchmarks of the suite
    BspFiles,           \* the .S, .c and .h files of the board support package
    Args,               \* command lines
    Scores,             \* geometric means, in hundredths
    MAX_INVOCATIONS     \* bound: invocations of the script

Parameter == {"set", "notset"}
Choice    == {"YES", "NO", "other"}
Type      == {"speed", "size", "other"}
ArgsType  == [python : BOOLEAN, core : Parameter, ccomp : Parameter, type : Type,
              parallel : Choice, build_only : Choice, target : Nat]

ASSUME EmbenchAssumption ==
    /\ Args \subseteq ArgsType
    /\ Scores \subseteq Nat
    /\ MAX_INVOCATIONS \in Nat

VARIABLES
    pc,         \* where main() is
    inv,        \* number of this invocation, and of its build
    args,       \* its command line
    todo,       \* what is left of the directory listing a loop goes over
    res,        \* the result of the call that main() keeps
    status,     \* how the latest invocation ended
    report,     \* what it printed about the target
    emcfg,      \* config/corev32 in the Embench tree
    support,    \* support files of the board support package in its board directory
    linked,     \* pylib/run_corev32.py is linked
    results,    \* bd/src: the build each benchmark's program comes from, 0 if none
    logs,       \* what the latest log of each kind says
    dirs,       \* test directories under tests/programs/embench
    elf,        \* the build the program in each test directory comes from, 0 if none
    built, benched, faulty
                \* history: invocations in which build_all.py succeeded, in
                \* which the benchmark script did, in which a call failed or
                \* that were killed

tree  == <<emcfg, support, linked, results, logs>>
tests == <<dirs, elf>>
hist  == <<built, benched, faulty>>
vars  == <<pc, inv, args, todo, res, status, report, tree, tests, hist>>

Builds   == 0 .. MAX_INVOCATIONS
NoScore  == -1
Output   == [stdout : {"none", "success", "failure"}, score : Scores \cup {NoScore}]
Unbound  == [stdout |-> "none", score |-> NoScore]
LogTypes == {"build", "speed", "size"}
LogText  == {"none", "success", "failure"}

-----------------------------------------------------------------------------
(* Conditions of the code. *)

check_python_version == args.python

(* Unset or unknown options end the script before it touches anything. *)
ValidArgs ==
    /\ args.core = "set" /\ args.ccomp = "set"
    /\ args.type \in {"speed", "size"}
    /\ args.parallel \in {"YES", "NO"}
    /\ args.build_only \in {"YES", "NO"}

(* Mutant: the verdict of the newest build log in place of this build's output. *)
BuildPassedMutant(out) == logs["build"] = "success"

build_passed(out) == out.stdout = "success"

run_passed(out) == out.stdout = "success"

(* A pattern that is not found raises; so does opening a log of None. *)
ScoreFound(out)      == out.score # NoScore
get_log_file(kind)   == logs[kind] # "none"

(* Speed is better when greater, size when smaller; 0 is no target. *)
check_result(out, tgt, type) ==
    \/ tgt = 0
    \/ IF type = "speed" THEN out.score >= tgt ELSE out.score <= tgt

(* Mutant: the status is dropped on the way out of main(). *)
ExitMutant(s) == pc' = "idle" /\ status' = "None"

Exit(s) == pc' = "idle" /\ status' = s

(* A failed call of this invocation is remembered. *)
Note(o) == faulty' = IF o = "ok" THEN faulty ELSE faulty \cup {inv}

Outcome == {"ok", "nonzero", "raise"}

(* What a script prints: "All benchmarks built (run, sized) successfully" or not. *)
Says(o) == IF o = "ok" THEN "success" ELSE "failure"

-----------------------------------------------------------------------------
Init ==
    /\ pc = "idle" /\ inv = 0 /\ args \in Args /\ todo = {}
    /\ res = Unbound /\ status = "none" /\ report = "none"
    /\ emcfg = "absent" /\ support = {} /\ linked = FALSE
    /\ results = [b \in Bench |-> 0]
    /\ logs = [k \in LogTypes |-> "none"]
    /\ dirs = {} /\ elf = [b \in Bench |-> 0]
    /\ built = {} /\ benched = {} /\ faulty = {}

(* main() up to its first call: the arguments. *)
Start(a) ==
    /\ pc = "idle" /\ inv < MAX_INVOCATIONS
    /\ inv' = inv + 1 /\ args' = a /\ res' = Unbound /\ todo' = {}
    /\ status' = "running" /\ report' = "none" /\ pc' = "arguments"
    /\ UNCHANGED <<tree, tests, hist>>

CheckArguments ==
    /\ pc = "arguments"
    /\ IF check_python_version /\ ValidArgs
       THEN pc' = "setup" /\ UNCHANGED status
       ELSE Exit("exit 1")
    /\ UNCHANGED <<report, inv, args, todo, res, tree, tests, hist>>

(* An existing configuration is taken for a complete one: the old test     *)
(* directories are deleted, the whole set-up is skipped.                   *)
CleanOldResults ==
    /\ pc = "setup" /\ emcfg # "absent"
    /\ \E o \in Outcome, S \in SUBSET dirs :
          /\ o = "ok" => S = {}
          /\ dirs' = S
          /\ elf' = [b \in Bench |-> IF b \in S THEN elf[b] ELSE 0]
          /\ Note(o)
    /\ pc' = "build"
    /\ UNCHANGED <<report, inv, args, todo, res, status, tree, built, benched>>

(* cp -R of the core's configuration: it may stop half way. *)
CopyConfig ==
    /\ pc = "setup" /\ emcfg = "absent"
    /\ \E o \in Outcome :
          /\ \/ o = "ok" /\ emcfg' = "complete"
             \/ o # "ok" /\ emcfg' \in {"absent", "partial"}
          /\ Note(o)
    /\ pc' = "bsp"
    /\ todo' = IF args.type = "speed" THEN BspFiles ELSE {}
    /\ UNCHANGED <<report, inv, args, res, status, support, linked, results, logs, tests,
                   built, benched>>

(* One file of the board support package; the copy needs the directory.    *)
CopyBspFile(f) ==
    /\ pc = "bsp" /\ f \in todo
    /\ todo' = todo \ {f}
    /\ \E o \in Outcome :
          /\ o = "ok" => emcfg = "complete"
          /\ support' = IF o = "ok" THEN support \cup {f} ELSE support
          /\ Note(o)
    /\ UNCHANGED <<report, pc, inv, args, res, status, emcfg, linked, results, logs, tests,
                   built, benched>>

LinkModule ==
    /\ pc = "bsp" /\ todo = {}
    /\ \E o \in Outcome :
          /\ linked' = (linked \/ o = "ok")
          /\ Note(o)
    /\ pc' = "build"
    /\ UNCHANGED <<report, inv, args, todo, res, status, emcfg, support, results, logs, tests,
                   built, benched>>

-----------------------------------------------------------------------------
(* build_all.py --clean, external: a build that succeeds has a             *)
(* configuration, replaces every program and writes a log.  One that fails *)
(* may have built some benchmarks and may not have come to its log.        *)
BuildAll(o) ==
    \/ /\ o = "ok" /\ emcfg = "complete"
       /\ results' = [b \in Bench |-> inv]
       /\ logs' = [logs EXCEPT !["build"] = "success"]
       /\ built' = built \cup {inv}
    \/ /\ o # "ok"
       /\ \E S \in SUBSET Bench : results' = [b \in Bench |-> IF b \in S THEN inv ELSE 0]
       /\ logs' \in {logs, [logs EXCEPT !["build"] = "failure"]}
       /\ UNCHANGED built
    \/ /\ o = "raise"
       /\ UNCHANGED <<results, logs, built>>

(* The call: after an exception the name res stays unbound. *)
Build ==
    /\ pc = "build"
    /\ \E o \in Outcome :
          /\ BuildAll(o)
          /\ Note(o)
          /\ res' = IF o = "raise" THEN res
                    ELSE [stdout |-> Says(o), score |-> NoScore]
    /\ pc' = "built"
    /\ UNCHANGED <<report, inv, args, todo, status, emcfg, support, linked, tests, benched>>

(* The next statements: print the newest log (opening None raises), look   *)
(* at res (unbound raises), leave if the build has not succeeded.  The     *)
(* folders of a speed build are published.                                 *)
Publishing ==
    /\ pc' = "publish"
    /\ todo' = IF args.type = "speed" THEN {b \in Bench : results[b] # 0} ELSE {}
    /\ UNCHANGED status

(* Mutant: like all other failures before it, a failed build is only logged. *)
CheckBuildMutant ==
    /\ pc = "built"
    /\ Publishing
    /\ UNCHANGED <<report, inv, args, res, tree, tests, hist>>

CheckBuild ==
    /\ pc = "built"
    /\ IF get_log_file("build") /\ res # Unbound /\ build_passed(res)
       THEN Publishing
       ELSE Exit("exit 1") /\ UNCHANGED todo
    /\ UNCHANGED <<report, inv, args, res, tree, tests, hist>>

(* Mutant: a test that has a directory already is left as it is. *)
CopyProgramMutant(b, o) ==
    IF b \in dirs
    THEN UNCHANGED elf
    ELSE elf' = [elf EXCEPT ![b] = IF o = "ok" THEN results[b] ELSE 0]

(* cp of a folder's first file that is no object file: an unsuccessful     *)
(* copy leaves the old program or a useless one.                           *)
CopyProgram(b, o) ==
    IF o = "ok"
    THEN elf' = [elf EXCEPT ![b] = results[b]]
    ELSE elf' \in {elf, [elf EXCEPT ![b] = 0]}

(* One folder: mkdir, cp, test.yaml.  mkdir of an existing directory ends  *)
(* with a status nobody looks at; writing test.yaml raises if there is no  *)
(* directory.                                                              *)
PublishFolder(b) ==
    /\ pc = "publish" /\ b \in todo
    /\ todo' = todo \ {b}
    /\ \E mkdir \in Outcome, cp \in Outcome :
          LET present == b \in dirs \/ mkdir = "ok" IN
          /\ mkdir = "ok" => b \notin dirs
          /\ cp = "ok" => present
          /\ dirs' = IF present THEN dirs \cup {b} ELSE dirs
          /\ IF mkdir = "raise" THEN UNCHANGED elf ELSE CopyProgram(b, cp)
          /\ IF mkdir = "raise" \/ cp = "raise" \/ ~present
             THEN Exit("exit 1")
             ELSE UNCHANGED <<pc, status>>
          /\ Note(IF b \in dirs /\ mkdir = "nonzero" THEN cp
                  ELSE IF mkdir = "ok" THEN cp ELSE mkdir)
    /\ UNCHANGED <<report, inv, args, res, tree, built, benched>>

FinishBuild ==
    /\ pc = "publish" /\ todo = {}
    /\ IF args.build_only = "YES" THEN Exit("exit 0") ELSE pc' = "benchmark" /\ UNCHANGED status
    /\ UNCHANGED <<report, inv, args, todo, res, tree, tests, hist>>

-----------------------------------------------------------------------------
(* benchmark_speed.py or benchmark_size.py, external: success needs the    *)
(* linked module for speed, and comes with a log; the summary with the     *)
(* geometric mean may be missing.  An exception ends the script.           *)
RunBenchmark ==
    /\ pc = "benchmark"
    /\ \E o \in Outcome, score \in Scores \cup {NoScore} :
          /\ o = "ok" => linked \/ args.type = "size"
          /\ Note(o)
          /\ IF o = "raise"
             THEN Exit("exit 1") /\ UNCHANGED res
             ELSE /\ pc' = "score" /\ UNCHANGED status
                  /\ res' = [stdout |-> Says(o), score |-> score]
          /\ benched' = IF o = "ok" THEN benched \cup {inv} ELSE benched
          /\ \/ o = "ok" /\ logs' = [logs EXCEPT ![args.type] = "success"]
             \/ o # "ok" /\ logs' \in {logs, [logs EXCEPT ![args.type] = "failure"]}
    /\ UNCHANGED <<report, inv, args, todo, emcfg, support, linked, results, tests, built>>

(* Meeting or missing the target is a line of output and nothing else: the *)
(* script ends with 0 in both cases.                                       *)
CheckScore ==
    /\ pc = "score"
    /\ IF run_passed(res) /\ get_log_file(args.type) /\ ScoreFound(res)
       THEN /\ Exit("exit 0")
            /\ report' = IF args.target = 0 THEN "none"
                         ELSE IF check_result(res, args.target, args.type)
                         THEN "met" ELSE "missed"
       ELSE Exit("exit 1") /\ UNCHANGED report
    /\ UNCHANGED <<inv, args, todo, res, tree, tests, hist>>

-----------------------------------------------------------------------------
(* The process is killed between two calls. *)
Kill ==
    /\ pc # "idle"
    /\ pc' = "idle" /\ status' = "killed" /\ faulty' = faulty \cup {inv}
    /\ UNCHANGED <<report, inv, args, todo, res, tree, tests, built, benched>>

(* make clean_embench removes the Embench tree, then the test directories; *)
(* make may be stopped between the two.                                    *)
CleanEmbench ==
    /\ pc = "idle" /\ status' = "none"
    /\ emcfg' = "absent" /\ support' = {} /\ linked' = FALSE
    /\ results' = [b \in Bench |-> 0]
    /\ logs' = [k \in LogTypes |-> "none"]
    /\ \/ dirs' = {} /\ elf' = [b \in Bench |-> 0]
       \/ UNCHANGED tests
    /\ UNCHANGED <<report, pc, inv, args, todo, res, hist>>

Next ==
    \/ \E a \in Args : Start(a)
    \/ CheckArguments \/ CleanOldResults \/ CopyConfig
    \/ \E f \in BspFiles : CopyBspFile(f)
    \/ LinkModule \/ Build \/ CheckBuild
    \/ \E b \in Bench : PublishFolder(b)
    \/ FinishBuild \/ RunBenchmark \/ CheckScore
    \/ Kill \/ CleanEmbench

Spec == Init /\ [][Next]_vars

-----------------------------------------------------------------------------
TypeOK ==
    /\ pc \in {"idle", "arguments", "setup", "bsp", "build", "built", "publish",
               "benchmark", "score"}
    /\ inv \in Builds /\ args \in Args
    /\ todo \subseteq BspFiles \cup Bench
    /\ res \in Output
    /\ report \in {"none", "met", "missed"}
    /\ status \in {"none", "running", "killed", "exit 0", "exit 1"}
    /\ emcfg \in {"absent", "partial", "complete"}
    /\ support \subseteq BspFiles /\ linked \in BOOLEAN
    /\ results \in [Bench -> Builds] /\ elf \in [Bench -> Builds]
    /\ logs \in [LogTypes -> LogText]
    /\ dirs \subseteq Bench
    /\ built \subseteq Builds /\ benched \subseteq Builds /\ faulty \subseteq Builds

(* An exit status of 0 is earned by this very invocation: its arguments    *)
(* were valid, its build succeeded and, unless only a build was asked for, *)
(* its benchmark run did.  main() swallows most exceptions and prints logs *)
(* and keeps directories of earlier invocations, none of which may stand   *)
(* in for a result of its own.                                             *)
StatusIsEarned ==
    status = "exit 0" =>
        /\ ValidArgs
        /\ inv \in built
        /\ args.build_only = "YES" \/ inv \in benched

(* Only programs of builds that succeeded are ever published as tests,     *)
(* whatever earlier invocations left in the build directory.               *)
OnlyPassedBuildsPublished ==
    \A b \in Bench : elf[b] # 0 => elf[b] \in built

(* When main() ends with 0 for the speed benchmark and no call of it has   *)
(* failed, every benchmark has a test and every test runs the program just *)
(* built, even if killed invocations or an interrupted clean_embench left  *)
(* test directories behind that this invocation did not delete.            *)
PublishedIsFresh ==
    status = "exit 0" /\ args.type = "speed" /\ inv \notin faulty =>
        \A b \in Bench : b \in dirs /\ elf[b] = inv

(* What the comment at the copy says: the support files are there for the  *)
(* speed benchmark, and the size benchmark is built without them.          *)
SupportMatchesType ==
    pc = "built" /\ faulty = {} =>
        support = IF args.type = "speed" THEN BspFiles ELSE {}
=============================================================================
