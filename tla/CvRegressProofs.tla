--------------------------- MODULE CvRegressProofs ---------------------------
(***************************************************************************)
(* Proofs about CvRegress for every set of command lines and testlists and *)
(* every number of sessions.                                               *)
(***************************************************************************)
EXTENDS CvRegress, FiniteSetTheorems, TLAPS

(* What read_file makes sure of in a regression: the option --cfg reaches  *)
(* every build, and every build of a test is defined.                      *)
WellRead(r) ==
    /\ \A b \in Range(r.builds) : cmd.cfg # None => b.cfg = cmd.cfg
    /\ \A t \in Range(r.tests) : Range(t.builds) \subseteq Names(r.builds)

Reading == {"builds", "tests"}

ReadInv ==
    /\ cmd \in CommandLines /\ k \in Nat \ {0}
    /\ cur \in RegressionObject /\ regressions \in Seq(RegressionObject)
    /\ Len(regressions) <= Len(cmd.files)
    /\ pc \in Reading => Len(regressions) < Len(cmd.files) /\ WellRead(cur)
    /\ \A i \in DOMAIN regressions : WellRead(regressions[i])

(* The exception of GoodRunsPass. *)
NoLostDiff == \A run \in Runs : run.test.compliance => cmd.cfg # None /\ run.test.results

ScriptInv ==
    /\ fail_count \in Nat /\ bad \in BOOLEAN /\ smooth \in BOOLEAN
    /\ \A p \in good_diffs : p.cfg \in Text /\ p.dir = "prog"
    /\ pc \in {"make", "run"} => pending \subseteq Runs
    /\ pc \in {"make", "run"} /\ bad => fail_count # 0
    /\ pc \in {"make", "run"} /\ smooth /\ NoLostDiff => fail_count = 0

IInv == ReadInv /\ ScriptInv /\ FailureCounted /\ GoodRunsPass

-----------------------------------------------------------------------------
(* Facts about sequences and objects. *)

(* Appending adds one element to the range. *)
LEMMA RangeAppend ==
    ASSUME NEW S, NEW s \in Seq(S), NEW x
    PROVE  Range(Append(s, x)) = Range(s) \cup {x}
<1>1. DOMAIN Append(s, x) = 1 .. Len(s) + 1
  OBVIOUS
<1>2. \A i \in 1 .. Len(s) : Append(s, x)[i] = s[i]
  OBVIOUS
<1>3. Append(s, x)[Len(s) + 1] = x
  OBVIOUS
<1>4. DOMAIN s = 1 .. Len(s) /\ Len(s) \in Nat
  OBVIOUS
<1> QED
  BY <1>1, <1>2, <1>3, <1>4 DEF Range

(* The elements of a typed sequence have its type. *)
LEMMA RangeType ==
    ASSUME NEW S, NEW s \in Seq(S)
    PROVE  Range(s) \subseteq S
  BY DEF Range

(* A Build object has a configuration, and --cfg is it. *)
LEMMA BuildFacts ==
    ASSUME cmd \in CommandLines, NEW b \in BuildEntry
    PROVE  Build(b) \in BuildObject /\ (cmd.cfg # None => Build(b).cfg = cmd.cfg)
  BY RegressAssumption DEF Build, BuildObject, BuildEntry, CommandLine, set_cov

(* A Test object of an entry that has a build. *)
LEMMA TestFacts ==
    ASSUME cmd \in CommandLines, NEW t \in TestEntry
    PROVE  Test(t) \in TestObject
<1>1. Test(t).builds \in Seq(Text)
  <2>1. CASE t.builds # <<>>
    BY <2>1 DEF Test, TestEntry
  <2>2. CASE t.builds = <<>> /\ t.build # None
    <3>1. t.build \in Text
      BY <2>2 DEF TestEntry
    <3> QED
      BY <2>2, <3>1 DEF Test
  <2>3. CASE t.builds = <<>> /\ t.build = None
    BY <2>3 DEF Test
  <2> QED
    BY <2>1, <2>2, <2>3
<1>2. Test(t).num \in Nat /\ Test(t).cov \in Text \cup {None}
  BY RegressAssumption DEF Test, TestEntry, CommandLine, set_cov
<1>3. /\ Test(t).name \in Nat /\ Test(t).compliance \in BOOLEAN
      /\ Test(t).results \in BOOLEAN /\ Test(t).makearg \in Text \cup {None}
  BY DEF Test, TestEntry
<1> QED
  BY <1>1, <1>2, <1>3 DEF Test, TestObject

(* The testlist being read. *)
LEMMA YamlFacts ==
    ASSUME ReadInv, Len(regressions) < Len(cmd.files)
    PROVE  YamlFile \in Testlist
  BY RegressAssumption DEF ReadInv, YamlFile, CommandLine

(* The configuration a run is started with: never missing, and --cfg's. *)
LEMMA CfgFacts ==
    ASSUME ReadInv, NEW run \in Runs
    PROVE  Cfg(run) \in Text /\ (cmd.cfg # None => Cfg(run) = cmd.cfg)
<1>0. PICK i \in DOMAIN regressions :
         run \in UNION {{[reg |-> i, test |-> t, pos |-> p, idx |-> j] :
                            p \in DOMAIN t.builds, j \in 0 .. t.num - 1} :
                        t \in Range(regressions[i].tests)}
  BY DEF Runs
<1>1. PICK t \in Range(regressions[i].tests) :
         \E p \in DOMAIN t.builds, j \in 0 .. t.num - 1 :
            run = [reg |-> i, test |-> t, pos |-> p, idx |-> j]
  BY <1>0
<1>2. PICK p \in DOMAIN t.builds, j \in 0 .. t.num - 1 :
         run = [reg |-> i, test |-> t, pos |-> p, idx |-> j]
  BY <1>1
<1>3. regressions[i] \in RegressionObject /\ WellRead(regressions[i])
  BY DEF ReadInv
<1>4. t.builds[p] \in Names(regressions[i].builds)
  BY <1>2, <1>3 DEF WellRead, Range
<1>5. PICK b \in Range(regressions[i].builds) : b.name = t.builds[p]
  BY <1>4 DEF Names
<1>6. Lookup(regressions[i], t.builds[p]) \in Range(regressions[i].builds)
  BY <1>5 DEF Lookup
<1>7. Cfg(run) = Lookup(regressions[i], t.builds[p]).cfg
  BY <1>2 DEF Cfg
<1>8. Range(regressions[i].builds) \subseteq BuildObject
  BY <1>3, RangeType DEF RegressionObject
<1> QED
  BY <1>3, <1>6, <1>7, <1>8 DEF WellRead, BuildObject

-----------------------------------------------------------------------------
(* Adding an object to a regression. *)
LEMMA WithBuild ==
    ASSUME NEW r \in RegressionObject, NEW b \in BuildObject,
           NEW n, n = [r EXCEPT !.builds = Append(@, b)]
    PROVE  n \in RegressionObject /\ n.tests = r.tests /\ n.builds = Append(r.builds, b)
<1>1. r.builds \in Seq(BuildObject) /\ r.tests \in Seq(TestObject)
  BY DEF RegressionObject
<1>2. Append(r.builds, b) \in Seq(BuildObject)
  BY <1>1
<1>3. DOMAIN r = {"builds", "tests"}
  BY DEF RegressionObject
<1>4. n = [builds |-> Append(r.builds, b), tests |-> r.tests]
  BY <1>3 DEF RegressionObject
<1> QED
  BY <1>1, <1>2, <1>4 DEF RegressionObject

(* Adding a test keeps the type of a regression and its builds. *)
LEMMA WithTest ==
    ASSUME NEW r \in RegressionObject, NEW t \in TestObject,
           NEW n, n = [r EXCEPT !.tests = Append(@, t)]
    PROVE  n \in RegressionObject /\ n.builds = r.builds /\ n.tests = Append(r.tests, t)
<1>1. r.builds \in Seq(BuildObject) /\ r.tests \in Seq(TestObject)
  BY DEF RegressionObject
<1>2. Append(r.tests, t) \in Seq(TestObject)
  BY <1>1
<1>3. DOMAIN r = {"builds", "tests"}
  BY DEF RegressionObject
<1>4. n = [builds |-> r.builds, tests |-> Append(r.tests, t)]
  BY <1>3 DEF RegressionObject
<1> QED
  BY <1>1, <1>2, <1>4 DEF RegressionObject

(* Within a file the regressions read before it stay as they are. *)
LEMMA WithinFile ==
    ASSUME ReadInv, UNCHANGED <<cmd, regressions>>, cur' \in RegressionObject,
           k' \in Nat \ {0}, pc' \in Reading => Len(regressions) < Len(cmd.files) /\ WellRead(cur')
    PROVE  ReadInv'
<1>1. (\A i \in DOMAIN regressions : WellRead(regressions[i]))'
  BY DEF ReadInv, WellRead
<1>2. pc' \in Reading => WellRead(cur)'
  BY DEF WellRead
<1> QED
  BY <1>1, <1>2 DEF ReadInv

(* A regression begins well formed. *)
LEMMA EmptyRegression == Regression \in RegressionObject /\ WellRead(Regression)
<1>1. Range(<<>>) = {}
  BY DEF Range
<1> QED
  BY <1>1 DEF Regression, RegressionObject, WellRead

(* Nothing has been read or run at the start. *)
LEMMA InitIInv == Init => IInv
<1> SUFFICES ASSUME Init PROVE IInv
  OBVIOUS
<1>1. regressions = <<>> /\ cmd \in CommandLine /\ Len(cmd.files) \in Nat
  BY RegressAssumption DEF Init, CommandLine
<1>2. ReadInv
  BY <1>1, EmptyRegression DEF Init, ReadInv, Reading
<1>3. ScriptInv /\ FailureCounted /\ GoodRunsPass
  BY DEF Init, ScriptInv, FailureCounted, GoodRunsPass, Done
<1> QED
  BY <1>2, <1>3 DEF IInv

(* A step of reading: the script's state stays, and if cv_regress gives up *)
(* it does so before the last file is read.                                *)
LEMMA ReadingStep ==
    ASSUME IInv, ReadInv', UNCHANGED <<cmd, pending, fail_count, good_diffs, bad, smooth>>,
           pc' \in {"file", "builds", "tests"} \/
              (pc' = "ended" /\ regressions' = regressions /\ Len(regressions) # Len(cmd.files))
    PROVE  IInv'
  BY DEF IInv, ScriptInv, FailureCounted, GoodRunsPass, Done

(* add_build keeps the regression being read well formed. *)
LEMMA AddBuildStep == IInv /\ AddBuild => IInv'
<1> SUFFICES ASSUME IInv, AddBuild PROVE IInv'
  OBVIOUS
<1>1. /\ ReadInv /\ pc = "builds" /\ Len(regressions) < Len(cmd.files) /\ WellRead(cur)
      /\ Len(regressions) \in Nat /\ Len(cmd.files) \in Nat
  BY RegressAssumption DEF IInv, AddBuild, ReadInv, Reading, CommandLine
<1>2. YamlFile.builds[k] \in BuildEntry
  BY <1>1, YamlFacts DEF AddBuild, ReadInv, Testlist
<1> DEFINE b == Build(YamlFile.builds[k])
<1>3. b \in BuildObject /\ (cmd.cfg # None => b.cfg = cmd.cfg)
  BY <1>1, <1>2, BuildFacts DEF ReadInv
<1>4. UNCHANGED <<cmd, regressions, pending, fail_count, good_diffs, bad, smooth>>
  BY DEF AddBuild, counts, files, hist
<1> HIDE DEF b
<1>5. add_build(b)
  BY DEF AddBuild, b
<1>6. CASE b.name \in Names(cur.builds)
  <2>1. pc' = "ended" /\ cur' = cur /\ k' = k
    BY <1>5, <1>6 DEF add_build, Fail
  <2>2. ReadInv'
    BY <1>1, <1>4, <2>1 DEF ReadInv, Reading, WellRead
  <2> QED
    BY <2>1, <2>2, <1>1, <1>4, ReadingStep
<1>7. CASE b.name \notin Names(cur.builds)
  <2>1. cur' = [cur EXCEPT !.builds = Append(@, b)] /\ k' = k + 1 /\ pc' = pc
    BY <1>5, <1>7 DEF add_build
  <2>2. cur.builds \in Seq(BuildObject) /\ cur \in RegressionObject
    BY <1>1 DEF ReadInv, RegressionObject
  <2>3. /\ cur' \in RegressionObject /\ cur'.tests = cur.tests
        /\ cur'.builds = Append(cur.builds, b)
    BY <2>1, <2>2, <1>3, WithBuild
  <2>4. Range(cur'.builds) = Range(cur.builds) \cup {b}
    BY <2>2, <2>3, RangeAppend
  <2>5. WellRead(cur')
    BY <1>1, <1>3, <1>4, <2>3, <2>4 DEF WellRead, Names
  <2>6. ReadInv'
    <3>1. k' \in Nat \ {0}
      BY <1>1, <2>1 DEF ReadInv
    <3> QED
      BY <1>1, <1>4, <2>1, <2>3, <2>5, <3>1, WithinFile
  <2> QED
    BY <2>1, <2>6, <1>1, <1>4, ReadingStep
<1> QED
  BY <1>6, <1>7

(* add_test does too: it refuses a test of an undefined build. *)
LEMMA AddTestStep == IInv /\ AddTest => IInv'
<1> SUFFICES ASSUME IInv, AddTest PROVE IInv'
  OBVIOUS
<1>1. /\ ReadInv /\ pc = "tests" /\ Len(regressions) < Len(cmd.files) /\ WellRead(cur)
      /\ Len(regressions) \in Nat /\ Len(cmd.files) \in Nat
  BY RegressAssumption DEF IInv, AddTest, ReadInv, Reading, CommandLine
<1>2. YamlFile.tests[k] \in TestEntry
  BY <1>1, YamlFacts DEF AddTest, ReadInv, Testlist
<1> DEFINE t == Test(YamlFile.tests[k])
<1>3. t \in TestObject
  BY <1>1, <1>2, TestFacts DEF ReadInv
<1>4. UNCHANGED <<cmd, regressions, pending, fail_count, good_diffs, bad, smooth>>
  BY DEF AddTest, counts, files, hist
<1> HIDE DEF t
<1>5. \/ cur' = cur /\ k' = k + 1 /\ pc' = pc
      \/ cur' = cur /\ k' = k /\ pc' = "ended"
      \/ /\ cur' = [cur EXCEPT !.tests = Append(@, t)] /\ k' = k + 1 /\ pc' = pc
         /\ \A b \in Range(t.builds) : b \in Names(cur.builds)
  BY DEF AddTest, add_test, Fail, t
<1>6. CASE cur' = cur /\ ((k' = k + 1 /\ pc' = pc) \/ (k' = k /\ pc' = "ended"))
  <2>1. ReadInv'
    <3>1. k' \in Nat \ {0} /\ cur' \in RegressionObject
      BY <1>1, <1>6 DEF ReadInv
    <3>2. WellRead(cur')
      BY <1>1, <1>6
    <3> QED
      BY <1>1, <1>4, <3>1, <3>2, WithinFile
  <2> QED
    BY <1>6, <2>1, <1>1, <1>4, ReadingStep
<1>7. CASE /\ cur' = [cur EXCEPT !.tests = Append(@, t)] /\ k' = k + 1 /\ pc' = pc
           /\ \A b \in Range(t.builds) : b \in Names(cur.builds)
  <2>2. cur.tests \in Seq(TestObject) /\ cur \in RegressionObject
    BY <1>1 DEF ReadInv, RegressionObject
  <2>3. /\ cur' \in RegressionObject /\ cur'.builds = cur.builds
        /\ cur'.tests = Append(cur.tests, t)
    BY <1>7, <2>2, <1>3, WithTest
  <2>4. Range(cur'.tests) = Range(cur.tests) \cup {t}
    BY <2>2, <2>3, RangeAppend
  <2>5. WellRead(cur')
    BY <1>1, <1>4, <1>7, <2>3, <2>4 DEF WellRead
  <2>6. ReadInv'
    <3>1. k' \in Nat \ {0}
      BY <1>1, <1>7 DEF ReadInv
    <3> QED
      BY <1>1, <1>4, <1>7, <2>3, <2>5, <3>1, WithinFile
  <2> QED
    BY <1>7, <2>6, <1>1, <1>4, ReadingStep
<1> QED
  BY <1>5, <1>6, <1>7

(* A regression that has been read joins the others. *)
LEMMA FileReadStep == IInv /\ FileRead => IInv'
<1> SUFFICES ASSUME IInv, FileRead PROVE IInv'
  OBVIOUS
<1>1. /\ ReadInv /\ pc = "tests" /\ Len(regressions) < Len(cmd.files) /\ WellRead(cur)
      /\ Len(cmd.files) \in Nat
  BY RegressAssumption DEF IInv, FileRead, ReadInv, Reading, CommandLine
<1>2. /\ UNCHANGED <<cmd, cur, k, pending, fail_count, good_diffs, bad, smooth>>
      /\ pc' = "file" /\ regressions' = Append(regressions, cur)
  BY DEF FileRead, counts, files, hist
<1>3. /\ regressions' \in Seq(RegressionObject) /\ Len(regressions') = Len(regressions) + 1
      /\ \A i \in DOMAIN regressions' : regressions'[i] = cur \/
            (i \in DOMAIN regressions /\ regressions'[i] = regressions[i])
  BY <1>1, <1>2 DEF ReadInv
<1>4. Len(regressions) \in Nat
  BY <1>1 DEF ReadInv
<1>5. ReadInv'
  <2>1. (\A i \in DOMAIN regressions : WellRead(regressions[i]))'
    BY <1>1, <1>2, <1>3 DEF ReadInv, WellRead
  <2>2. Len(regressions') <= Len(cmd.files)
    BY <1>1, <1>3, <1>4
  <2> QED
    BY <1>1, <1>2, <1>3, <2>1, <2>2 DEF ReadInv, Reading
<1> QED
  BY <1>2, <1>5, ReadingStep

-----------------------------------------------------------------------------
(* The script.  Its runs are the same as long as the regressions are. *)

(* A session begins with zero counts and an empty history. *)
LEMMA StartScriptStep == IInv /\ StartScript => IInv'
<1> SUFFICES ASSUME IInv, StartScript PROVE IInv'
  OBVIOUS
<1>1. /\ UNCHANGED <<cmd, cur, regressions, good_diffs>> /\ pc' = "make" /\ k' = 1
      /\ pending' = Runs /\ fail_count' = 0 /\ bad' = FALSE /\ smooth' = TRUE
  BY DEF StartScript, files
<1>2. ReadInv'
  BY <1>1, WithinFile DEF IInv, ReadInv, Reading
<1>3. Runs' = Runs
  BY <1>1 DEF Runs
<1>4. ScriptInv'
  BY <1>1, <1>3 DEF IInv, ScriptInv
<1> QED
  BY <1>1, <1>2, <1>4 DEF IInv, FailureCounted, GoodRunsPass, Done

(* Builds touch neither counts nor logs. *)
LEMMA BuildingStep == IInv /\ (RunBuild \/ BuildsRun) => IInv'
<1> SUFFICES ASSUME IInv, RunBuild \/ BuildsRun PROVE IInv'
  OBVIOUS
<1>1. /\ UNCHANGED <<cmd, cur, regressions, good_diffs, pending, fail_count, bad, smooth>>
      /\ pc = "make" /\ pc' \in {"make", "run"} /\ k' \in {k, k + 1}
  BY DEF RunBuild, BuildsRun, read, counts, hist, files
<1>2. ReadInv'
  BY <1>1, WithinFile DEF IInv, ReadInv, Reading
<1>3. Runs' = Runs
  BY <1>1 DEF Runs
<1>4. NoLostDiff' = NoLostDiff
  BY <1>1, <1>3 DEF NoLostDiff
<1>5. ScriptInv'
  BY <1>1, <1>3, <1>4 DEF IInv, ScriptInv
<1> QED
  BY <1>1, <1>2, <1>5 DEF IInv, FailureCounted, GoodRunsPass, Done

(* A check comes right after its run.  A run that fails is found to have   *)
(* failed; one that passes is found to have passed, except for a           *)
(* compliance test whose logs are looked for where make has not put them.  *)
LEMMA RunTestStep ==
    ASSUME IInv, NEW run \in pending, RunTest(run)
    PROVE  IInv'
<1>1. /\ UNCHANGED <<cmd, pc, cur, k, regressions>> /\ pc = "run"
      /\ pending' = pending \ {run}
  BY DEF RunTest, read
<1>2. run \in Runs
  BY <1>1 DEF IInv, ScriptInv
<1>3. Cfg(run) \in Text /\ (cmd.cfg # None => Cfg(run) = cmd.cfg)
  BY <1>2, CfgFacts DEF IInv
<1> DEFINE path == MadePath(run)
           failed == \/ ~check_log(Log(run), good_logs')
                     \/ /\ run.test.compliance
                        /\ ~check_log(compliance_diff_log(run), good_diffs')
<1>4. PICK sim \in {"none", "passed", "failed"}, sig \in {"none", "passed", "failed"} :
         /\ sig # "none" => run.test.compliance /\ sim # "none"
         /\ good_logs' = Written(path, sim, good_logs)
         /\ good_diffs' = Written(path, sig, good_diffs)
         /\ bad' = (bad \/ sim = "failed" \/ sig = "failed")
         /\ smooth' = (smooth /\ sim = "passed" /\ (run.test.compliance => sig = "passed"))
  BY DEF RunTest
<1>5. fail_count' = IF failed THEN fail_count + 1 ELSE fail_count
  BY DEF RunTest, incr_test_counts
<1>6. path.cfg = Cfg(run) /\ (run.test.compliance => path.dir = "prog")
  BY DEF MadePath, Path
<1>7. /\ compliance_diff_log(run).cfg = cmd.cfg
      /\ ~run.test.results => compliance_diff_log(run).dir = "log_idx"
      /\ cmd.cfg # None /\ run.test.compliance /\ run.test.results
            => compliance_diff_log(run) = path
  BY <1>3 DEF compliance_diff_log, MadePath, Path
<1>8. (run.test.compliance => run.test.results) => Log(run) = path
  BY DEF Log, MadePath, Path
<1>9. \A p \in good_diffs' : p.cfg \in Text /\ p.dir = "prog"
  BY <1>3, <1>4, <1>6 DEF Written, IInv, ScriptInv
<1>10. run.test.compliance /\ ~run.test.results => failed
  BY <1>7, <1>9 DEF check_log
<1>11. sim = "failed" \/ sig = "failed" => failed
  <2>1. SUFFICES ASSUME sim = "failed" \/ sig = "failed", run.test.compliance => run.test.results
                 PROVE  failed
    BY <1>10
  <2>2. CASE sim = "failed"
    <3>1. good_logs' = good_logs \ {path}
      BY <1>4, <2>2 DEF Written
    <3> QED
      BY <1>8, <2>1, <3>1 DEF check_log
  <2>3. CASE sig = "failed"
    <3>1. good_diffs' = good_diffs \ {path} /\ run.test.compliance
      BY <1>4, <2>3 DEF Written
    <3>2. CASE cmd.cfg # None
      BY <3>1, <3>2, <1>7, <2>1 DEF check_log
    <3>3. CASE cmd.cfg = None
      BY <3>1, <3>3, <1>7, <1>9, RegressAssumption DEF check_log
    <3> QED
      BY <3>2, <3>3
  <2> QED
    BY <2>1, <2>2, <2>3
<1>12. ASSUME sim = "passed", run.test.compliance => sig = "passed", NoLostDiff
       PROVE  ~failed
  <2>1. path \in good_logs'
    BY <1>4, <1>12 DEF Written
  <2>2. ASSUME run.test.compliance PROVE compliance_diff_log(run) \in good_diffs'
    <3>1. cmd.cfg # None /\ run.test.results
      BY <2>2, <1>2, <1>12 DEF NoLostDiff
    <3>2. path \in good_diffs'
      BY <2>2, <1>4, <1>12 DEF Written
    <3> QED
      BY <2>2, <3>1, <3>2, <1>7
  <2>3. run.test.compliance => run.test.results
    BY <1>2, <1>12 DEF NoLostDiff
  <2> QED
    BY <2>1, <2>2, <2>3, <1>8 DEF check_log
<1>13. Runs' = Runs
  BY <1>1 DEF Runs
<1>14. NoLostDiff' = NoLostDiff
  BY <1>1, <1>13 DEF NoLostDiff
<1>15. failed \in BOOLEAN
  OBVIOUS
<1> HIDE DEF failed, path
<1>16. ReadInv'
  BY <1>1, WithinFile DEF IInv, ReadInv
<1>17. bad' \in BOOLEAN /\ smooth' \in BOOLEAN
  BY <1>4 DEF IInv, ScriptInv
<1>18. fail_count \in Nat /\ fail_count' \in Nat
  BY <1>5 DEF IInv, ScriptInv
<1>19. bad' => fail_count' # 0
  <2>1. CASE failed
    BY <2>1, <1>5, <1>18
  <2>2. CASE ~failed
    <3>1. bad' => bad
      BY <2>2, <1>4, <1>10, <1>11
    <3> QED
      BY <3>1, <2>2, <1>1, <1>5 DEF IInv, ScriptInv
  <2> QED
    BY <2>1, <2>2
<1>20. smooth' /\ NoLostDiff => fail_count' = 0
  <2> SUFFICES ASSUME smooth', NoLostDiff PROVE fail_count' = 0
    OBVIOUS
  <2>1. smooth /\ sim = "passed" /\ (run.test.compliance => sig = "passed")
    BY <1>4
  <2>2. ~failed
    BY <2>1, <1>12
  <2> QED
    BY <2>1, <2>2, <1>1, <1>5 DEF IInv, ScriptInv
<1>21. ScriptInv'
  BY <1>1, <1>9, <1>13, <1>14, <1>17, <1>18, <1>19, <1>20 DEF IInv, ScriptInv
<1> QED
  BY <1>1, <1>16, <1>21 DEF IInv, FailureCounted, GoodRunsPass, Done

(* The exit status follows from the counts. *)
LEMMA ExitStep == IInv /\ ExitScript => IInv'
<1> SUFFICES ASSUME IInv, ExitScript PROVE IInv'
  OBVIOUS
<1>1. /\ UNCHANGED <<cmd, cur, k, regressions, good_diffs, pending, fail_count, bad, smooth>>
      /\ pc = "run" /\ pc' = "ended" /\ exit' = IF fail_count # 0 THEN 1 ELSE 0
  BY DEF ExitScript, Fail, read, counts, files, hist
<1>2. ReadInv'
  BY <1>1, WithinFile DEF IInv, ReadInv, Reading
<1>3. Runs' = Runs
  BY <1>1 DEF Runs
<1>4. ScriptInv'
  BY <1>1 DEF IInv, ScriptInv
<1>5. FailureCounted' /\ GoodRunsPass'
  BY <1>1, <1>3 DEF IInv, ScriptInv, NoLostDiff, FailureCounted, GoodRunsPass
<1> QED
  BY <1>2, <1>4, <1>5 DEF IInv

(* A new command line starts again from no regressions. *)
LEMMA NewCommandStep ==
    ASSUME IInv, NEW c \in CommandLines, NewCommand(c)
    PROVE  IInv'
<1>1. /\ cmd' = c /\ pc' = "file" /\ regressions' = <<>>
      /\ UNCHANGED <<cur, k, good_diffs, fail_count, bad, smooth>>
  BY DEF NewCommand, counts, files, hist
<1>2. Len(c.files) \in Nat
  BY RegressAssumption DEF CommandLine
<1>3. ReadInv'
  BY <1>1, <1>2 DEF IInv, ReadInv, Reading
<1>4. ScriptInv'
  BY <1>1 DEF IInv, ScriptInv
<1> QED
  BY <1>1, <1>3, <1>4 DEF IInv, FailureCounted, GoodRunsPass, Done

(* Every step preserves the invariant. *)
LEMMA StepIInv == IInv /\ [Next]_vars => IInv'
<1> SUFFICES ASSUME IInv, [Next]_vars PROVE IInv'
  OBVIOUS
<1>1. CASE ReadFile
  <2>1. /\ UNCHANGED <<cmd, regressions, pending, fail_count, good_diffs, bad, smooth>>
        /\ cur' = Regression /\ k' = 1 /\ pc' \in {"builds", "ended"}
        /\ Len(regressions) # Len(cmd.files)
    BY <1>1 DEF ReadFile, Fail, counts, files, hist
  <2>2. Len(regressions) < Len(cmd.files)
    BY <2>1, RegressAssumption DEF IInv, ReadInv, CommandLine
  <2>3. ReadInv'
    BY <2>1, <2>2, WithinFile, EmptyRegression DEF IInv
  <2> QED
    BY <2>1, <2>3, ReadingStep
<1>2. CASE BuildsRead
  <2>1. /\ UNCHANGED <<cmd, cur, regressions, pending, fail_count, good_diffs, bad, smooth>>
        /\ k' = 1 /\ pc = "builds" /\ pc' = "tests"
    BY <1>2 DEF BuildsRead, counts, files, hist
  <2>2. ReadInv'
    BY <2>1, WithinFile DEF IInv, ReadInv, Reading
  <2> QED
    BY <2>1, <2>2, ReadingStep
<1>3. CASE UNCHANGED vars
  <2>1. /\ UNCHANGED <<cmd, pc, cur, k, regressions, pending, fail_count, good_diffs, bad, smooth,
                       exit>>
    BY <1>3 DEF vars, read, counts, files, hist
  <2>2. ReadInv'
    BY <2>1, WithinFile DEF IInv, ReadInv
  <2>3. Runs' = Runs
    BY <2>1 DEF Runs
  <2>4. ScriptInv' /\ FailureCounted' /\ GoodRunsPass'
    BY <2>1, <2>3 DEF IInv, ScriptInv, NoLostDiff, FailureCounted, GoodRunsPass, Done
  <2> QED
    BY <2>2, <2>4 DEF IInv
<1> QED
  BY <1>1, <1>2, <1>3, AddBuildStep, AddTestStep, FileReadStep, StartScriptStep, BuildingStep,
     RunTestStep, ExitStep, NewCommandStep DEF Next

(* Whatever the testlists hold, whichever runs share a log, and whatever   *)
(* earlier sessions left behind, no failure of a session is lost.          *)
THEOREM FailuresAlwaysCounted == Spec => []FailureCounted
<1>1. IInv => FailureCounted
  BY DEF IInv
<1> QED
  BY InitIInv, StepIInv, <1>1, PTL DEF Spec

(* And a session in which everything passes is a pass: the log that is     *)
(* checked is the log that was written.                                    *)
THEOREM GoodRunsAlwaysPass == Spec => []GoodRunsPass
<1>1. IInv => GoodRunsPass
  BY DEF IInv
<1> QED
  BY InitIInv, StepIInv, <1>1, PTL DEF Spec

-----------------------------------------------------------------------------
(* What a regression has to do with its testlist, what the counts have to  *)
(* do with the runs that are left, and what a clean count says of the logs.*)

(* r has been made from the builds of testlist f at the positions D. *)
ReadBuilds(r, f, D) ==
    /\ Range(r.builds) = {Build(f.builds[j]) : j \in D}
    /\ \A i, j \in D : f.builds[i].name = f.builds[j].name => i = j

(* r has been made from the tests at D that the simulator does not skip. *)
NotSkipped(f, D) == {j \in D : ~f.tests[j].skip_sim}

ReadTests(r, f, D) ==
    /\ Range(r.tests) = {Test(f.tests[j]) : j \in NotSkipped(f, D)}
    /\ \A j \in NotSkipped(f, D) : f.tests[j].builds # <<>> \/ f.tests[j].build # None
    /\ \A i, j \in NotSkipped(f, D) : f.tests[i].name = f.tests[j].name => i = j

FromFile(r, f) == ReadBuilds(r, f, DOMAIN f.builds) /\ ReadTests(r, f, DOMAIN f.tests)

Below(s, n) == {j \in DOMAIN s : j < n}

ListInv ==
    /\ \A i \in DOMAIN regressions : FromFile(regressions[i], cmd.files[i])
    /\ pc = "builds" => /\ ReadBuilds(cur, YamlFile, Below(YamlFile.builds, k))
                        /\ cur.tests = <<>>
    /\ pc = "tests" => /\ ReadBuilds(cur, YamlFile, DOMAIN YamlFile.builds)
                       /\ ReadTests(cur, YamlFile, Below(YamlFile.tests, k))

CountInv ==
    /\ pass_count \in Nat
    /\ pc \in {"make", "run"} =>
          pass_count + fail_count + Cardinality(pending) = Cardinality(Runs)
    /\ Done => pass_count + fail_count = Cardinality(Runs)

LogInv ==
    /\ pc \in {"make", "run"} /\ fail_count = 0 =>
          \A run \in Runs \ pending : MadePath(run) \in good_logs
    /\ Done /\ exit = 0 => \A run \in Runs : MadePath(run) \in good_logs

(* The regressions read before stay what their testlists say. *)
LEMMA ListFrame ==
    ASSUME ListInv, UNCHANGED <<cmd, regressions>>
    PROVE  (\A i \in DOMAIN regressions : FromFile(regressions[i], cmd.files[i]))'
  BY DEF ListInv, FromFile, ReadBuilds, ReadTests, NotSkipped, Build, Test, set_cov

(* Where the positions below k + 1 are. *)
LEMMA BelowNext ==
    ASSUME NEW S, NEW s \in Seq(S), NEW n \in Nat
    PROVE  /\ n \in 1 .. Len(s) => Below(s, n + 1) = Below(s, n) \cup {n}
           /\ n > Len(s) => Below(s, n) = DOMAIN s
           /\ Below(s, 1) = {}
           /\ n \notin Below(s, n) /\ Below(s, n) \subseteq DOMAIN s
<1>1. DOMAIN s = 1 .. Len(s) /\ Len(s) \in Nat
  OBVIOUS
<1> QED
  BY <1>1 DEF Below

(* The testlist being read, and the lists in it. *)
LEMMA ListTypes ==
    ASSUME ReadInv, pc \in Reading
    PROVE  /\ YamlFile \in Testlist
           /\ YamlFile.builds \in Seq(BuildEntry) /\ YamlFile.tests \in Seq(TestEntry)
           /\ k \in Nat \ {0}
           /\ cur.builds \in Seq(BuildObject) /\ cur.tests \in Seq(TestObject)
<1>1. YamlFile \in Testlist
  BY YamlFacts DEF ReadInv
<1> QED
  BY <1>1 DEF ReadInv, Testlist, RegressionObject

(* One more build of the testlist is in the regression. *)
LEMMA ReadOneBuild ==
    ASSUME NEW r, NEW r2, NEW f \in Testlist, NEW n \in 1 .. Len(f.builds),
           r.builds \in Seq(BuildObject),
           r2.builds = Append(r.builds, Build(f.builds[n])),
           Build(f.builds[n]).name \notin Names(r.builds),
           ReadBuilds(r, f, Below(f.builds, n))
    PROVE  ReadBuilds(r2, f, Below(f.builds, n + 1))
<1> DEFINE D == Below(f.builds, n)
           E == Below(f.builds, n + 1)
<1>1. E = D \cup {n}
  BY BelowNext DEF Testlist
<1>2. Range(r2.builds) = Range(r.builds) \cup {Build(f.builds[n])}
  BY RangeAppend
<1> HIDE DEF D, E
<1>3. Range(r2.builds) = {Build(f.builds[j]) : j \in E}
  BY <1>1, <1>2 DEF ReadBuilds, D
<1>4. \A j \in D : f.builds[j].name # f.builds[n].name
  <2>1. \A x : Build(x).name = x.name
    BY DEF Build
  <2> QED
    BY <2>1 DEF ReadBuilds, D, Names
<1>5. \A i, j \in E : f.builds[i].name = f.builds[j].name => i = j
  BY <1>1, <1>4 DEF ReadBuilds, D
<1> QED
  BY <1>3, <1>5 DEF ReadBuilds, E

(* One more test of the testlist is in it, unless it is skipped. *)
LEMMA ReadOneTest ==
    ASSUME NEW r, NEW r2, NEW f \in Testlist, NEW n \in 1 .. Len(f.tests),
           r.tests \in Seq(TestObject),
           f.tests[n].skip_sim => r2 = r,
           ~f.tests[n].skip_sim =>
              /\ r2.tests = Append(r.tests, Test(f.tests[n]))
              /\ Test(f.tests[n]).name \notin Names(r.tests)
              /\ f.tests[n].builds # <<>> \/ f.tests[n].build # None,
           ReadTests(r, f, Below(f.tests, n))
    PROVE  ReadTests(r2, f, Below(f.tests, n + 1))
<1> DEFINE D == NotSkipped(f, Below(f.tests, n))
           E == NotSkipped(f, Below(f.tests, n + 1))
<1>1. Below(f.tests, n + 1) = Below(f.tests, n) \cup {n}
  BY BelowNext DEF Testlist
<1>2. CASE f.tests[n].skip_sim
  <2>1. E = D
    BY <1>1, <1>2 DEF NotSkipped
  <2> QED
    BY <1>2, <2>1 DEF ReadTests
<1>3. CASE ~f.tests[n].skip_sim
  <2>1. E = D \cup {n}
    BY <1>1, <1>3 DEF NotSkipped
  <2>2. Range(r2.tests) = Range(r.tests) \cup {Test(f.tests[n])}
    BY <1>3, RangeAppend
  <2> HIDE DEF D, E
  <2>3. Range(r2.tests) = {Test(f.tests[j]) : j \in E}
    BY <2>1, <2>2 DEF ReadTests, D
  <2>4. \A j \in D : f.tests[j].name # f.tests[n].name
    <3>1. \A x : Test(x).name = x.name
      BY DEF Test
    <3> QED
      BY <1>3, <3>1 DEF ReadTests, D, Names
  <2>5. \A i, j \in E : f.tests[i].name = f.tests[j].name => i = j
    BY <2>1, <2>4 DEF ReadTests, D
  <2>6. \A j \in E : f.tests[j].builds # <<>> \/ f.tests[j].build # None
    BY <1>3, <2>1 DEF ReadTests, D
  <2> QED
    BY <2>3, <2>5, <2>6 DEF ReadTests, E
<1> QED
  BY <1>2, <1>3

(* A step that leaves the regressions and is not within a testlist. *)
LEMMA OutsideFile ==
    ASSUME ListInv, UNCHANGED <<cmd, regressions>>, pc' \notin Reading
    PROVE  ListInv'
  BY ListFrame DEF ListInv, Reading

(* What a regression has of its testlist depends on the options only. *)
LEMMA ReadFrame ==
    ASSUME cmd' = cmd, NEW r, NEW f, NEW D
    PROVE  /\ ReadBuilds(r, f, D)' <=> ReadBuilds(r, f, D)
           /\ ReadTests(r, f, D)' <=> ReadTests(r, f, D)
  BY DEF ReadBuilds, ReadTests, NotSkipped, Build, Test, set_cov

(* add_build: the k-th build of the testlist is the next of the regression. *)
LEMMA AddBuildList == IInv /\ ListInv /\ AddBuild => ListInv'
<1> SUFFICES ASSUME IInv, ListInv, AddBuild PROVE ListInv'
  OBVIOUS
<1>1. /\ pc = "builds" /\ UNCHANGED <<cmd, regressions>> /\ k <= Len(YamlFile.builds)
      /\ add_build(Build(YamlFile.builds[k]))
  BY DEF AddBuild
<1>2. CASE Build(YamlFile.builds[k]).name \in Names(cur.builds)
  <2>1. pc' = "ended"
    BY <1>1, <1>2 DEF add_build, Fail
  <2> QED
    BY <1>1, <2>1, OutsideFile DEF Reading
<1>3. CASE Build(YamlFile.builds[k]).name \notin Names(cur.builds)
  <2>1. /\ cur' = [cur EXCEPT !.builds = Append(@, Build(YamlFile.builds[k]))]
        /\ k' = k + 1 /\ pc' = "builds"
    BY <1>1, <1>3 DEF add_build
  <2>2. /\ YamlFile \in Testlist /\ k \in Nat \ {0} /\ cur.builds \in Seq(BuildObject)
        /\ YamlFile.builds \in Seq(BuildEntry) /\ cur \in RegressionObject
        /\ cmd \in CommandLines
    BY <1>1, ListTypes DEF IInv, ReadInv, Reading
  <2>3. k \in 1 .. Len(YamlFile.builds)
    BY <1>1, <2>2
  <2>4. Build(YamlFile.builds[k]) \in BuildObject
    BY <2>2, <2>3, BuildFacts
  <2>5. cur'.tests = cur.tests /\ cur'.builds = Append(cur.builds, Build(YamlFile.builds[k]))
    BY <2>1, <2>2, <2>4, WithBuild
  <2>6. PICK f \in Testlist, r2 \in {cur'}, n \in {k'} : f = YamlFile
    BY <2>2
  <2>7. ReadBuilds(r2, f, Below(f.builds, n))
    <3>1. ReadBuilds(cur, f, Below(f.builds, k))
      BY <1>1, <2>6 DEF ListInv
    <3>2. k \in 1 .. Len(f.builds) /\ r2.builds = Append(cur.builds, Build(f.builds[k]))
      BY <2>3, <2>5, <2>6
    <3>3. ReadBuilds(r2, f, Below(f.builds, k + 1))
      BY <1>3, <2>2, <2>6, <3>1, <3>2, ReadOneBuild
    <3> QED
      BY <2>1, <2>6, <3>3
  <2>8. ReadBuilds(r2, f, Below(f.builds, n))'
    BY <1>1, <2>7, ReadFrame
  <2>9. YamlFile' = f
    BY <1>1, <2>6 DEF YamlFile
  <2>10. ReadBuilds(cur, YamlFile, Below(YamlFile.builds, k))'
    BY <2>6, <2>8, <2>9 DEF ReadBuilds
  <2>11. cur'.tests = <<>>
    BY <1>1, <2>5 DEF ListInv
  <2> QED
    BY <1>1, <2>1, <2>10, <2>11, ListFrame DEF ListInv
<1> QED
  BY <1>2, <1>3

(* add_test: so is the k-th test, unless the simulator skips it. *)
LEMMA AddTestList == IInv /\ ListInv /\ AddTest => ListInv'
<1> SUFFICES ASSUME IInv, ListInv, AddTest PROVE ListInv'
  OBVIOUS
<1> DEFINE t == YamlFile.tests[k]
<1>1. pc = "tests" /\ UNCHANGED <<cmd, regressions>> /\ k <= Len(YamlFile.tests)
  BY DEF AddTest
<1>2. \/ pc' = "ended"
      \/ t.skip_sim /\ cur' = cur /\ k' = k + 1 /\ pc' = "tests"
      \/ /\ ~t.skip_sim /\ ~(t.builds = <<>> /\ t.build = None)
         /\ Test(t).name \notin Names(cur.tests)
         /\ cur' = [cur EXCEPT !.tests = Append(@, Test(t))]
         /\ k' = k + 1 /\ pc' = "tests"
  BY DEF AddTest, add_test, Fail
<1>3. CASE pc' = "ended"
  BY <1>1, <1>3, OutsideFile DEF Reading
<1>4. CASE pc' # "ended"
  <2>1. /\ YamlFile \in Testlist /\ k \in Nat \ {0} /\ cur.tests \in Seq(TestObject)
        /\ YamlFile.tests \in Seq(TestEntry) /\ cur \in RegressionObject
        /\ cmd \in CommandLines
    BY <1>1, ListTypes DEF IInv, ReadInv, Reading
  <2>2. k \in 1 .. Len(YamlFile.tests) /\ Test(t) \in TestObject
    BY <1>1, <2>1, TestFacts
  <2>3. PICK f \in Testlist, r2 \in {cur'}, n \in {k'} : f = YamlFile
    BY <2>1
  <2>4. /\ f.tests[k].skip_sim => r2 = cur
        /\ ~f.tests[k].skip_sim =>
              /\ r2.tests = Append(cur.tests, Test(f.tests[k]))
              /\ Test(f.tests[k]).name \notin Names(cur.tests)
              /\ f.tests[k].builds # <<>> \/ f.tests[k].build # None
        /\ r2.builds = cur.builds
        /\ k' = k + 1 /\ pc' = "tests"
    <3>1. CASE t.skip_sim /\ cur' = cur /\ k' = k + 1 /\ pc' = "tests"
      BY <2>3, <3>1
    <3>2. CASE /\ ~t.skip_sim /\ ~(t.builds = <<>> /\ t.build = None)
               /\ Test(t).name \notin Names(cur.tests)
               /\ cur' = [cur EXCEPT !.tests = Append(@, Test(t))]
               /\ k' = k + 1 /\ pc' = "tests"
      <4>1. cur'.builds = cur.builds /\ cur'.tests = Append(cur.tests, Test(t))
        BY <2>1, <2>2, <3>2, WithTest
      <4> QED
        BY <2>3, <3>2, <4>1
    <3> QED
      BY <1>2, <1>4, <3>1, <3>2
  <2>5. ReadTests(r2, f, Below(f.tests, n))
    <3>1. ReadTests(cur, f, Below(f.tests, k))
      BY <1>1, <2>3 DEF ListInv
    <3>2. k \in 1 .. Len(f.tests)
      BY <2>2, <2>3
    <3>3. ReadTests(r2, f, Below(f.tests, k + 1))
      BY <2>1, <2>3, <2>4, <3>1, <3>2, ReadOneTest
    <3> QED
      BY <2>3, <2>4, <3>3
  <2>6. ReadBuilds(r2, f, DOMAIN f.builds)
    BY <1>1, <2>3, <2>4 DEF ListInv, ReadBuilds
  <2>7. ReadBuilds(r2, f, DOMAIN f.builds)' /\ ReadTests(r2, f, Below(f.tests, n))'
    BY <1>1, <2>5, <2>6, ReadFrame
  <2>8. YamlFile' = f
    BY <1>1, <2>3 DEF YamlFile
  <2>9. /\ ReadBuilds(cur, YamlFile, DOMAIN YamlFile.builds)'
        /\ ReadTests(cur, YamlFile, Below(YamlFile.tests, k))'
    BY <2>3, <2>7, <2>8 DEF ReadBuilds, ReadTests
  <2> QED
    BY <1>1, <2>4, <2>9, ListFrame DEF ListInv
<1> QED
  BY <1>3, <1>4

(* The other steps of reading: a testlist begins with nothing of it read,  *)
(* its builds have all been read before its tests, and at its end the      *)
(* regression has all of it.                                               *)
LEMMA FileList ==
    IInv /\ ListInv /\ (ReadFile \/ BuildsRead \/ FileRead) => ListInv'
<1> SUFFICES ASSUME IInv, ListInv, ReadFile \/ BuildsRead \/ FileRead PROVE ListInv'
  OBVIOUS
<1>0. Range(<<>>) = {}
  BY DEF Range
<1>1. CASE ReadFile
  <2>1. /\ UNCHANGED <<cmd, regressions>> /\ cur' = Regression /\ k' = 1
        /\ pc' \in {"builds", "ended"} /\ Len(regressions) # Len(cmd.files)
    BY <1>1 DEF ReadFile, Fail
  <2>2. CASE pc' = "ended"
    BY <2>1, <2>2, OutsideFile DEF Reading
  <2>3. CASE pc' = "builds"
    <3>1. Len(regressions) < Len(cmd.files)
      BY <2>1, RegressAssumption DEF IInv, ReadInv, CommandLine
    <3>2. YamlFile.builds \in Seq(BuildEntry) /\ YamlFile' = YamlFile
      BY <2>1, <3>1, YamlFacts DEF IInv, Testlist, YamlFile
    <3>3. Below(YamlFile.builds, 1) = {}
      BY <3>2, BelowNext
    <3>4. cur'.builds = <<>> /\ cur'.tests = <<>>
      BY <2>1 DEF Regression
    <3>5. ReadBuilds(cur, YamlFile, Below(YamlFile.builds, k))'
      BY <1>0, <2>1, <3>2, <3>3, <3>4 DEF ReadBuilds
    <3> QED
      BY <2>1, <2>3, <3>4, <3>5, ListFrame DEF ListInv
  <2> QED
    BY <2>1, <2>2, <2>3
<1>2. CASE BuildsRead
  <2>1. /\ UNCHANGED <<cmd, regressions, cur>> /\ k' = 1 /\ pc = "builds" /\ pc' = "tests"
        /\ k > Len(YamlFile.builds)
    BY <1>2 DEF BuildsRead
  <2>2. /\ YamlFile.builds \in Seq(BuildEntry) /\ YamlFile.tests \in Seq(TestEntry)
        /\ YamlFile' = YamlFile /\ k \in Nat
    BY <2>1, ListTypes DEF IInv, YamlFile, Reading
  <2>3. Below(YamlFile.builds, k) = DOMAIN YamlFile.builds /\ Below(YamlFile.tests, 1) = {}
    BY <2>1, <2>2, BelowNext
  <2>4. ReadBuilds(cur, YamlFile, DOMAIN YamlFile.builds) /\ cur.tests = <<>>
    BY <2>1, <2>3 DEF ListInv
  <2>5. ReadBuilds(cur, YamlFile, DOMAIN YamlFile.builds)'
    BY <2>1, <2>2, <2>4 DEF ReadBuilds, Build, set_cov
  <2>6. ReadTests(cur, YamlFile, Below(YamlFile.tests, k))'
    BY <1>0, <2>1, <2>2, <2>3, <2>4 DEF ReadTests, NotSkipped
  <2> QED
    BY <2>1, <2>5, <2>6, ListFrame DEF ListInv
<1>3. CASE FileRead
  <2>1. /\ UNCHANGED <<cmd, cur>> /\ pc = "tests" /\ pc' = "file"
        /\ regressions' = Append(regressions, cur) /\ k > Len(YamlFile.tests)
    BY <1>3 DEF FileRead
  <2>2. /\ YamlFile.tests \in Seq(TestEntry) /\ k \in Nat
        /\ regressions \in Seq(RegressionObject) /\ cur \in RegressionObject
    BY <2>1, ListTypes DEF IInv, ReadInv, Reading
  <2>3. Below(YamlFile.tests, k) = DOMAIN YamlFile.tests
    BY <2>1, <2>2, BelowNext
  <2>4. FromFile(cur, YamlFile)
    BY <2>1, <2>3 DEF ListInv, FromFile
  <2>5. ASSUME NEW i \in DOMAIN regressions' PROVE FromFile(regressions'[i], cmd.files[i])
    <3>1. CASE i \in DOMAIN regressions
      <4>1. regressions'[i] = regressions[i]
        BY <2>1, <2>2, <3>1
      <4> QED
        BY <3>1, <4>1 DEF ListInv
    <3>2. CASE i \notin DOMAIN regressions
      <4>1. i = Len(regressions) + 1 /\ regressions'[i] = cur
        BY <2>1, <2>2, <3>2
      <4> QED
        BY <2>4, <4>1 DEF YamlFile
    <3> QED
      BY <3>1, <3>2
  <2>6. (\A i \in DOMAIN regressions : FromFile(regressions[i], cmd.files[i]))'
    <3> SUFFICES ASSUME NEW i \in DOMAIN regressions' PROVE FromFile(regressions[i], cmd.files[i])'
      OBVIOUS
    <3>1. FromFile(regressions'[i], cmd.files[i]) /\ cmd' = cmd
      BY <2>1, <2>5
    <3>2. ReadBuilds(regressions[i], cmd.files[i], DOMAIN cmd.files[i].builds)'
      BY <3>1 DEF FromFile, ReadBuilds, Build, set_cov
    <3>3. ReadTests(regressions[i], cmd.files[i], DOMAIN cmd.files[i].tests)'
      BY <3>1 DEF FromFile, ReadTests, NotSkipped, Test, set_cov
    <3> QED
      BY <3>2, <3>3 DEF FromFile
  <2> QED
    BY <2>1, <2>6 DEF ListInv
<1> QED
  BY <1>1, <1>2, <1>3

-----------------------------------------------------------------------------
(* The runs of the script are the ones the testlists ask for. *)

(* A run is a test of a regression, one of its builds and an index. *)
LEMMA InRuns ==
    ASSUME NEW run
    PROVE  run \in Runs <=>
              \E i \in DOMAIN regressions : \E t \in Range(regressions[i].tests) :
                 \E p \in DOMAIN t.builds, j \in 0 .. t.num - 1 :
                    run = [reg |-> i, test |-> t, pos |-> p, idx |-> j]
<1> DEFINE U(i) == UNION {{[reg |-> i, test |-> t, pos |-> p, idx |-> j] :
                              p \in DOMAIN t.builds, j \in 0 .. t.num - 1} :
                          t \in Range(regressions[i].tests)}
<1>1. ASSUME NEW i
      PROVE  run \in U(i) <=> \E t \in Range(regressions[i].tests) :
                \E p \in DOMAIN t.builds, j \in 0 .. t.num - 1 :
                   run = [reg |-> i, test |-> t, pos |-> p, idx |-> j]
  OBVIOUS
<1>2. Runs = UNION {U(i) : i \in DOMAIN regressions}
  BY DEF Runs
<1> HIDE DEF U
<1> QED
  BY <1>1, <1>2

(* What is asked for is a test that is not skipped, one of its builds and  *)
(* an index.                                                               *)
LEMMA InWanted ==
    ASSUME NEW w
    PROVE  w \in Wanted <=>
              \E f \in DOMAIN cmd.files : \E t \in Range(cmd.files[f].tests) :
                 /\ ~t.skip_sim
                 /\ \E p \in DOMAIN WantedBuilds(t), j \in 0 .. WantedNum(t) - 1 :
                       w = <<f, t, p, j>>
<1> DEFINE S(f) == {x \in Range(cmd.files[f].tests) : ~x.skip_sim}
           U(f) == UNION {{<<f, t, p, j>> :
                              p \in DOMAIN WantedBuilds(t), j \in 0 .. WantedNum(t) - 1} :
                          t \in S(f)}
<1>1. ASSUME NEW f
      PROVE  w \in U(f) <=> \E t \in S(f) :
                \E p \in DOMAIN WantedBuilds(t), j \in 0 .. WantedNum(t) - 1 :
                   w = <<f, t, p, j>>
  OBVIOUS
<1>2. Wanted = UNION {U(f) : f \in DOMAIN cmd.files}
  BY DEF Wanted
<1> HIDE DEF U
<1> QED
  BY <1>1, <1>2

(* The test object has what is asked for. *)
LEMMA TestAsWanted ==
    ASSUME NEW t, t.builds # <<>> \/ t.build # None
    PROVE  /\ Test(t).builds = WantedBuilds(t) /\ Test(t).num = WantedNum(t)
           /\ Test(t).name = t.name /\ Test(t).compliance = t.compliance
           /\ Test(t).results = t.results /\ Test(t).makearg = t.makearg
           /\ Test(t).cov = IF t.cov = None /\ cmd.cov THEN "YES" ELSE t.cov
  BY DEF Test, WantedBuilds, WantedNum, set_cov

(* The run of the script for what a testlist asks for. *)
RunOf(w) == [reg |-> w[1], test |-> Test(w[2]), pos |-> w[3], idx |-> w[4]]

(* Everything asked for is run, *)
LEMMA WantedIsRun ==
    ASSUME ReadInv, ListInv, Len(regressions) = Len(cmd.files), NEW w \in Wanted
    PROVE  RunOf(w) \in Runs
<1>1. PICK f \in DOMAIN cmd.files : \E t \in Range(cmd.files[f].tests) :
         /\ ~t.skip_sim
         /\ \E p \in DOMAIN WantedBuilds(t), j \in 0 .. WantedNum(t) - 1 : w = <<f, t, p, j>>
  BY InWanted
<1>2. PICK t \in Range(cmd.files[f].tests) :
         /\ ~t.skip_sim
         /\ \E p \in DOMAIN WantedBuilds(t), j \in 0 .. WantedNum(t) - 1 : w = <<f, t, p, j>>
  BY <1>1
<1>3. PICK p \in DOMAIN WantedBuilds(t), j \in 0 .. WantedNum(t) - 1 : w = <<f, t, p, j>>
  BY <1>2
<1>4. f \in DOMAIN regressions
  BY RegressAssumption DEF ReadInv, CommandLine
<1>5. ReadTests(regressions[f], cmd.files[f], DOMAIN cmd.files[f].tests)
  BY <1>4 DEF ListInv, FromFile
<1>6. PICK q \in DOMAIN cmd.files[f].tests : t = cmd.files[f].tests[q]
  BY DEF Range
<1>7. q \in NotSkipped(cmd.files[f], DOMAIN cmd.files[f].tests)
  BY <1>2, <1>6 DEF NotSkipped
<1>8. Test(t) \in Range(regressions[f].tests) /\ (t.builds # <<>> \/ t.build # None)
  BY <1>5, <1>6, <1>7 DEF ReadTests
<1>9. Test(t).builds = WantedBuilds(t) /\ Test(t).num = WantedNum(t)
  BY <1>8, TestAsWanted
<1>10. RunOf(w) = [reg |-> f, test |-> Test(t), pos |-> p, idx |-> j]
  BY <1>3 DEF RunOf
<1> QED
  BY <1>3, <1>4, <1>8, <1>9, <1>10, InRuns

(* nothing else is, *)
LEMMA RunIsWanted ==
    ASSUME ReadInv, ListInv, Len(regressions) = Len(cmd.files), NEW run \in Runs
    PROVE  \E w \in Wanted : RunOf(w) = run
<1>1. PICK i \in DOMAIN regressions : \E t \in Range(regressions[i].tests) :
         \E p \in DOMAIN t.builds, j \in 0 .. t.num - 1 :
            run = [reg |-> i, test |-> t, pos |-> p, idx |-> j]
  BY InRuns
<1>2. PICK t \in Range(regressions[i].tests) :
         \E p \in DOMAIN t.builds, j \in 0 .. t.num - 1 :
            run = [reg |-> i, test |-> t, pos |-> p, idx |-> j]
  BY <1>1
<1>3. PICK p \in DOMAIN t.builds, j \in 0 .. t.num - 1 :
         run = [reg |-> i, test |-> t, pos |-> p, idx |-> j]
  BY <1>2
<1>4. i \in DOMAIN cmd.files
  BY RegressAssumption DEF ReadInv, CommandLine
<1> DEFINE f == cmd.files[i]
<1>5. ReadTests(regressions[i], f, DOMAIN f.tests)
  BY DEF ListInv, FromFile
<1>6. PICK q \in NotSkipped(f, DOMAIN f.tests) : t = Test(f.tests[q])
  BY <1>5 DEF ReadTests
<1> DEFINE u == f.tests[q]
<1>7. q \in DOMAIN f.tests /\ ~u.skip_sim
  BY <1>6 DEF NotSkipped
<1>8. u \in Range(f.tests)
  BY <1>7 DEF Range
<1>9. u.builds # <<>> \/ u.build # None
  BY <1>5, <1>6 DEF ReadTests
<1>10. t.builds = WantedBuilds(u) /\ t.num = WantedNum(u)
  BY <1>6, <1>9, TestAsWanted
<1> HIDE DEF u
<1>11. <<i, u, p, j>> \in Wanted
  BY <1>4, <1>7, <1>8, <1>10, <1>3, InWanted
<1>12. RunOf(<<i, u, p, j>>) = run
  BY <1>3, <1>6 DEF RunOf, u
<1> QED
  BY <1>11, <1>12

(* and nothing is run twice for one thing asked for. *)
LEMMA RunOfInjective ==
    ASSUME ReadInv, ListInv, Len(regressions) = Len(cmd.files),
           NEW v \in Wanted, NEW w \in Wanted, RunOf(v) = RunOf(w)
    PROVE  v = w
<1>1. ASSUME NEW x \in Wanted
      PROVE  \E f \in DOMAIN cmd.files :
                \E q \in NotSkipped(cmd.files[f], DOMAIN cmd.files[f].tests) :
                   x = <<f, cmd.files[f].tests[q], x[3], x[4]>>
  <2>1. PICK f \in DOMAIN cmd.files : \E t \in Range(cmd.files[f].tests) :
           /\ ~t.skip_sim
           /\ \E p \in DOMAIN WantedBuilds(t), j \in 0 .. WantedNum(t) - 1 : x = <<f, t, p, j>>
    BY InWanted
  <2> QED
    BY <2>1 DEF Range, NotSkipped
<1>2. PICK f \in DOMAIN cmd.files :
         \E q \in NotSkipped(cmd.files[f], DOMAIN cmd.files[f].tests) :
            v = <<f, cmd.files[f].tests[q], v[3], v[4]>>
  BY <1>1
<1>3. PICK q \in NotSkipped(cmd.files[f], DOMAIN cmd.files[f].tests) :
         v = <<f, cmd.files[f].tests[q], v[3], v[4]>>
  BY <1>2
<1>4. PICK g \in DOMAIN cmd.files :
         \E q2 \in NotSkipped(cmd.files[g], DOMAIN cmd.files[g].tests) :
            w = <<g, cmd.files[g].tests[q2], w[3], w[4]>>
  BY <1>1
<1>5. PICK q2 \in NotSkipped(cmd.files[g], DOMAIN cmd.files[g].tests) :
         w = <<g, cmd.files[g].tests[q2], w[3], w[4]>>
  BY <1>4
<1>6. /\ RunOf(v).reg = f /\ RunOf(v).pos = v[3] /\ RunOf(v).idx = v[4]
      /\ RunOf(v).test.name = cmd.files[f].tests[q].name
  BY <1>3 DEF RunOf, Test
<1>7. /\ RunOf(w).reg = g /\ RunOf(w).pos = w[3] /\ RunOf(w).idx = w[4]
      /\ RunOf(w).test.name = cmd.files[g].tests[q2].name
  BY <1>5 DEF RunOf, Test
<1>8. f \in DOMAIN regressions
  BY RegressAssumption DEF ReadInv, CommandLine
<1>9. ReadTests(regressions[f], cmd.files[f], DOMAIN cmd.files[f].tests)
  BY <1>8 DEF ListInv, FromFile
<1>10. q = q2
  BY <1>6, <1>7, <1>9 DEF ReadTests
<1> QED
  BY <1>3, <1>5, <1>6, <1>7, <1>10

(* The configuration asked for is that of the object made of the build. *)
LEMMA CfgAsWanted ==
    ASSUME ListInv, NEW i \in DOMAIN regressions, NEW q \in DOMAIN cmd.files[i].builds
    PROVE  /\ WantedCfg(i, cmd.files[i].builds[q].name) = Build(cmd.files[i].builds[q]).cfg
           /\ Lookup(regressions[i], cmd.files[i].builds[q].name) = Build(cmd.files[i].builds[q])
<1> DEFINE f == cmd.files[i]
           r == regressions[i]
           n == f.builds[q].name
           c == CHOOSE x \in Range(f.builds) : x.name = n
<1>0. ReadBuilds(r, f, DOMAIN f.builds)
  BY DEF ListInv, FromFile
<1>1. \A x : Build(x).name = x.name
  BY DEF Build
<1>2. \A x \in Range(f.builds) : x.name = n => x = f.builds[q]
  BY <1>0 DEF ReadBuilds, Range
<1>3. f.builds[q] \in Range(f.builds)
  BY DEF Range
<1>4. c = f.builds[q]
  BY <1>2, <1>3
<1>5. WantedCfg(i, n)
        = IF cmd.cfg # None THEN cmd.cfg ELSE IF c.cfg = None THEN "default" ELSE c.cfg
  BY DEF WantedCfg
<1>6. \A b \in Range(r.builds) : b.name = n => b = Build(f.builds[q])
  BY <1>0, <1>1 DEF ReadBuilds
<1>7. Build(f.builds[q]) \in Range(r.builds)
  BY <1>0 DEF ReadBuilds
<1>8. Lookup(r, n) = Build(f.builds[q])
  BY <1>1, <1>6, <1>7 DEF Lookup
<1> HIDE DEF c
<1>9. WantedCfg(i, n) = Build(f.builds[q]).cfg
  BY <1>4, <1>5 DEF Build
<1> QED
  BY <1>8, <1>9

(* The run made for what a testlist asks for has the test's attributes and *)
(* the configuration of the testlist's own build.                          *)
LEMMA RunAsWanted ==
    ASSUME ReadInv, ListInv, Len(regressions) = Len(cmd.files), NEW w \in Wanted,
           NEW n, n = WantedBuilds(w[2])[w[3]]
    PROVE  /\ RunOf(w).test.builds[w[3]] = n
           /\ Lookup(regressions[w[1]], n).name = n
           /\ Lookup(regressions[w[1]], n).cfg = WantedCfg(w[1], n)
           /\ RunOf(w).test.name = w[2].name /\ RunOf(w).test.compliance = w[2].compliance
           /\ RunOf(w).test.results = w[2].results /\ RunOf(w).test.makearg = w[2].makearg
           /\ RunOf(w).test.cov = IF w[2].cov = None /\ cmd.cov THEN "YES" ELSE w[2].cov
<1>1. PICK i \in DOMAIN cmd.files : \E t \in Range(cmd.files[i].tests) :
         /\ ~t.skip_sim
         /\ \E p \in DOMAIN WantedBuilds(t), j \in 0 .. WantedNum(t) - 1 : w = <<i, t, p, j>>
  BY InWanted
<1>2. PICK t \in Range(cmd.files[i].tests) :
         /\ ~t.skip_sim
         /\ \E p \in DOMAIN WantedBuilds(t), j \in 0 .. WantedNum(t) - 1 : w = <<i, t, p, j>>
  BY <1>1
<1>3. PICK p \in DOMAIN WantedBuilds(t), j \in 0 .. WantedNum(t) - 1 : w = <<i, t, p, j>>
  BY <1>2
<1> DEFINE f == cmd.files[i]
           r == regressions[i]
<1>4. i \in DOMAIN regressions
  BY RegressAssumption DEF ReadInv, CommandLine
<1>5. ReadTests(r, f, DOMAIN f.tests) /\ ReadBuilds(r, f, DOMAIN f.builds) /\ WellRead(r)
  BY <1>4 DEF ListInv, FromFile, ReadInv
<1>6. Test(t) \in Range(r.tests) /\ (t.builds # <<>> \/ t.build # None)
  BY <1>2, <1>5 DEF ReadTests, NotSkipped, Range
<1>7. /\ Test(t).builds = WantedBuilds(t) /\ Test(t).name = t.name
      /\ Test(t).compliance = t.compliance
      /\ Test(t).results = t.results /\ Test(t).makearg = t.makearg
      /\ Test(t).cov = IF t.cov = None /\ cmd.cov THEN "YES" ELSE t.cov
  BY <1>6, TestAsWanted
<1>8. n = WantedBuilds(t)[p] /\ n \in Names(r.builds)
  BY <1>3, <1>5, <1>6, <1>7 DEF WellRead, Range
<1>9. \A x : Build(x).name = x.name
  BY DEF Build
<1>10. PICK q \in DOMAIN f.builds : f.builds[q].name = n
  BY <1>5, <1>8, <1>9 DEF ReadBuilds, Names
<1>11. Lookup(r, n) = Build(f.builds[q]) /\ WantedCfg(i, n) = Build(f.builds[q]).cfg
  BY <1>4, <1>10, CfgAsWanted
<1>12. w[1] = i /\ w[2] = t /\ w[3] = p /\ RunOf(w).test = Test(t)
  BY <1>3 DEF RunOf
<1> QED
  BY <1>7, <1>8, <1>9, <1>10, <1>11, <1>12

(* A run's log is put where the testlist's own build says. *)
LEMMA LogOfWanted ==
    ASSUME ReadInv, ListInv, Len(regressions) = Len(cmd.files), NEW w \in Wanted
    PROVE  MadePath(RunOf(w))
              = [cfg |-> WantedCfg(w[1], WantedBuilds(w[2])[w[3]]),
                 dir |-> IF w[2].compliance \/ w[2].results THEN "prog" ELSE "log",
                 test |-> w[2].name, idx |-> w[4]]
<1>1. RunOf(w).reg = w[1] /\ RunOf(w).pos = w[3] /\ RunOf(w).idx = w[4]
  BY DEF RunOf
<1>2. Cfg(RunOf(w)) = WantedCfg(w[1], WantedBuilds(w[2])[w[3]])
  BY <1>1, RunAsWanted DEF Cfg
<1> QED
  BY <1>1, <1>2, RunAsWanted DEF MadePath, Path

-----------------------------------------------------------------------------
(* Counting. *)

(* The values of a function on a finite set are finitely many. *)
LEMMA FiniteImage ==
    ASSUME NEW A, IsFiniteSet(A), NEW g, DOMAIN g = A, g = [x \in A |-> g[x]]
    PROVE  IsFiniteSet({g[x] : x \in A})
<1> DEFINE T == {g[x] : x \in A}
<1>1. g \in [A -> T]
  OBVIOUS
<1>2. \A y \in T : \E x \in A : g[x] = y
  OBVIOUS
<1>3. g \in Surjection(A, T)
  BY <1>1, <1>2 DEF Surjection
<1> QED
  BY <1>3, FS_Surjection

(* A list has finitely many elements. *)
LEMMA FiniteRange ==
    ASSUME NEW S, NEW s \in Seq(S)
    PROVE  IsFiniteSet(DOMAIN s) /\ IsFiniteSet(Range(s))
<1>1. DOMAIN s = 1 .. Len(s) /\ Len(s) \in Nat /\ s = [x \in DOMAIN s |-> s[x]]
  OBVIOUS
<1>2. IsFiniteSet(1 .. Len(s))
  <2>1. 1 \in Int /\ Len(s) \in Int
    BY <1>1
  <2> QED
    BY <2>1, FS_Interval
<1>3. IsFiniteSet({s[x] : x \in DOMAIN s})
  BY <1>1, <1>2, FiniteImage
<1> QED
  BY <1>1, <1>2, <1>3 DEF Range

(* A script has finitely many runs. *)
LEMMA FiniteRuns ==
    ASSUME ReadInv
    PROVE  IsFiniteSet(Runs)
<1> DEFINE V(i, t) == {[reg |-> i, test |-> t, pos |-> p, idx |-> j] :
                          p \in DOMAIN t.builds, j \in 0 .. t.num - 1}
           U(i) == UNION {V(i, t) : t \in Range(regressions[i].tests)}
<1>1. ASSUME NEW i, NEW t \in TestObject PROVE IsFiniteSet(V(i, t))
  <2>1. IsFiniteSet(DOMAIN t.builds)
    BY FiniteRange DEF TestObject
  <2>2. IsFiniteSet(0 .. t.num - 1)
    <3>1. 0 \in Int /\ t.num - 1 \in Int
      BY DEF TestObject
    <3> QED
      BY <3>1, FS_Interval
  <2> DEFINE A == (DOMAIN t.builds) \X (0 .. t.num - 1)
             g == [x \in A |-> [reg |-> i, test |-> t, pos |-> x[1], idx |-> x[2]]]
  <2>3. IsFiniteSet(A)
    BY <2>1, <2>2, FS_Product
  <2>4. IsFiniteSet({g[x] : x \in A})
    <3>1. DOMAIN g = A /\ g = [x \in A |-> g[x]]
      OBVIOUS
    <3> HIDE DEF g, A
    <3> QED
      BY <2>3, <3>1, FiniteImage
  <2>5. V(i, t) \subseteq {g[x] : x \in A}
    <3>1. ASSUME NEW p \in DOMAIN t.builds, NEW j \in 0 .. t.num - 1
          PROVE  /\ <<p, j>> \in A
                 /\ g[<<p, j>>] = [reg |-> i, test |-> t, pos |-> p, idx |-> j]
      OBVIOUS
    <3> HIDE DEF g, A
    <3>2. ASSUME NEW y \in V(i, t) PROVE y \in {g[x] : x \in A}
      <4>1. PICK p \in DOMAIN t.builds, j \in 0 .. t.num - 1 :
               y = [reg |-> i, test |-> t, pos |-> p, idx |-> j]
        OBVIOUS
      <4>2. <<p, j>> \in A /\ g[<<p, j>>] = [reg |-> i, test |-> t, pos |-> p, idx |-> j]
        BY <3>1
      <4> QED
        BY <4>1, <4>2
    <3> HIDE DEF V
    <3> QED
      BY <3>2
  <2> HIDE DEF V, g, A
  <2> QED
    BY <2>4, <2>5, FS_Subset
<1> HIDE DEF V
<1>2. ASSUME NEW i \in DOMAIN regressions PROVE IsFiniteSet(U(i))
  <2> DEFINE A == Range(regressions[i].tests)
             g == [t \in A |-> V(i, t)]
  <2>1. regressions[i].tests \in Seq(TestObject)
    <3>1. regressions[i] \in RegressionObject
      BY DEF ReadInv
    <3> QED
      BY <3>1 DEF RegressionObject
  <2>2. IsFiniteSet(A) /\ A \subseteq TestObject
    BY <2>1, FiniteRange, RangeType
  <2> HIDE DEF A
  <2>3. DOMAIN g = A /\ g = [x \in A |-> g[x]] /\ \A x \in A : g[x] = V(i, x)
    OBVIOUS
  <2>4. U(i) = UNION {g[x] : x \in A}
    BY <2>3 DEF A
  <2> HIDE DEF g, U
  <2>5. IsFiniteSet({g[x] : x \in A})
    BY <2>2, <2>3, FiniteImage
  <2>6. \A T \in {g[x] : x \in A} : IsFiniteSet(T)
    BY <1>1, <2>2, <2>3
  <2> QED
    BY <2>4, <2>5, <2>6, FS_UNION
<1>3. Runs = UNION {U(i) : i \in DOMAIN regressions}
  BY DEF Runs, V
<1> HIDE DEF U
<1> DEFINE h == [i \in DOMAIN regressions |-> U(i)]
<1>4. /\ DOMAIN h = DOMAIN regressions /\ h = [x \in DOMAIN regressions |-> h[x]]
      /\ \A x \in DOMAIN regressions : h[x] = U(x)
  OBVIOUS
<1>5. Runs = UNION {h[x] : x \in DOMAIN regressions}
  BY <1>3, <1>4
<1> HIDE DEF h
<1>6. IsFiniteSet(DOMAIN regressions)
  BY FiniteRange DEF ReadInv
<1>7. IsFiniteSet({h[x] : x \in DOMAIN regressions})
  BY <1>4, <1>6, FiniteImage
<1>8. \A T \in {h[x] : x \in DOMAIN regressions} : IsFiniteSet(T)
  BY <1>2, <1>4
<1> QED
  BY <1>5, <1>7, <1>8, FS_UNION

(* There are as many runs as things asked for. *)
LEMMA CountWanted ==
    ASSUME ReadInv, ListInv, Len(regressions) = Len(cmd.files)
    PROVE  Cardinality(Wanted) = Cardinality(Runs)
<1> DEFINE g == [w \in Wanted |-> RunOf(w)]
<1>1. g \in [Wanted -> Runs]
  BY WantedIsRun
<1>2. \A v, w \in Wanted : g[v] = g[w] => v = w
  BY RunOfInjective
<1>3. \A run \in Runs : \E w \in Wanted : g[w] = run
  BY RunIsWanted
<1> HIDE DEF g
<1>4. g \in Injection(Wanted, Runs) /\ g \in Surjection(Wanted, Runs)
  BY <1>1, <1>2, <1>3 DEF Injection, Surjection, IsInjective
<1> QED
  BY <1>4, FiniteRuns, FS_Injection

(* The counts and the logs say something of the script only: a step of     *)
(* reading changes neither, and cv_regress ends before the last file.      *)
LEMMA ReadingCounts ==
    ASSUME IInv, CountInv, LogInv, pass_count' = pass_count,
           pc' \in {"file", "builds", "tests"} \/
              (pc' = "ended" /\ UNCHANGED <<cmd, regressions>> /\ Len(regressions) # Len(cmd.files))
    PROVE  CountInv' /\ LogInv'
  BY DEF CountInv, LogInv, Done

(* Where make puts the log of a run depends on the regressions only. *)
LEMMA SameRuns ==
    ASSUME UNCHANGED regressions
    PROVE  Runs' = Runs /\ \A run : MadePath(run)' = MadePath(run)
  BY DEF Runs, MadePath, Cfg, Path, Lookup

(* A session has all its runs before it; a build changes nothing of that. *)
LEMMA BeginCounts ==
    ASSUME IInv, CountInv, LogInv, StartScript \/ RunBuild \/ BuildsRun
    PROVE  CountInv' /\ LogInv'
<1>1. CASE StartScript
  <2>1. /\ UNCHANGED regressions /\ pc' = "make" /\ pending' = Runs
        /\ pass_count' = 0 /\ fail_count' = 0
    BY <1>1 DEF StartScript
  <2>2. Runs' = Runs
    BY <2>1, SameRuns
  <2>3. Cardinality(Runs) \in Nat
    BY FiniteRuns, FS_CardinalityType DEF IInv
  <2>4. pass_count' + fail_count' + Cardinality(pending)' = Cardinality(Runs)'
    BY <2>1, <2>2, <2>3
  <2> QED
    BY <2>1, <2>2, <2>4 DEF CountInv, LogInv, Done
<1>2. CASE RunBuild \/ BuildsRun
  <2>1. /\ UNCHANGED <<regressions, pending, pass_count, fail_count, good_logs>>
        /\ pc = "make" /\ pc' \in {"make", "run"}
    BY <1>2 DEF RunBuild, BuildsRun, read, counts, files
  <2>2. Runs' = Runs /\ \A run : MadePath(run)' = MadePath(run)
    BY <2>1, SameRuns
  <2>3. CountInv'
    BY <2>1, <2>2 DEF CountInv, Done
  <2> QED
    BY <2>1, <2>2, <2>3 DEF LogInv, Done
<1> QED
  BY <1>1, <1>2

(* A run is counted once, and as long as all have been counted as passed   *)
(* none has spoilt the log of an earlier one: its own check would see it.  *)
LEMMA RunTestCounts ==
    ASSUME IInv, CountInv, LogInv, NEW run \in pending, RunTest(run)
    PROVE  CountInv' /\ LogInv'
<1>1. /\ UNCHANGED <<cmd, pc, regressions>> /\ pc = "run" /\ pending' = pending \ {run}
  BY DEF RunTest, read
<1> DEFINE path == MadePath(run)
           failed == \/ ~check_log(Log(run), good_logs')
                     \/ /\ run.test.compliance
                        /\ ~check_log(compliance_diff_log(run), good_diffs')
<1>2. PICK sim \in {"none", "passed", "failed"} : good_logs' = Written(path, sim, good_logs)
  BY DEF RunTest
<1>3. /\ pass_count' = IF failed THEN pass_count ELSE pass_count + 1
      /\ fail_count' = IF failed THEN fail_count + 1 ELSE fail_count
  BY DEF RunTest, incr_test_counts
<1>4. ~failed => path \in good_logs'
  <2>1. ASSUME run.test.compliance, ~run.test.results PROVE failed
    <3>1. compliance_diff_log(run).dir = "log_idx"
      BY <2>1 DEF compliance_diff_log, Path
    <3>2. \A p \in good_diffs' : p.dir = "prog"
      BY RunTestStep DEF IInv, ScriptInv
    <3> QED
      BY <2>1, <3>1, <3>2 DEF check_log
  <2>2. (run.test.compliance => run.test.results) => Log(run) = path
    BY DEF Log, MadePath, Path
  <2> QED
    BY <2>1, <2>2 DEF check_log
<1> HIDE DEF failed
<1>6. Runs' = Runs /\ \A x : MadePath(x)' = MadePath(x)
  BY <1>1, SameRuns
<1>7. /\ IsFiniteSet(Runs) /\ pending \subseteq Runs /\ fail_count \in Nat /\ pass_count \in Nat
      /\ pass_count + fail_count + Cardinality(pending) = Cardinality(Runs)
  BY <1>1, FiniteRuns DEF IInv, ScriptInv, CountInv
<1>8. /\ Cardinality(pending) \in Nat
      /\ Cardinality(pending \ {run}) = Cardinality(pending) - 1
  <2>1. IsFiniteSet(pending)
    BY <1>7, FS_Subset
  <2> QED
    BY <2>1, FS_RemoveElement, FS_CardinalityType
<1>9. /\ pass_count' + fail_count' = pass_count + fail_count + 1
      /\ pass_count' \in Nat /\ fail_count' \in Nat
      /\ fail_count' = 0 => fail_count = 0 /\ ~failed
  BY <1>3, <1>7
<1>10. Cardinality(Runs) \in Nat
  BY <1>7, FS_CardinalityType
<1>11. pass_count' + fail_count' + Cardinality(pending') = Cardinality(Runs)
  <2>1. Cardinality(pending') = Cardinality(pending) - 1
    BY <1>1, <1>8
  <2>2. pass_count + fail_count + 1 + (Cardinality(pending) - 1) = Cardinality(Runs)
    BY <1>7, <1>8, <1>10
  <2> QED
    BY <1>9, <2>1, <2>2
<1>12. CountInv'
  BY <1>1, <1>6, <1>9, <1>11 DEF CountInv, Done
<1>13. ASSUME fail_count' = 0, NEW x \in Runs \ pending'
       PROVE  MadePath(x) \in good_logs'
  <2>1. sim # "failed" => good_logs \subseteq good_logs'
    BY <1>2 DEF Written
  <2>2. sim # "failed"
    BY <1>2, <1>4, <1>9, <1>13 DEF Written
  <2>3. CASE x = run
    BY <1>4, <1>9, <1>13, <2>3
  <2>4. CASE x # run
    <3>1. x \in Runs \ pending
      BY <1>1, <1>13, <2>4
    <3>2. MadePath(x) \in good_logs
      BY <1>1, <1>9, <1>13, <3>1 DEF LogInv
    <3> QED
      BY <2>1, <2>2, <3>2
  <2> QED
    BY <2>3, <2>4
<1>14. LogInv'
  BY <1>1, <1>6, <1>13 DEF LogInv, Done
<1> QED
  BY <1>12, <1>14

(* When the script ends no run is left. *)
LEMMA ExitCounts ==
    ASSUME IInv, CountInv, LogInv, ExitScript
    PROVE  CountInv' /\ LogInv'
<1>1. /\ UNCHANGED <<cmd, regressions, pending, pass_count, fail_count, good_logs>>
      /\ pc = "run" /\ pc' = "ended" /\ exit' = (IF fail_count # 0 THEN 1 ELSE 0) /\ pending = {}
  BY DEF ExitScript, Fail, read, counts, files
<1>2. Runs' = Runs /\ \A run : MadePath(run)' = MadePath(run)
  BY <1>1, SameRuns
<1>3. pass_count + fail_count = Cardinality(Runs)
  <2>1. Cardinality(pending) = 0
    BY <1>1, FS_EmptySet
  <2>2. pass_count \in Nat /\ fail_count \in Nat
    BY DEF IInv, ScriptInv, CountInv
  <2> QED
    BY <1>1, <2>1, <2>2 DEF CountInv
<1>4. CountInv'
  BY <1>1, <1>2, <1>3 DEF CountInv
<1> QED
  BY <1>1, <1>2, <1>4 DEF LogInv

(* ListInv, CountInv and LogInv are invariant, given IInv. *)
MoreInv == ListInv /\ CountInv /\ LogInv

(* They hold before anything is read. *)
LEMMA InitMore == Init => MoreInv
  BY DEF Init, MoreInv, ListInv, CountInv, LogInv, Done

(* Every step preserves them. *)
LEMMA StepMore == IInv /\ MoreInv /\ [Next]_vars => MoreInv'
<1> SUFFICES ASSUME IInv, ListInv, CountInv, LogInv, [Next]_vars
             PROVE  ListInv' /\ CountInv' /\ LogInv'
  BY DEF MoreInv
<1>1. CASE ReadFile \/ AddBuild \/ BuildsRead \/ AddTest \/ FileRead
  <2>1. ListInv'
    BY <1>1, AddBuildList, AddTestList, FileList
  <2>2. CASE ReadFile
    <3>1. /\ UNCHANGED <<cmd, regressions, pass_count>> /\ pc' \in {"builds", "ended"}
          /\ Len(regressions) # Len(cmd.files)
      BY <2>2 DEF ReadFile, Fail, counts
    <3> QED
      BY <2>1, <3>1, ReadingCounts
  <2>3. CASE AddBuild \/ AddTest
    <3>1. /\ UNCHANGED <<cmd, regressions, pass_count>> /\ pc' \in {"builds", "tests", "ended"}
          /\ pc \in Reading
      BY <2>3 DEF AddBuild, AddTest, add_build, add_test, Fail, counts, Reading
    <3>2. Len(regressions) # Len(cmd.files)
      BY <3>1, RegressAssumption DEF IInv, ReadInv, CommandLine
    <3> QED
      BY <2>1, <3>1, <3>2, ReadingCounts
  <2>4. CASE BuildsRead \/ FileRead
    <3>1. pass_count' = pass_count /\ pc' \in {"file", "tests"}
      BY <2>4 DEF BuildsRead, FileRead, counts
    <3> QED
      BY <2>1, <3>1, ReadingCounts
  <2> QED
    BY <1>1, <2>2, <2>3, <2>4
<1>2. CASE StartScript \/ RunBuild \/ BuildsRun
  <2>1. UNCHANGED <<cmd, regressions>> /\ pc' \notin Reading
    BY <1>2 DEF StartScript, RunBuild, BuildsRun, read, Reading
  <2> QED
    BY <1>2, <2>1, OutsideFile, BeginCounts
<1>3. ASSUME NEW run \in pending, RunTest(run)
      PROVE  ListInv' /\ CountInv' /\ LogInv'
  <2>1. UNCHANGED <<cmd, regressions>> /\ pc' \notin Reading
    BY <1>3 DEF RunTest, read, Reading
  <2> QED
    BY <1>3, <2>1, OutsideFile, RunTestCounts
<1>4. CASE ExitScript
  <2>1. UNCHANGED <<cmd, regressions>> /\ pc' \notin Reading
    BY <1>4 DEF ExitScript, Fail, read, Reading
  <2> QED
    BY <1>4, <2>1, OutsideFile, ExitCounts
<1>5. ASSUME NEW c \in CommandLines, NewCommand(c)
      PROVE  ListInv' /\ CountInv' /\ LogInv'
  <2>1. regressions' = <<>> /\ pc' = "file" /\ pass_count' = pass_count
    BY <1>5 DEF NewCommand, counts
  <2> QED
    BY <2>1, ReadingCounts DEF ListInv
<1>6. CASE UNCHANGED vars
  <2>1. UNCHANGED <<cmd, pc, cur, k, regressions, pending, pass_count, fail_count, exit, good_logs>>
    BY <1>6 DEF vars, read, counts, files
  <2>2. Runs' = Runs /\ \A run : MadePath(run)' = MadePath(run)
    BY <2>1, SameRuns
  <2>3. CountInv' /\ LogInv'
    BY <2>1, <2>2 DEF CountInv, LogInv, Done
  <2>4. ListInv'
    <3>1. YamlFile' = YamlFile
      BY <2>1 DEF YamlFile
    <3>2. /\ pc = "builds" => ReadBuilds(cur, YamlFile, Below(YamlFile.builds, k))'
          /\ pc = "tests" => /\ ReadBuilds(cur, YamlFile, DOMAIN YamlFile.builds)'
                             /\ ReadTests(cur, YamlFile, Below(YamlFile.tests, k))'
      BY <2>1, <3>1 DEF ListInv, ReadBuilds, ReadTests, NotSkipped, Build, Test, set_cov
    <3> QED
      BY <2>1, <3>1, <3>2, ListFrame DEF ListInv
  <2> QED
    BY <2>3, <2>4
<1> QED
  BY <1>1, <1>2, <1>3, <1>4, <1>5, <1>6 DEF Next

(* Both invariants together. *)
THEOREM Invariance == Spec => [](IInv /\ MoreInv)
<1>1. Init => IInv /\ MoreInv
  BY InitIInv, InitMore
<1>2. IInv /\ MoreInv /\ [Next]_vars => (IInv /\ MoreInv)'
  BY StepIInv, StepMore
<1> QED
  BY <1>1, <1>2, PTL DEF Spec

(* For all testlists and options: when a script ends, each combination of  *)
(* test, build and index that the testlists ask for has been counted, and  *)
(* none twice, whatever files define the same names.                       *)
THEOREM NothingEverLost == Spec => []NothingLost
<1>1. IInv /\ MoreInv => NothingLost
  <2> SUFFICES ASSUME ReadInv, ListInv, CountInv, Done
               PROVE  pass_count + fail_count = Cardinality(Wanted)
    BY DEF IInv, MoreInv, NothingLost
  <2>1. Cardinality(Wanted) = Cardinality(Runs)
    BY CountWanted DEF Done
  <2> QED
    BY <2>1 DEF CountInv
<1> QED
  BY <1>1, Invariance, PTL

(* A script that ends with 0 leaves, for everything the testlists ask for, *)
(* a log that says the simulation passed: a run that is overwritten by a   *)
(* later one of the same name is vouched for by the later one's check.     *)
THEOREM PassAlwaysReal == Spec => []PassIsReal
<1>1. IInv /\ MoreInv => PassIsReal
  <2> SUFFICES ASSUME ReadInv, ListInv, LogInv, Done, exit = 0, NEW w \in Wanted
               PROVE  [cfg |-> WantedCfg(w[1], WantedBuilds(w[2])[w[3]]),
                       dir |-> IF w[2].compliance \/ w[2].results THEN "prog" ELSE "log",
                       test |-> w[2].name, idx |-> w[4]] \in good_logs
    BY DEF IInv, MoreInv, PassIsReal
  <2>1. RunOf(w) \in Runs
    BY WantedIsRun DEF Done
  <2>2. MadePath(RunOf(w)) \in good_logs
    BY <2>1 DEF LogInv
  <2> QED
    BY <2>2, LogOfWanted DEF Done
<1> QED
  BY <1>1, Invariance, PTL

(* The builds of a regression have different names, so that looking one up *)
(* by its name finds it.                                                   *)
LEMMA LookupFacts ==
    ASSUME IInv, MoreInv, NEW i \in DOMAIN regressions
    PROVE  /\ \A b \in Range(regressions[i].builds) : Lookup(regressions[i], b.name) = b
           /\ \A t \in Range(regressions[i].tests) : \A n \in Range(t.builds) :
                 /\ Lookup(regressions[i], n) \in Range(regressions[i].builds)
                 /\ Lookup(regressions[i], n).name = n
<1> DEFINE r == regressions[i]
           f == cmd.files[i]
<1>1. ReadBuilds(r, f, DOMAIN f.builds) /\ WellRead(r)
  BY DEF IInv, ReadInv, MoreInv, ListInv, FromFile
<1>2. \A x : Build(x).name = x.name
  BY DEF Build
<1>3. \A b, c \in Range(r.builds) : b.name = c.name => b = c
  BY <1>1, <1>2 DEF ReadBuilds
<1>4. \A n \in Names(r.builds) : Lookup(r, n) \in Range(r.builds) /\ Lookup(r, n).name = n
  BY DEF Names, Lookup
<1>5. \A b \in Range(r.builds) : b.name \in Names(r.builds)
  BY DEF Names
<1> HIDE DEF r
<1>6. \A b \in Range(r.builds) : Lookup(r, b.name) = b
  BY <1>3, <1>4, <1>5
<1> QED
  BY <1>1, <1>4, <1>6 DEF WellRead, r

(* The command of a run, with the arguments that are its test's own. *)
OwnCommand(run) ==
    Command(run.reg, run.test, Lookup(regressions[run.reg], run.test.builds[run.pos]),
            run.idx, run.test.makearg)

(* The groups of the Vmanager session hold the runs of the script. *)
LEMMA VsifRuns ==
    ASSUME IInv, MoreInv, NEW c
    PROVE  c \in vsif_commands <=> \E run \in Runs : c = OwnCommand(run)
<1> DEFINE G(i, b, t) == {Command(i, t, b, j, t.makearg) : j \in 0 .. t.num - 1}
           H(i, b) == UNION {G(i, b, t) : t \in get_tests_of_build(regressions[i], b.name)}
           U(i) == UNION {H(i, b) : b \in get_builds(regressions[i])}
<1>1. \A i, b, t : c \in G(i, b, t) <=> \E j \in 0 .. t.num - 1 : c = Command(i, t, b, j, t.makearg)
  OBVIOUS
<1>2. vsif_commands = UNION {U(i) : i \in DOMAIN regressions}
  BY DEF vsif_commands
<1> HIDE DEF G
<1>3. \A i, b : c \in H(i, b) <=> \E t \in get_tests_of_build(regressions[i], b.name) : c \in G(i, b, t)
  OBVIOUS
<1> HIDE DEF H
<1>4. \A i : c \in U(i) <=> \E b \in get_builds(regressions[i]) : c \in H(i, b)
  OBVIOUS
<1> HIDE DEF U
<1>5. c \in vsif_commands <=> \E i \in DOMAIN regressions : c \in U(i)
  BY <1>2
<1>6. ASSUME c \in vsif_commands PROVE \E run \in Runs : c = OwnCommand(run)
  <2>1. PICK i \in DOMAIN regressions : c \in U(i)
    BY <1>5, <1>6
  <2>2. PICK b \in get_builds(regressions[i]) : c \in H(i, b)
    BY <1>4, <2>1
  <2>3. PICK t \in get_tests_of_build(regressions[i], b.name) : c \in G(i, b, t)
    BY <1>3, <2>2
  <2>4. PICK j \in 0 .. t.num - 1 : c = Command(i, t, b, j, t.makearg)
    BY <1>1, <2>3
  <2>5. t \in Range(regressions[i].tests) /\ b.name \in Range(t.builds)
    BY DEF get_tests_of_build
  <2>6. PICK p \in DOMAIN t.builds : t.builds[p] = b.name
    BY <2>5 DEF Range
  <2>7. Lookup(regressions[i], b.name) = b
    BY <2>2, LookupFacts DEF get_builds
  <2> DEFINE run == [reg |-> i, test |-> t, pos |-> p, idx |-> j]
  <2>8. run \in Runs
    BY <2>5, <2>6, InRuns
  <2>9. OwnCommand(run) = c
    BY <2>4, <2>6, <2>7 DEF OwnCommand
  <2> QED
    BY <2>8, <2>9
<1>7. ASSUME NEW run \in Runs, c = OwnCommand(run) PROVE c \in vsif_commands
  <2>1. PICK i \in DOMAIN regressions : \E t \in Range(regressions[i].tests) :
           \E p \in DOMAIN t.builds, j \in 0 .. t.num - 1 :
              run = [reg |-> i, test |-> t, pos |-> p, idx |-> j]
    BY InRuns
  <2>2. PICK t \in Range(regressions[i].tests) :
           \E p \in DOMAIN t.builds, j \in 0 .. t.num - 1 :
              run = [reg |-> i, test |-> t, pos |-> p, idx |-> j]
    BY <2>1
  <2>3. PICK p \in DOMAIN t.builds, j \in 0 .. t.num - 1 :
           run = [reg |-> i, test |-> t, pos |-> p, idx |-> j]
    BY <2>2
  <2> DEFINE n == t.builds[p]
             b == Lookup(regressions[i], n)
  <2>4. n \in Range(t.builds)
    BY <2>3 DEF Range
  <2>5. b.name = n
    BY <2>4, LookupFacts
  <2>6. c = Command(i, t, b, j, t.makearg)
    BY <1>7, <2>3 DEF OwnCommand
  <2>7. b \in get_builds(regressions[i])
    <3>1. n \in UNION {Range(u.builds) : u \in Range(regressions[i].tests)}
      BY <2>4
    <3> HIDE DEF n
    <3> QED
      BY <3>1 DEF get_builds
  <2>8. t \in get_tests_of_build(regressions[i], b.name)
    BY <2>4, <2>5 DEF get_tests_of_build
  <2> HIDE DEF b
  <2>9. c \in G(i, b, t)
    BY <1>1, <2>3, <2>6
  <2>10. c \in U(i)
    BY <1>3, <1>4, <2>7, <2>8, <2>9
  <2> QED
    BY <1>5, <2>10
<1> QED
  BY <1>6, <1>7

(* The command of a run is the one its testlist asks for. *)
LEMMA CommandAsWanted ==
    ASSUME ReadInv, ListInv, Len(regressions) = Len(cmd.files), NEW w \in Wanted
    PROVE  /\ OwnCommand(RunOf(w)) = WantedCommand(w)
           /\ Command(RunOf(w).reg, RunOf(w).test,
                      Lookup(regressions[RunOf(w).reg], RunOf(w).test.builds[RunOf(w).pos]),
                      RunOf(w).idx, None) = [WantedCommand(w) EXCEPT !.makearg = None]
<1>1. RunOf(w).reg = w[1] /\ RunOf(w).pos = w[3] /\ RunOf(w).idx = w[4]
  BY DEF RunOf
<1> DEFINE n == WantedBuilds(w[2])[w[3]]
           b == Lookup(regressions[w[1]], n)
           t == RunOf(w).test
<1>2. /\ t.builds[w[3]] = n /\ b.name = n /\ b.cfg = WantedCfg(w[1], n)
      /\ t.name = w[2].name /\ t.makearg = w[2].makearg
      /\ t.cov = IF w[2].cov = None /\ cmd.cov THEN "YES" ELSE w[2].cov
  BY RunAsWanted
<1>3. OwnCommand(RunOf(w)) = Command(w[1], t, b, w[4], t.makearg)
  BY <1>1, <1>2 DEF OwnCommand
<1>4. WantedCommand(w) = [reg |-> w[1], test |-> t.name, build |-> b.name, cfg |-> b.cfg,
                          cov |-> t.cov, idx |-> w[4], makearg |-> t.makearg]
  BY <1>2 DEF WantedCommand
<1>5. Lookup(regressions[RunOf(w).reg], t.builds[RunOf(w).pos]) = b
  BY <1>1, <1>2
<1> HIDE DEF n, b, t
<1>6. [WantedCommand(w) EXCEPT !.makearg = None]
        = [reg |-> w[1], test |-> t.name, build |-> b.name, cfg |-> b.cfg,
           cov |-> t.cov, idx |-> w[4], makearg |-> None]
  BY <1>4
<1>7. OwnCommand(RunOf(w)) = WantedCommand(w)
  BY <1>3, <1>4 DEF Command
<1>8. Command(RunOf(w).reg, t, Lookup(regressions[RunOf(w).reg], t.builds[RunOf(w).pos]),
              RunOf(w).idx, None) = [WantedCommand(w) EXCEPT !.makearg = None]
  BY <1>1, <1>5, <1>6 DEF Command
<1> QED
  BY <1>7, <1>8 DEF t

(* For all testlists: the Vmanager session that regress_vsif.j2 renders    *)
(* starts and builds exactly what the testlists ask for, and the shell     *)
(* script starts the same without the tests' own arguments to make.        *)
THEOREM VsifAlwaysAsAsked == Spec => []VsifAsAsked
<1>1. IInv /\ MoreInv => VsifAsAsked
  <2> SUFFICES ASSUME IInv, MoreInv, Len(regressions) = Len(cmd.files)
               PROVE  /\ vsif_commands = WantedCommands
                      /\ sh_commands = {[c EXCEPT !.makearg = None] : c \in WantedCommands}
                      /\ \A f \in DOMAIN cmd.files :
                            {<<b.name, b.cfg>> : b \in vsif_builds(regressions[f])}
                            = {<<b.name, WantedCfg(f, b.name)>> : b \in Range(cmd.files[f].builds)}
    BY DEF VsifAsAsked
  <2>1. ReadInv /\ ListInv
    BY DEF IInv, MoreInv
  <2>2. \A w \in Wanted : RunOf(w) \in Runs
    BY <2>1, WantedIsRun
  <2>3. \A run \in Runs : \E w \in Wanted : RunOf(w) = run
    BY <2>1, RunIsWanted
  <2>4. \A w \in Wanted : OwnCommand(RunOf(w)) = WantedCommand(w)
    BY <2>1, CommandAsWanted
  <2>5. \A c : c \in vsif_commands <=> \E run \in Runs : c = OwnCommand(run)
    BY VsifRuns
  <2>6. vsif_commands = WantedCommands
    BY <2>2, <2>3, <2>4, <2>5 DEF WantedCommands
  <2> DEFINE S(run) == Command(run.reg, run.test,
                               Lookup(regressions[run.reg], run.test.builds[run.pos]),
                               run.idx, None)
             N(c) == [c EXCEPT !.makearg = None]
  <2>7. \A w \in Wanted : S(RunOf(w)) = N(WantedCommand(w))
    BY <2>1, CommandAsWanted
  <2>8. sh_commands = {S(run) : run \in Runs}
    BY DEF sh_commands
  <2> HIDE DEF S, N
  <2>9. sh_commands = {N(c) : c \in WantedCommands}
    BY <2>2, <2>3, <2>7, <2>8 DEF WantedCommands
  <2>10. ASSUME NEW f \in DOMAIN cmd.files
         PROVE  {<<b.name, b.cfg>> : b \in vsif_builds(regressions[f])}
                = {<<b.name, WantedCfg(f, b.name)>> : b \in Range(cmd.files[f].builds)}
    <3> DEFINE r == regressions[f]
               D == DOMAIN cmd.files[f].builds
               x(q) == cmd.files[f].builds[q]
    <3>1. f \in DOMAIN regressions
      BY <2>1, RegressAssumption DEF ReadInv, CommandLine
    <3>2. \A b \in Range(r.builds) : Lookup(r, b.name) = b
      BY <3>1, LookupFacts
    <3>3. \A t \in Range(r.tests) : \A n \in Range(t.builds) : Lookup(r, n) \in Range(r.builds)
      BY <3>1, LookupFacts
    <3>4. \A b : b \in get_builds(r) <=>
             \E t \in Range(r.tests) : \E n \in Range(t.builds) : b = Lookup(r, n)
      BY DEF get_builds
    <3>5. vsif_builds(r) = Range(r.builds)
      BY <3>2, <3>3, <3>4 DEF vsif_builds, get_builds_with_no_tests
    <3>6. ReadBuilds(r, cmd.files[f], D)
      BY <2>1, <3>1 DEF ListInv, FromFile
    <3>7. \A q \in D : Build(x(q)).name = x(q).name /\ Build(x(q)).cfg = WantedCfg(f, x(q).name)
      <4>1. \A q \in D : WantedCfg(f, x(q).name) = Build(x(q)).cfg
        BY <2>1, <3>1, CfgAsWanted
      <4> QED
        BY <4>1 DEF Build
    <3>8. Range(r.builds) = {Build(x(q)) : q \in D}
      BY <3>6 DEF ReadBuilds
    <3>9. Range(cmd.files[f].builds) = {x(q) : q \in D}
      BY DEF Range
    <3> HIDE DEF r, D, x
    <3>10. {<<b.name, b.cfg>> : b \in Range(r.builds)}
           = {<<b.name, WantedCfg(f, b.name)>> : b \in Range(cmd.files[f].builds)}
      BY <3>7, <3>8, <3>9
    <3> QED
      BY <3>5, <3>10 DEF r
  <2> QED
    BY <2>6, <2>9, <2>10 DEF N
<1> QED
  BY <1>1, Invariance, PTL

-----------------------------------------------------------------------------
(* Types. *)

(* A set of numbers with 0 and with every successor has all of them. *)
LEMMA SetInduction ==
    ASSUME NEW P, P \subseteq Nat, 0 \in P, \A n \in P : n + 1 \in P
    PROVE  P = Nat
<1> SUFFICES ASSUME P # Nat PROVE FALSE
  OBVIOUS
<1> DEFINE R == {ss \in Nat \X Nat : ss[1] < ss[2]}
           T == Nat \ P
<1>1. IsWellFoundedOn(R, Nat)
  BY NatLessThanWellFounded DEF OpToRel
<1> HIDE DEF R
<1>2. PICK x \in T : \A y \in T : ~(<<y, x>> \in R)
  <2>1. T \subseteq Nat /\ T # {}
    OBVIOUS
  <2> HIDE DEF T
  <2> QED
    BY <1>1, <2>1, WFMin
<1>3. \A y \in T : ~(y < x)
  BY <1>2 DEF R
<1>4. x # 0 /\ x - 1 \in Nat
  BY <1>2
<1>5. x - 1 \in P
  BY <1>3, <1>4
<1>6. (x - 1) + 1 \in P
  BY <1>5
<1> QED
  BY <1>2, <1>6

(* The values of a loop over 1 .. N, from u: each round computes its value *)
(* from the last one and its index.                                        *)
Iterates(f, u, N, G) == f[0] = u /\ \A n \in 1 .. N : f[n] = G[<<f[n - 1], n>>]

(* Such a loop has a value after each round. *)
LEMMA LoopExists ==
    \A S, u, N, G :
        u \in S /\ N \in Nat /\ G \in [S \X (1 .. N) -> S]
        => \E f \in [0 .. N -> S] : Iterates(f, u, N, G)
<1> SUFFICES ASSUME NEW S, NEW u \in S, NEW N \in Nat, NEW G \in [S \X (1 .. N) -> S]
             PROVE  \E f \in [0 .. N -> S] : Iterates(f, u, N, G)
  OBVIOUS
<1> DEFINE Q(m) == \E f \in [0 .. m -> S] :
                      f[0] = u /\ \A n \in 1 .. m : f[n] = G[<<f[n - 1], n>>]
           P == {m \in Nat : m <= N => Q(m)}
<1>1. 0 \in P
  <2> DEFINE z == [x \in 0 .. 0 |-> u]
  <2>1. z \in [0 .. 0 -> S] /\ z[0] = u /\ \A n \in 1 .. 0 : FALSE
    OBVIOUS
  <2> HIDE DEF z
  <2>2. Q(0)
    BY <2>1
  <2> QED
    BY <2>2
<1>2. ASSUME NEW m \in P PROVE m + 1 \in P
  <2> SUFFICES ASSUME m + 1 <= N PROVE Q(m + 1)
    OBVIOUS
  <2>1. PICK f \in [0 .. m -> S] :
           f[0] = u /\ \A n \in 1 .. m : f[n] = G[<<f[n - 1], n>>]
    OBVIOUS
  <2>2. m \in Nat /\ m + 1 \in 1 .. N
    OBVIOUS
  <2> DEFINE g == [x \in 0 .. m + 1 |-> IF x = m + 1 THEN G[<<f[m], m + 1>>] ELSE f[x]]
  <2>3. G[<<f[m], m + 1>>] \in S
    BY <2>1, <2>2
  <2>4. g \in [0 .. m + 1 -> S]
    BY <2>1, <2>2, <2>3
  <2>5. g[m + 1] = G[<<f[m], m + 1>>] /\ \A x \in 0 .. m : g[x] = f[x]
    BY <2>2
  <2> HIDE DEF g
  <2>6. g[0] = u
    BY <2>1, <2>2, <2>5
  <2>7. ASSUME NEW n \in 1 .. m + 1 PROVE g[n] = G[<<g[n - 1], n>>]
    <3>1. CASE n = m + 1
      <4>1. n - 1 = m /\ m \in 0 .. m
        BY <2>2, <3>1
      <4> QED
        BY <2>5, <3>1, <4>1
    <3>2. CASE n # m + 1
      <4>1. n \in 1 .. m /\ n \in 0 .. m /\ n - 1 \in 0 .. m
        BY <2>2, <3>2
      <4> QED
        BY <2>1, <2>5, <4>1
    <3> QED
      BY <3>1, <3>2
  <2> QED
    BY <2>4, <2>6, <2>7
<1>3. P = Nat
  <2>1. P \subseteq Nat
    OBVIOUS
  <2> HIDE DEF P
  <2> QED
    BY <1>1, <1>2, <2>1, SetInduction
<1>4. N \in P => Q(N)
  OBVIOUS
<1> QED
  BY <1>3, <1>4 DEF Iterates

(* Collecting unique builds yields a list of builds. *)
LEMMA UniqueType ==
    ASSUME NEW u \in Seq(BuildObject), NEW bs \in Seq(BuildObject)
    PROVE  add_unique(u, bs) \in Seq(BuildObject)
<1> DEFINE N == Len(bs)
           S == Seq(BuildObject)
           Loop(f) == [n \in 0 .. Len(bs) |->
                         IF n = 0 THEN u
                         ELSE IF bs[n].name \in Names(f[n - 1]) THEN f[n - 1]
                         ELSE Append(f[n - 1], bs[n])]
           after == CHOOSE f : f = Loop(f)
           G == [x \in S \X (1 .. N) |->
                   IF bs[x[2]].name \in Names(x[1]) THEN x[1] ELSE Append(x[1], bs[x[2]])]
<1>1. add_unique(u, bs) = after[N]
  BY DEF add_unique
<1>2. N \in Nat /\ \A n \in 1 .. N : bs[n] \in BuildObject
  OBVIOUS
<1>3. G \in [S \X (1 .. N) -> S]
  <2>1. ASSUME NEW x \in S \X (1 .. N)
        PROVE  (IF bs[x[2]].name \in Names(x[1]) THEN x[1] ELSE Append(x[1], bs[x[2]])) \in S
    <3>1. x[1] \in Seq(BuildObject) /\ bs[x[2]] \in BuildObject
      BY <1>2
    <3> QED
      BY <3>1
  <2> HIDE DEF S, N
  <2> QED
    BY <2>1
<1>4. \A s \in S, n \in 1 .. N :
         G[<<s, n>>] = IF bs[n].name \in Names(s) THEN s ELSE Append(s, bs[n])
  OBVIOUS
<1> HIDE DEF G
<1>5. PICK f \in [0 .. N -> S] : f[0] = u /\ \A n \in 1 .. N : f[n] = G[<<f[n - 1], n>>]
  <2>1. N \in Nat
    BY <1>2
  <2>2. u \in S
    OBVIOUS
  <2> HIDE DEF N, S
  <2>3. \E f \in [0 .. N -> S] : Iterates(f, u, N, G)
    BY <1>3, <2>1, <2>2, LoopExists, Zenon
  <2> QED
    BY <2>3 DEF Iterates
<1>6. f = Loop(f)
  <2>1. ASSUME NEW n \in 0 .. N PROVE f[n] = Loop(f)[n]
    <3>1. CASE n = 0
      BY <1>5, <3>1
    <3>2. CASE n # 0
      <4> HIDE DEF N, S
      <4>1. n \in 1 .. N /\ n - 1 \in 0 .. N
        BY <1>2, <3>2
      <4>2. f[n - 1] \in S
        BY <1>5, <4>1
      <4> USE DEF N, S
      <4> QED
        BY <1>4, <1>5, <3>2, <4>1, <4>2
    <3> QED
      BY <3>1, <3>2
  <2>2. DOMAIN Loop(f) = 0 .. N /\ DOMAIN f = 0 .. N /\ f = [n \in 0 .. N |-> f[n]]
        /\ Loop(f) = [n \in 0 .. N |-> Loop(f)[n]]
    OBVIOUS
  <2> HIDE DEF Loop
  <2> QED
    BY <2>1, <2>2
<1>7. after = Loop(after)
  <2> HIDE DEF Loop
  <2> QED
    BY <1>6
<1> HIDE DEF after
<1>8. /\ after[0] = u
      /\ \A n \in 1 .. N : after[n] = IF bs[n].name \in Names(after[n - 1]) THEN after[n - 1]
                                      ELSE Append(after[n - 1], bs[n])
  <2>1. \A n \in 0 .. N :
           Loop(after)[n] = IF n = 0 THEN u
                            ELSE IF bs[n].name \in Names(after[n - 1]) THEN after[n - 1]
                            ELSE Append(after[n - 1], bs[n])
    OBVIOUS
  <2> HIDE DEF Loop
  <2>2. \A n \in 0 .. N : after[n] = Loop(after)[n]
    BY <1>7
  <2>3. 0 \in 0 .. N /\ \A n \in 1 .. N : n \in 0 .. N /\ n # 0
    BY <1>2
  <2> QED
    BY <2>1, <2>2, <2>3
<1> DEFINE P == {n \in Nat : n <= N => after[n] \in S}
<1>9. 0 \in P
  BY <1>8
<1>10. ASSUME NEW n \in P PROVE n + 1 \in P
  <2> SUFFICES ASSUME n + 1 <= N PROVE after[n + 1] \in S
    OBVIOUS
  <2>1. n \in Nat /\ n + 1 \in 1 .. N /\ (n + 1) - 1 = n /\ after[n] \in S
    BY <1>2
  <2>2. bs[n + 1] \in BuildObject
    BY <1>2, <2>1
  <2>3. Append(after[n], bs[n + 1]) \in S
    BY <2>1, <2>2
  <2> HIDE DEF S
  <2> QED
    BY <1>8, <2>1, <2>3
<1>11. P = Nat
  <2>1. P \subseteq Nat
    OBVIOUS
  <2> HIDE DEF P
  <2> QED
    BY <1>9, <1>10, <2>1, SetInduction
<1>12. N \in P => after[N] \in S
  BY <1>2
<1> QED
  BY <1>1, <1>2, <1>11, <1>12

(* The conjuncts of TypeOK that IInv does not have; cur is well read from  *)
(* the first file on, also while nothing is being read.                    *)
TypeInv ==
    /\ pc \in {"file", "builds", "tests", "make", "run", "ended"}
    /\ session \in 0 .. MAX_SESSIONS
    /\ unique_builds \in Seq(BuildObject)
    /\ \A t \in Range(cur.tests) : Range(t.builds) \subseteq Names(cur.builds)
    /\ exit \in {-1, 0, 1, 2}

(* They hold at the start, *)
LEMMA InitTypes == Init => TypeInv
<1> SUFFICES ASSUME Init PROVE TypeInv
  OBVIOUS
<1>1. Range(<<>>) = {}
  BY DEF Range
<1>2. MAX_SESSIONS \in Nat
  BY RegressAssumption
<1> QED
  BY <1>1, <1>2 DEF Init, TypeInv, Regression

(* and every step keeps them. *)
LEMMA StepTypes == IInv /\ IInv' /\ TypeInv /\ [Next]_vars => TypeInv'
<1> SUFFICES ASSUME IInv, IInv', TypeInv, [Next]_vars PROVE TypeInv'
  OBVIOUS
<1>1. /\ pc' \in {"file", "builds", "tests", "make", "run", "ended"}
      /\ session' \in 0 .. MAX_SESSIONS
      /\ exit' \in {-1, 0, 1, 2}
  <2>1. CASE ReadFile \/ AddBuild \/ BuildsRead \/ AddTest \/ FileRead
    BY <2>1 DEF ReadFile, AddBuild, BuildsRead, AddTest, FileRead, add_build, add_test, Fail,
                TypeInv
  <2>2. CASE StartScript
    BY <2>2, RegressAssumption DEF StartScript, TypeInv
  <2>3. CASE RunBuild \/ BuildsRun \/ ExitScript
    BY <2>3 DEF RunBuild, BuildsRun, ExitScript, Fail, TypeInv
  <2>4. ASSUME NEW run \in pending, RunTest(run)
        PROVE  UNCHANGED <<pc, session, exit>>
    BY <2>4 DEF RunTest
  <2>5. ASSUME NEW c \in CommandLines, NewCommand(c)
        PROVE  pc' = "file" /\ exit' = -1 /\ session' = session
    BY <2>5 DEF NewCommand
  <2>6. CASE UNCHANGED vars
    BY <2>6 DEF vars, TypeInv
  <2> QED
    BY <2>1, <2>2, <2>3, <2>4, <2>5, <2>6 DEF Next, TypeInv
<1>2. unique_builds' \in Seq(BuildObject)
  <2>1. CASE FileRead
    <3>1. cur.builds \in Seq(BuildObject)
      BY DEF IInv, ReadInv, RegressionObject
    <3> QED
      BY <2>1, <3>1, UniqueType DEF FileRead, TypeInv
  <2>2. ASSUME NEW c \in CommandLines, NewCommand(c)
        PROVE  unique_builds' \in Seq(BuildObject)
    BY <2>2 DEF NewCommand
  <2>3. ASSUME NEW run \in pending, RunTest(run)
        PROVE  unique_builds' \in Seq(BuildObject)
    BY <2>3 DEF RunTest, read, TypeInv
  <2>4. CASE \/ ReadFile \/ AddBuild \/ BuildsRead \/ AddTest \/ StartScript \/ RunBuild
             \/ BuildsRun \/ ExitScript \/ UNCHANGED vars
    BY <2>4 DEF ReadFile, AddBuild, BuildsRead, AddTest, StartScript, RunBuild, BuildsRun,
                ExitScript, vars, read, TypeInv
  <2> QED
    BY <2>1, <2>2, <2>3, <2>4 DEF Next
<1>3. (\A t \in Range(cur.tests) : Range(t.builds) \subseteq Names(cur.builds))'
  <2>1. CASE cur' = cur
    BY <2>1 DEF TypeInv, Names
  <2>2. CASE pc' \in Reading
    BY <2>2 DEF IInv, ReadInv, WellRead
  <2>3. CASE cur' = Regression
    <3>1. Range(<<>>) = {}
      BY DEF Range
    <3> QED
      BY <2>3, <3>1 DEF Regression
  <2>4. ASSUME NEW run \in pending, RunTest(run)
        PROVE  cur' = cur
    BY <2>4 DEF RunTest, read
  <2>5. ASSUME NEW c \in CommandLines, NewCommand(c)
        PROVE  cur' = cur
    BY <2>5 DEF NewCommand
  <2>6. CASE AddBuild \/ AddTest
    <3>1. cur' = cur \/ pc' \in Reading
      BY <2>6 DEF AddBuild, AddTest, add_build, add_test, Fail, Reading
    <3> QED
      BY <2>1, <2>2, <3>1
  <2>7. CASE \/ BuildsRead \/ FileRead \/ StartScript \/ RunBuild
             \/ BuildsRun \/ ExitScript \/ UNCHANGED vars
    <3>1. cur' = cur
      BY <2>7 DEF BuildsRead, FileRead, StartScript, RunBuild, BuildsRun, ExitScript, vars, read
    <3> QED
      BY <2>1, <3>1
  <2>8. CASE ReadFile
    BY <2>3, <2>8 DEF ReadFile
  <2> QED
    BY <2>1, <2>4, <2>5, <2>6, <2>7, <2>8 DEF Next
<1> QED
  BY <1>1, <1>2, <1>3 DEF TypeInv

(* The objects cv_regress builds and the counts of the script have their   *)
(* types, and every build a test names is one of its own regression.       *)
THEOREM TypeCorrect == Spec => []TypeOK
<1>1. IInv /\ MoreInv /\ TypeInv => TypeOK
  <2> SUFFICES ASSUME IInv, MoreInv, TypeInv PROVE TypeOK
    OBVIOUS
  <2>1. \A r \in Range(regressions) \cup {cur} : \A t \in Range(r.tests) :
           Range(t.builds) \subseteq Names(r.builds)
    <3>1. \A r \in Range(regressions) : WellRead(r)
      BY DEF IInv, ReadInv, Range
    <3> QED
      BY <3>1 DEF WellRead, TypeInv
  <2>2. pass_count \in Nat /\ fail_count \in Nat /\ bad \in BOOLEAN /\ smooth \in BOOLEAN
    BY DEF IInv, ScriptInv, MoreInv, CountInv
  <2> QED
    BY <2>1, <2>2 DEF IInv, ReadInv, TypeInv, TypeOK
<1> QED
  BY <1>1, InitTypes, StepTypes, Invariance, PTL DEF Spec

=============================================================================
