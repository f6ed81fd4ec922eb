-------------------------- MODULE RunEmbenchProofs --------------------------
(***************************************************************************)
(* Proofs about RunEmbench for every suite, every set of support files and *)
(* every number of invocations.                                            *)
(***************************************************************************)
EXTENDS RunEmbench, TLAPS

(* Where main() is past its argument check, past its build check. *)
Accepted == {"setup", "bsp", "build", "built", "publish", "benchmark", "score"}
Past     == {"publish", "benchmark", "score"}

(* The part of the state an invocation has to itself. *)
OwnInv ==
    /\ pc # "idle" => status = "running" /\ inv >= 1
    /\ pc \in Accepted => ValidArgs
    /\ pc \in {"arguments", "setup", "bsp", "build"} => res = Unbound

(* What the output of the build is worth. *)
BuiltInv ==
    /\ pc = "built" /\ res.stdout = "success" =>
          inv \in built /\ \A b \in Bench : results[b] = inv
    /\ pc \in Past => inv \in built /\ \A b \in Bench : results[b] = inv
    /\ pc = "score" /\ res.stdout = "success" => inv \in benched

(* How far the publishing loop has come. *)
PublishInv ==
    /\ pc \in {"benchmark", "score"} => todo = {}
    /\ pc \in Past /\ args.type = "speed" /\ inv \notin faulty =>
          \A b \in Bench : b \in todo \/ (b \in dirs /\ elf[b] = inv)

IInv ==
    /\ TypeOK /\ OwnInv /\ BuiltInv /\ PublishInv
    /\ StatusIsEarned /\ OnlyPassedBuildsPublished /\ PublishedIsFresh

(* The initial state: nothing exists and no invocation has begun. *)
LEMMA InitIInv == Init => IInv
<1> SUFFICES ASSUME Init PROVE IInv
  OBVIOUS
<1>1. TypeOK
  <2>1. logs \in [LogTypes -> LogText]
    BY DEF Init, LogTypes, LogText
  <2>2. res \in Output
    BY DEF Init, Output, Unbound
  <2>3. /\ pc \in {"idle"} /\ inv \in Builds /\ args \in Args /\ todo = {}
        /\ results \in [Bench -> Builds] /\ elf \in [Bench -> Builds]
    BY EmbenchAssumption DEF Init, Builds
  <2> QED
    BY <2>1, <2>2, <2>3 DEF Init, TypeOK
<1>2. OwnInv /\ BuiltInv /\ PublishInv
  BY DEF Init, OwnInv, BuiltInv, PublishInv, Accepted, Past
<1>3. StatusIsEarned /\ OnlyPassedBuildsPublished /\ PublishedIsFresh
  BY DEF Init, StatusIsEarned, OnlyPassedBuildsPublished, PublishedIsFresh
<1> QED
  BY <1>1, <1>2, <1>3 DEF IInv

(* Facts about the bound and about records, away from the state. *)
LEMMA ZeroBuild == 0 \in Builds
  BY EmbenchAssumption DEF Builds

(* The number of the next invocation is a build number. *)
LEMMA NextBuild ==
    ASSUME NEW n \in Builds, n < MAX_INVOCATIONS
    PROVE  n + 1 \in Builds /\ n + 1 >= 1
  BY EmbenchAssumption DEF Builds

(* What a call leaves in res is an output. *)
LEMMA OutputFacts ==
    ASSUME NEW t \in {"none", "success", "failure"}, NEW n \in Scores \cup {NoScore}
    PROVE  [stdout |-> t, score |-> n] \in Output
  BY DEF Output

(* Typing is preserved by itself. *)
LEMMA TypeStep == TypeOK /\ [Next]_vars => TypeOK'
<1> SUFFICES ASSUME TypeOK, [Next]_vars PROVE TypeOK'
  OBVIOUS
<1> USE EmbenchAssumption DEF TypeOK, Exit, Note
<1>1. CASE \E a \in Args : Start(a)
  <2>1. PICK a \in Args : Start(a)
    BY <1>1
  <2>3. inv' \in Builds /\ args' \in Args
    BY <2>1, NextBuild DEF Start
  <2>4. res' \in Output
    BY <2>1, OutputFacts DEF Start, Unbound
  <2> QED
    BY <2>1, <2>3, <2>4 DEF Start, tree, tests, hist
<1>2. CASE CheckArguments
  BY <1>2 DEF CheckArguments, tree, tests, hist
<1>3. CASE CleanOldResults
  <2>1. PICK o \in Outcome, S \in SUBSET dirs :
           /\ dirs' = S /\ elf' = [b \in Bench |-> IF b \in S THEN elf[b] ELSE 0]
           /\ Note(o)
    BY <1>3 DEF CleanOldResults
  <2>2. elf' \in [Bench -> Builds] /\ dirs' \subseteq Bench /\ faulty' \subseteq Builds
    BY <2>1, ZeroBuild
  <2> QED
    BY <1>3, <2>2 DEF CleanOldResults, tree
<1>4. CASE CopyConfig
  BY <1>4 DEF CopyConfig, tree, tests, hist, Outcome
<1>5. CASE \E f \in BspFiles : CopyBspFile(f)
  BY <1>5 DEF CopyBspFile, tree, tests, hist, Outcome
<1>6. CASE LinkModule
  BY <1>6 DEF LinkModule, tree, tests, hist, Outcome
<1>7. CASE Build
  <2>1. PICK o \in Outcome :
           /\ BuildAll(o) /\ Note(o)
           /\ res' = IF o = "raise" THEN res
                     ELSE [stdout |-> Says(o), score |-> NoScore]
    BY <1>7 DEF Build
  <2>2. results' \in [Bench -> Builds] /\ built' \subseteq Builds
    BY <2>1, ZeroBuild DEF BuildAll
  <2>3. logs' \in [LogTypes -> LogText]
    BY <2>1 DEF BuildAll, LogTypes, LogText
  <2>4. res' \in Output
    BY <2>1, OutputFacts DEF Says
  <2>5. faulty' \subseteq Builds
    BY <2>1
  <2> QED
    BY <1>7, <2>2, <2>3, <2>4, <2>5 DEF Build, tests
<1>8. CASE CheckBuild
  BY <1>8 DEF CheckBuild, tree, tests, hist, Publishing
<1>9. CASE \E b \in Bench : PublishFolder(b)
  <2>1. PICK b \in Bench : PublishFolder(b)
    BY <1>9
  <2>2. PICK mkdir \in Outcome, cp \in Outcome :
           /\ dirs' \in {dirs, dirs \cup {b}}
           /\ IF mkdir = "raise" THEN UNCHANGED elf ELSE CopyProgram(b, cp)
           /\ Exit("exit 1") \/ UNCHANGED <<pc, status>>
           /\ Note(IF b \in dirs /\ mkdir = "nonzero" THEN cp
                   ELSE IF mkdir = "ok" THEN cp ELSE mkdir)
    BY <2>1 DEF PublishFolder
  <2>3. elf' \in [Bench -> Builds]
    BY <2>2, ZeroBuild DEF CopyProgram
  <2>4. faulty' \subseteq Builds /\ dirs' \subseteq Bench
    BY <2>2
  <2> QED
    BY <2>1, <2>2, <2>3, <2>4 DEF PublishFolder, tree
<1>10. CASE FinishBuild
  BY <1>10 DEF FinishBuild, tree, tests, hist
<1>11. CASE RunBenchmark
  <2>1. PICK o \in Outcome, score \in Scores \cup {NoScore} :
           /\ Note(o)
           /\ \/ Exit("exit 1") /\ UNCHANGED res
              \/ /\ pc' = "score" /\ UNCHANGED status
                 /\ res' = [stdout |-> Says(o), score |-> score]
           /\ benched' \in {benched, benched \cup {inv}}
           /\ logs' \in {logs, [logs EXCEPT ![args.type] = "success"],
                         [logs EXCEPT ![args.type] = "failure"]}
    BY <1>11 DEF RunBenchmark
  <2>2. logs' \in [LogTypes -> LogText]
    BY <2>1 DEF LogTypes, LogText
  <2>3. res' \in Output
    <3>1. Says(o) \in {"none", "success", "failure"}
      BY DEF Says
    <3> QED
      BY <2>1, <3>1, OutputFacts
  <2>4. faulty' \subseteq Builds /\ benched' \subseteq Builds
    BY <2>1
  <2> QED
    BY <1>11, <2>1, <2>2, <2>3, <2>4 DEF RunBenchmark, tests
<1>12. CASE CheckScore
  BY <1>12 DEF CheckScore, tree, tests, hist
<1>13. CASE Kill
  BY <1>13 DEF Kill, tree, tests, hist
<1>14. CASE CleanEmbench
  <2>1. results' \in [Bench -> Builds] /\ elf' \in [Bench -> Builds] /\ dirs' \subseteq Bench
    BY <1>14, ZeroBuild DEF CleanEmbench, tests
  <2>2. logs' \in [LogTypes -> LogText]
    BY <1>14 DEF CleanEmbench, LogText
  <2> QED
    BY <1>14, <2>1, <2>2 DEF CleanEmbench, hist
<1>15. CASE UNCHANGED vars
  BY <1>15 DEF vars, tree, tests, hist
<1> QED
  BY <1>1, <1>2, <1>3, <1>4, <1>5, <1>6, <1>7, <1>8, <1>9, <1>10, <1>11, <1>12, <1>13, <1>14, <1>15 DEF Next

(* Every step of the script preserves what it relies on later. *)
LEMMA StepIInv == IInv /\ [Next]_vars => IInv'
<1> SUFFICES ASSUME IInv, [Next]_vars PROVE IInv'
  OBVIOUS
<1>t. TypeOK /\ TypeOK'
  BY TypeStep DEF IInv
<1> DEFINE Rest == /\ OwnInv /\ BuiltInv /\ PublishInv
                   /\ StatusIsEarned /\ OnlyPassedBuildsPublished /\ PublishedIsFresh
<1> SUFFICES Rest'
  BY <1>t DEF IInv
<1>r. Rest
  BY DEF IInv
<1> USE DEF OwnInv, BuiltInv, PublishInv, StatusIsEarned, OnlyPassedBuildsPublished,
            PublishedIsFresh, Accepted, Past, ValidArgs
<1>1. CASE \E a \in Args : Start(a)
  <2>1. PICK a \in Args : Start(a)
    BY <1>1
  <2>2. inv' >= 1
    BY <2>1, <1>t, NextBuild DEF Start, TypeOK
  <2> QED
    BY <2>1, <2>2, <1>r DEF Start, tree, tests, hist
<1>2. CASE CheckArguments
  BY <1>2, <1>r DEF CheckArguments, tree, tests, hist, Exit, Note, Outcome
<1>3. CASE CleanOldResults
  BY <1>3, <1>r DEF CleanOldResults, tree, tests, hist, Exit, Note, Outcome
<1>4. CASE CopyConfig
  BY <1>4, <1>r DEF CopyConfig, tree, tests, hist, Exit, Note, Outcome
<1>5. CASE \E f \in BspFiles : CopyBspFile(f)
  BY <1>5, <1>r DEF CopyBspFile, tree, tests, hist, Exit, Note, Outcome
<1>6. CASE LinkModule
  BY <1>6, <1>r DEF LinkModule, tree, tests, hist, Exit, Note, Outcome
<1>7. CASE Build
  BY <1>7, <1>r DEF Build, tree, tests, hist, Exit, Note, Outcome, BuildAll, Says, Unbound
<1>8. CASE CheckBuild
  <2>1. CASE get_log_file("build") /\ res # Unbound /\ build_passed(res)
    <3>1. /\ pc = "built" /\ Publishing
          /\ UNCHANGED <<report, inv, args, res, tree, tests, hist>>
      BY <1>8, <2>1 DEF CheckBuild
    <3>2. inv \in built /\ inv >= 1 /\ \A b \in Bench : results[b] = inv
      BY <3>1, <2>1, <1>r DEF build_passed
    <3>3. args.type = "speed" => \A b \in Bench : b \in todo'
      BY <3>1, <3>2 DEF Publishing
    <3>4. /\ pc' = "publish" /\ status' = "running"
          /\ built' = built /\ results' = results /\ inv' = inv /\ args' = args
          /\ elf' = elf /\ dirs' = dirs /\ faulty' = faulty /\ benched' = benched
      BY <3>1, <1>r DEF Publishing, tree, tests, hist
    <3> QED
      BY <3>1, <3>2, <3>3, <3>4, <1>r
  <2>2. CASE ~(get_log_file("build") /\ res # Unbound /\ build_passed(res))
    BY <1>8, <2>2, <1>r DEF CheckBuild, tree, tests, hist, Exit
  <2> QED
    BY <2>1, <2>2
<1>9. CASE \E b \in Bench : PublishFolder(b)
  <2>1. PICK b \in Bench : PublishFolder(b)
    BY <1>9
  <2>2. PICK mkdir \in Outcome, cp \in Outcome :
           /\ mkdir = "ok" => b \notin dirs
           /\ dirs' = IF b \in dirs \/ mkdir = "ok" THEN dirs \cup {b} ELSE dirs
           /\ IF mkdir = "raise" THEN UNCHANGED elf ELSE CopyProgram(b, cp)
           /\ IF mkdir = "raise" \/ cp = "raise" \/ ~(b \in dirs \/ mkdir = "ok")
              THEN Exit("exit 1")
              ELSE UNCHANGED <<pc, status>>
           /\ Note(IF b \in dirs /\ mkdir = "nonzero" THEN cp
                   ELSE IF mkdir = "ok" THEN cp ELSE mkdir)
    BY <2>1 DEF PublishFolder
  <2>3. /\ pc = "publish" /\ b \in todo /\ todo' = todo \ {b}
        /\ inv' = inv /\ args' = args /\ res' = res /\ results' = results
        /\ built' = built /\ benched' = benched
    BY <2>1 DEF PublishFolder, tree
  <2>4. inv \in built /\ results[b] = inv /\ status = "running"
    BY <2>3, <1>r
  <2>5. /\ elf' \in {elf, [elf EXCEPT ![b] = inv], [elf EXCEPT ![b] = 0]}
        /\ elf \in [Bench -> Builds]
    BY <2>2, <2>4, <1>t DEF CopyProgram, TypeOK
  <2>6. (pc' = "publish" /\ status' = status) \/ (pc' = "idle" /\ status' = "exit 1")
    BY <2>2, <2>3 DEF Exit
  <2>7. OnlyPassedBuildsPublished'
    BY <2>3, <2>4, <2>5, <1>r
  <2>8. ASSUME inv \notin faulty', pc' = "publish"
        PROVE  b \in dirs' /\ elf' = [elf EXCEPT ![b] = inv] /\ inv \notin faulty
    <3>1. b \in dirs \/ mkdir = "ok"
      BY <2>2, <2>3, <2>8 DEF Exit
    <3>2. mkdir # "raise" /\ CopyProgram(b, cp)
      BY <2>2, <2>3, <2>8 DEF Exit
    <3>3. cp = "ok"
      <4>1. (IF b \in dirs /\ mkdir = "nonzero" THEN cp
             ELSE IF mkdir = "ok" THEN cp ELSE mkdir) = cp
        BY <2>2, <3>1, <3>2 DEF Outcome
      <4> QED
        BY <4>1, <2>2, <2>8 DEF Note
    <3>4. inv \notin faulty
      BY <2>2, <2>8 DEF Note
    <3> QED
      BY <2>2, <2>4, <3>1, <3>2, <3>3, <3>4 DEF CopyProgram
  <2>9. dirs \subseteq dirs'
    BY <2>2
  <2>10. PublishInv'
    <3>1. ASSUME pc' \in Past, args'.type = "speed", inv' \notin faulty', NEW c \in Bench
          PROVE  c \in todo' \/ (c \in dirs' /\ elf'[c] = inv')
      <4>1. pc' = "publish"
        BY <3>1, <2>6
      <4>2. b \in dirs' /\ elf' = [elf EXCEPT ![b] = inv] /\ inv \notin faulty
        BY <3>1, <4>1, <2>3, <2>8
      <4>3. CASE c = b
        BY <4>2, <4>3, <2>3, <2>5
      <4>4. CASE c # b
        BY <4>2, <4>4, <2>3, <2>5, <2>9, <3>1, <1>r
      <4> QED
        BY <4>3, <4>4
    <3> QED
      BY <3>1, <2>6
  <2>11. OwnInv' /\ BuiltInv' /\ StatusIsEarned' /\ PublishedIsFresh'
    BY <2>3, <2>4, <2>6, <1>r
  <2> QED
    BY <2>7, <2>10, <2>11
<1>10. CASE FinishBuild
  BY <1>10, <1>r DEF FinishBuild, tree, tests, hist, Exit, Note, Outcome
<1>11. CASE RunBenchmark
  <2>1. PICK o \in Outcome, score \in Scores \cup {NoScore} :
           /\ Note(o)
           /\ IF o = "raise"
              THEN Exit("exit 1") /\ UNCHANGED res
              ELSE /\ pc' = "score" /\ UNCHANGED status
                   /\ res' = [stdout |-> Says(o), score |-> score]
           /\ benched' = IF o = "ok" THEN benched \cup {inv} ELSE benched
    BY <1>11 DEF RunBenchmark
  <2>2. /\ pc = "benchmark" /\ inv' = inv /\ args' = args /\ todo' = todo
        /\ results' = results /\ built' = built /\ dirs' = dirs /\ elf' = elf
    BY <1>11 DEF RunBenchmark, tests
  <2>3. inv \notin faulty' => inv \notin faulty
    BY <2>1 DEF Note
  <2>4. CASE o = "raise"
    <3>1. pc' = "idle" /\ status' = "exit 1"
      BY <2>1, <2>4 DEF Exit
    <3> QED
      BY <3>1, <2>2, <1>r
  <2>5. CASE o # "raise"
    <3>1. /\ pc' = "score" /\ status' = status
          /\ res' = [stdout |-> Says(o), score |-> score]
      BY <2>1, <2>5
    <3>2. res'.stdout = "success" => inv \in benched'
      <4>1. res'.stdout = Says(o)
        BY <3>1
      <4>2. Says(o) = "success" => o = "ok"
        BY DEF Says
      <4> QED
        BY <4>1, <4>2, <2>1
    <3> QED
      BY <3>1, <3>2, <2>2, <2>3, <1>r
  <2> QED
    BY <2>4, <2>5
<1>12. CASE CheckScore
  BY <1>12, <1>r DEF CheckScore, tree, tests, hist, Exit, Note, Outcome, run_passed
<1>13. CASE Kill
  BY <1>13, <1>r DEF Kill, tree, tests, hist, Exit, Note, Outcome
<1>14. CASE CleanEmbench
  BY <1>14, <1>r DEF CleanEmbench, tree, tests, hist, Exit, Note, Outcome
<1>15. CASE UNCHANGED vars
  BY <1>15, <1>r DEF vars, tree, tests, hist
<1> QED
  BY <1>1, <1>2, <1>3, <1>4, <1>5, <1>6, <1>7, <1>8, <1>9, <1>10, <1>11, <1>12, <1>13, <1>14, <1>15 DEF Next

(* Typing holds in every reachable state. *)
THEOREM TypeCorrect == Spec => []TypeOK
<1>1. IInv => TypeOK
  BY DEF IInv
<1> QED
  BY InitIInv, StepIInv, <1>1, PTL DEF Spec

(* However many invocations were killed, failed or left files behind, main() *)
(* ends with 0 only on the strength of its own build and its own run.       *)
THEOREM StatusAlwaysEarned == Spec => []StatusIsEarned
<1>1. IInv => StatusIsEarned
  BY DEF IInv
<1> QED
  BY InitIInv, StepIInv, <1>1, PTL DEF Spec

(* No program of a failed build ever becomes a test. *)
THEOREM OnlyPassedBuildsEver == Spec => []OnlyPassedBuildsPublished
<1>1. IInv => OnlyPassedBuildsPublished
  BY DEF IInv
<1> QED
  BY InitIInv, StepIInv, <1>1, PTL DEF Spec

(* After a speed invocation that ended with 0 and met no failed call, every *)
(* benchmark has a test and every test runs what that invocation built.     *)
THEOREM PublishedAlwaysFresh == Spec => []PublishedIsFresh
<1>1. IInv => PublishedIsFresh
  BY DEF IInv
<1> QED
  BY InitIInv, StepIInv, <1>1, PTL DEF Spec
=============================================================================
