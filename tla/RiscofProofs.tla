----------------------------- MODULE RiscofProofs -----------------------------
(***************************************************************************)
(* Proofs about Riscof for every suite, every set of configurations, every *)
(* number of jobs and every number of sessions.                            *)
(***************************************************************************)
EXTENDS Riscof, TLAPS

(* The model is one of the three plugins, and the reference is sail_cSim. *)
LEMMA ModelType ==
    ASSUME cfg \in Configs, side \in Side
    PROVE  /\ model \in {"cv32e40x", "spike", "sail_cSim"}
           /\ model = "sail_cSim" <=> side = "ref"
  BY RiscofAssumption DEF model, Config, Side

(* What runTests does is what one of the plugins does. *)
LEMMA RunTestsOf ==
    ASSUME model \in {"cv32e40x", "spike", "sail_cSim"}, RunTests
    PROVE  (cv32e40x_runTests /\ model # "spike") \/ (spike_runTests /\ model = "spike")
<1>1. CASE model = "cv32e40x"
  BY <1>1 DEF RunTests
<1>2. CASE model = "spike"
  BY <1>2 DEF RunTests
<1>3. CASE model = "sail_cSim"
  BY <1>3 DEF RunTests, sail_cSim_runTests
<1> QED
  BY <1>1, <1>2, <1>3

(* A program of test t, compiled in this session; or none. *)
Own(p, t) == p = NoProg \/ (p.test = t /\ p.session = session)

Shape ==
    /\ DOMAIN elf = Side \X Test /\ DOMAIN sig = Side \X Test /\ DOMAIN hex = Test
    /\ side \in Side /\ cfg \in Configs

(* In a fresh work directory each test's files are its own, of this session. *)
FilesOwn ==
    cfg.clean => \A t \in Test :
        /\ Own(hex[t], t)
        /\ \A s \in Side : Own(elf[<<s, t>>], t) /\ Own(sig[<<s, t>>].prog, t)
        /\ \A s \in Side : sig[<<s, t>>] = NoSig \/ sig[<<s, t>>].prog # NoProg

(* The report is the last thing a session does. *)
ReportLast ==
    \A t \in Test : result[t] = "Passed" =>
        pc = "idle" /\ \A s \in Side : sig[<<s, t>>] # NoSig

IInv == Shape /\ FilesOwn /\ ReportLast

(* No files and no report at the start. *)
LEMMA InitIInv == Init => IInv
  BY DEF Init, IInv, Shape, FilesOwn, ReportLast, Own, NoSig, Side

(* A passed test has signatures, and these are its own. *)
LEMMA PassedFromIInv == IInv => PassedIsReal
  BY DEF IInv, PassedIsReal, FilesOwn, ReportLast, Own

(* A session starts from an empty directory or is not a fresh one. *)
LEMMA StartIInv ==
    ASSUME IInv, NEW c \in Configs, StartSession(c)
    PROVE  IInv'
<1>1. CASE c.clean
  <2>1. /\ elf' = [st \in Side \X Test |-> NoProg] /\ hex' = [t \in Test |-> NoProg]
        /\ sig' = [st \in Side \X Test |-> NoSig] /\ side' = "dut"
        /\ result' = [t \in Test |-> "none"] /\ cfg' = c
    BY <1>1 DEF StartSession
  <2> QED
    BY <2>1 DEF IInv, Shape, FilesOwn, ReportLast, Own, NoSig, Side
<1>2. CASE ~c.clean
  BY <1>2 DEF StartSession, IInv, Shape, FilesOwn, ReportLast, dirs, Side
<1> QED
  BY <1>1, <1>2

(* A step that leaves the directories and the configuration alone and does *)
(* not report preserves everything.                                        *)
LEMMA QuietIInv ==
    ASSUME IInv, UNCHANGED <<session, cfg, elf, hex, sig, result>>, side' \in Side,
           pc # "idle" \/ pc' = "idle"
    PROVE  IInv'
  BY DEF IInv, Shape, FilesOwn, ReportLast, Own

(* The steps of a recipe write to the directory of their own test only. *)
LEMMA CompileIInv ==
    ASSUME IInv, NEW t \in Test, Compile(t)
    PROVE  IInv'
<1>1. PICK p \in {[test |-> t, session |-> session, march |-> isa[side]], NoProg,
                  elf[<<side, t>>]} :
         elf' = [elf EXCEPT ![<<side, t>>] = p]
  BY DEF Compile, Cwd
<1>2. UNCHANGED <<session, cfg, hex, sig, result, pc, side>> /\ pc = "make"
  BY DEF Compile
<1>3. cfg.clean => Own(p, t)
  BY <1>1 DEF IInv, FilesOwn, Own, Shape
<1>4. Shape' /\ ReportLast'
  BY <1>1, <1>2 DEF IInv, Shape, ReportLast
<1>5. ASSUME cfg.clean, NEW u \in Test, NEW s \in Side
      PROVE  Own(elf'[<<s, u>>], u)
  <2>1. CASE s = side /\ u = t
    BY <1>1, <1>3, <1>5, <2>1 DEF IInv, Shape
  <2>2. CASE ~(s = side /\ u = t)
    BY <1>1, <1>5, <2>2 DEF IInv, Shape, FilesOwn
  <2> QED
    BY <2>1, <2>2
<1>6. FilesOwn'
  BY <1>2, <1>5 DEF IInv, FilesOwn, Own
<1> QED
  BY <1>4, <1>6 DEF IInv

(* A hex file is made from the elf file of the same directory. *)
LEMMA MakeHexIInv ==
    ASSUME IInv, NEW t \in Test, MakeHex(t)
    PROVE  IInv'
<1>1. hex' \in {hex, [hex EXCEPT ![t] = elf[<<side, t>>]]}
  BY DEF MakeHex, Cwd
<1>2. UNCHANGED <<session, cfg, elf, sig, result, pc, side>> /\ pc = "make"
  BY DEF MakeHex
<1>3. cfg.clean => \A u \in Test : Own(hex'[u], u)
  BY <1>1 DEF IInv, FilesOwn, Shape
<1> QED
  BY <1>1, <1>2, <1>3 DEF IInv, Shape, FilesOwn, ReportLast, Own

(* A signature comes from the program of the same directory. *)
LEMMA SimulateIInv ==
    ASSUME IInv, NEW t \in Test, Simulate(t)
    PROVE  IInv'
<1>1. UNCHANGED <<session, cfg, elf, hex, result, pc, side>> /\ pc = "make"
  BY DEF Simulate
<1>2. CASE sig' = sig
  BY <1>1, <1>2, QuietIInv DEF IInv, Shape
<1>3. CASE sig' # sig
  <2>1. PICK v \in 1 .. 2 :
           /\ Program(t) # NoProg
           /\ sig' = [sig EXCEPT ![<<side, t>>] = [prog |-> Program(t), rvc |-> Rvc, value |-> v]]
    BY <1>3 DEF Simulate
  <2>2. cfg.clean => Own(Program(t), t)
    BY DEF Program, Cwd, IInv, FilesOwn, Shape
  <2> DEFINE new == [prog |-> Program(t), rvc |-> Rvc, value |-> v]
  <2>3. new.prog = Program(t)
    OBVIOUS
  <2> HIDE DEF new
  <2>4. sig' = [sig EXCEPT ![<<side, t>>] = new]
    BY <2>1 DEF new
  <2>5. ASSUME cfg.clean, NEW u \in Test, NEW s \in Side
        PROVE  /\ Own(sig'[<<s, u>>].prog, u)
               /\ sig'[<<s, u>>] = NoSig \/ sig'[<<s, u>>].prog # NoProg
    <3>1. CASE s = side /\ u = t
      BY <2>1, <2>2, <2>3, <2>4, <2>5, <3>1 DEF IInv, Shape
    <3>2. CASE ~(s = side /\ u = t)
      BY <2>4, <2>5, <3>2 DEF IInv, Shape, FilesOwn
    <3> QED
      BY <3>1, <3>2
  <2>6. Shape' /\ ReportLast'
    BY <1>1, <2>4 DEF IInv, Shape, ReportLast
  <2>7. FilesOwn'
    BY <1>1, <2>5 DEF IInv, FilesOwn, Own
  <2> QED
    BY <2>6, <2>7 DEF IInv
<1> QED
  BY <1>2, <1>3

(* The report reads signatures of all tests, or there is none. *)
LEMMA CompareIInv ==
    ASSUME IInv, Compare
    PROVE  IInv'
<1>1. UNCHANGED <<side, session, cfg, elf, hex, sig>> /\ pc' = "idle"
  BY DEF Compare, dirs, Exit
<1>2. ASSUME NEW t \in Test, result'[t] = "Passed"
      PROVE  \A s \in Side : sig[<<s, t>>] # NoSig
  <2>1. CASE \E s \in Side, u \in cfg.tests : sig[<<s, u>>] = NoSig
    <3>1. result' = result
      BY <2>1 DEF Compare
    <3> QED
      BY <3>1, <1>2 DEF IInv, ReportLast
  <2>2. CASE ~\E s \in Side, u \in cfg.tests : sig[<<s, u>>] = NoSig
    <3>1. t \in cfg.tests
      BY <2>2, <1>2 DEF Compare
    <3> QED
      BY <3>1, <2>2
  <2> QED
    BY <2>1, <2>2
<1>3. ReportLast'
  BY <1>1, <1>2 DEF ReportLast
<1> QED
  BY <1>1, <1>3 DEF IInv, Shape, FilesOwn, Own

(* Every step of a session, by what it may write. *)
LEMMA StepIInv == IInv /\ [Next]_vars => IInv'
<1> SUFFICES ASSUME IInv, [Next]_vars PROVE IInv'
  OBVIOUS
<1>1. CASE \E c \in Configs : StartSession(c)
  BY <1>1, StartIInv
<1>2. CASE ConstructPlugin
  <2>1. side' \in Side
    BY <1>2 DEF ConstructPlugin, TurnOver, IInv, Shape, Side
  <2> QED
    BY <1>2, <2>1, QuietIInv DEF ConstructPlugin, dirs
<1>3. CASE BuildPlugin
  <2>1. side' \in Side
    BY <1>3 DEF BuildPlugin, TurnOver, IInv, Shape, Side
  <2> QED
    BY <1>3, <2>1, QuietIInv DEF BuildPlugin, dirs
<1>4. CASE RunTests
  <2>1. side' \in Side
    <3>1. cv32e40x_runTests \/ spike_runTests
      BY <1>4, ModelType, RunTestsOf DEF IInv, Shape
    <3> QED
      BY <3>1 DEF cv32e40x_runTests, spike_runTests, AfterMake, IInv, Shape, Side
  <2> QED
    BY <1>4, <2>1, QuietIInv DEF RunTests, dirs
<1>5. CASE MakeEnds \/ Timeout
  <2>1. side' \in Side
    BY <1>5 DEF MakeEnds, Timeout, MakeReturns, AfterMake, IInv, Shape, Side
  <2> QED
    BY <1>5, <2>1, QuietIInv DEF MakeEnds, Timeout, dirs
<1>6. CASE \E t \in Test : StartJob(t) \/ CleanUp(t)
  <2>1. side' \in Side
    BY <1>6 DEF StartJob, CleanUp, IInv, Shape
  <2> QED
    BY <1>6, <2>1, QuietIInv DEF StartJob, CleanUp, dirs
<1>7. CASE \E t \in Test : Compile(t) \/ MakeHex(t) \/ Simulate(t)
  BY <1>7, CompileIInv, MakeHexIInv, SimulateIInv
<1>8. CASE Compare
  BY <1>8, CompareIInv
<1>9. CASE UNCHANGED vars
  BY <1>9 DEF vars, dirs, IInv, Shape, FilesOwn, ReportLast, Own
<1> QED
  BY <1>1, <1>2, <1>3, <1>4, <1>5, <1>6, <1>7, <1>8, <1>9 DEF Next, Framework

(* No interleaving of recipes, failure, timeout or clash of file names     *)
(* lets a test pass in a fresh work directory on signatures that are not   *)
(* its own or not of this session.                                         *)
THEOREM PassedAlwaysReal == Spec => []PassedIsReal
<1> QED
  BY InitIInv, StepIInv, PassedFromIInv, PTL DEF Spec

-----------------------------------------------------------------------------
(* In the device's turn a recipe of cv32e40x fails by its clean-up only,   *)
(* and spike's make goes on; what is left when make ends has ended.        *)
TurnInv ==
    /\ cfg \in Configs /\ DOMAIN job = Test
    /\ pc = "make" /\ side = "dut" /\ cfg.dut = "cv32e40x" => \A t \in Test : job[t] # "failed"
    /\ FailuresContained

(* No recipe has failed at the start. *)
LEMMA InitTurn == Init => TurnInv
  BY DEF Init, TurnInv, FailuresContained

(* In the device's turn the model is one of the two devices. *)
LEMMA TurnFromDut ==
    ASSUME TurnInv
    PROVE  side = "dut" => model = cfg.dut /\ model \in {"cv32e40x", "spike"}
  BY RiscofAssumption DEF TurnInv, model, Config

(* A step of a recipe whose next step is not "failed" on cv32e40x. *)
LEMMA ThenTurn ==
    ASSUME TurnInv, NEW t \in Test, NEW step, Then(t, step), pc = "make",
           UNCHANGED <<pc, side, cfg>>,
           side = "dut" /\ cfg.dut = "cv32e40x" => step # "failed"
    PROVE  TurnInv'
  BY DEF TurnInv, Then, FailuresContained

(* Each step keeps the device's recipes from being given up. *)
LEMMA TurnStep == TurnInv /\ [Next]_vars => TurnInv'
<1> SUFFICES ASSUME TurnInv, [Next]_vars PROVE TurnInv'
  OBVIOUS
<1>1. CASE \E c \in Configs : StartSession(c)
  BY <1>1 DEF StartSession, TurnInv, FailuresContained
<1>2. CASE ConstructPlugin
  BY <1>2 DEF ConstructPlugin, TurnOver, Exit, TurnInv, FailuresContained
<1>3. CASE BuildPlugin
  BY <1>3 DEF BuildPlugin, TurnOver, Exit, TurnInv, FailuresContained
<1>4. CASE RunTests
  <2>1. model \in {"cv32e40x", "spike", "sail_cSim"}
    BY RiscofAssumption DEF TurnInv, model, Config
  <2>2. (cv32e40x_runTests /\ model # "spike") \/ (spike_runTests /\ model = "spike")
    BY <1>4, <2>1, RunTestsOf
  <2>3. job' = [t \in Test |-> IF t \in Recipes THEN "ready" ELSE "none"] /\ cfg' = cfg
    BY <1>4, <2>2 DEF RunTests, cv32e40x_runTests, spike_runTests
  <2>4. pc' = "tests" => ~(side' = "ref" /\ cfg.dut_run)
    BY <2>2, <1>4 DEF RunTests, cv32e40x_runTests, spike_runTests, AfterMake, Exit, target_run
  <2> QED
    BY <2>3, <2>4 DEF TurnInv, FailuresContained
<1>5. CASE MakeEnds
  <2>1. UNCHANGED <<cfg, job, timed_out>> /\ pc = "make" /\ MakeReturns
    BY <1>5 DEF MakeEnds
  <2>2. pc' # "make"
    BY <2>1 DEF MakeReturns, AfterMake, Exit
  <2>3. ASSUME pc' = "tests", side' = "ref", \A t \in Test : job[t] # "not_cleaned"
        PROVE  \A t \in Test : job[t] \notin Running \cup {"ready"}
    <3>1. side = "dut"
      BY <2>1, <2>3 DEF MakeReturns, AfterMake, Exit
    <3>2. ~Stopped
      BY <2>1, <2>3, <3>1, TurnFromDut DEF Stopped, TurnInv
    <3> QED
      BY <1>5, <3>2 DEF MakeEnds
  <2> QED
    BY <2>1, <2>2, <2>3 DEF TurnInv, FailuresContained
<1>6. CASE Timeout
  BY <1>6 DEF Timeout, MakeReturns, AfterMake, Exit, TurnInv, FailuresContained
<1>7. ASSUME NEW t \in Test, StartJob(t) \/ Compile(t) \/ MakeHex(t) \/ CleanUp(t)
      PROVE  TurnInv'
  BY <1>7, ThenTurn DEF StartJob, Compile, MakeHex, CleanUp, Then
<1>8. ASSUME NEW t \in Test, Simulate(t)
      PROVE  TurnInv'
  <2>1. PICK ok \in BOOLEAN : Then(t, AfterSim(ok))
    BY <1>8 DEF Simulate
  <2>2. side = "dut" /\ cfg.dut = "cv32e40x" => AfterSim(ok) # "failed"
    BY TurnFromDut DEF AfterSim
  <2> QED
    BY <1>8, <2>1, <2>2, ThenTurn DEF Simulate
<1>9. CASE Compare
  BY <1>9 DEF Compare, Exit, TurnInv, FailuresContained
<1>10. CASE UNCHANGED vars
  BY <1>10 DEF vars, TurnInv, FailuresContained
<1> QED
  BY <1>1, <1>2, <1>3, <1>4, <1>5, <1>6, <1>7, <1>8, <1>9, <1>10 DEF Next, Framework

(* For every number of jobs and every interleaving of the recipes, failing *)
(* compilations and simulations on the device's side cost no other test    *)
(* its run, as long as every clean-up succeeds.                            *)
THEOREM FailuresAlwaysContained == Spec => []FailuresContained
<1>1. TurnInv => FailuresContained
  BY DEF TurnInv
<1> QED
  BY InitTurn, TurnStep, <1>1, PTL DEF Spec

-----------------------------------------------------------------------------
(* Whatever the extensions, both isa strings are sequences of extensions. *)
LEMMA IsaType == dut_isa \in Seq(Ext) /\ sail_isa \in Seq(Ext)
<1>1. \A e \in Ext : Added(e) \in Seq(Ext)
  BY DEF Added
<1>2. \A a, b \in Seq(Ext) : a \o b \in Seq(Ext)
  OBVIOUS
<1>3. /\ Added("I") \in Seq(Ext) /\ Added("M") \in Seq(Ext) /\ Added("A") \in Seq(Ext)
      /\ Added("F") \in Seq(Ext) /\ Added("D") \in Seq(Ext) /\ Added("C") \in Seq(Ext)
      /\ Added("Zicsr") \in Seq(Ext) /\ Added("Zifencei") \in Seq(Ext)
      /\ Added("Zicond") \in Seq(Ext) /\ Added("Zba") \in Seq(Ext)
      /\ Added("Zbb") \in Seq(Ext) /\ Added("Zbc") \in Seq(Ext) /\ Added("Zbs") \in Seq(Ext)
  BY <1>1 DEF Ext
<1> QED
  BY <1>2, <1>3, Zenon DEF dut_isa, sail_isa

(* a spells those extensions of E that the isa yaml has. *)
Spells(a, E) == a \in Seq(Ext) /\ Range(a) = E \cap cfg.ispec

(* One extension is spelled if the yaml has it, *)
LEMMA AddedSpells == \A e \in Ext : Spells(Added(e), {e})
  BY DEF Added, Spells, Range

(* and strings put together spell what each of them spells. *)
LEMMA CatSpells ==
    ASSUME NEW a, NEW b, NEW E, NEW F, Spells(a, E), Spells(b, F)
    PROVE  Spells(a \o b, E \cup F)
<1>1. a \in Seq(Ext) /\ b \in Seq(Ext) /\ a \o b \in Seq(Ext)
  BY DEF Spells
<1>2. Range(a \o b) \subseteq Range(a) \cup Range(b)
  BY <1>1 DEF Range
<1>3. Range(a) \subseteq Range(a \o b)
  BY <1>1 DEF Range
<1>4. ASSUME NEW j \in DOMAIN b PROVE b[j] \in Range(a \o b)
  <2>1. Len(a) + j \in DOMAIN (a \o b) /\ (a \o b)[Len(a) + j] = b[j]
    BY <1>1
  <2> QED
    BY <2>1 DEF Range
<1>5. Range(a \o b) = Range(a) \cup Range(b)
  BY <1>2, <1>3, <1>4 DEF Range
<1> QED
  BY <1>1, <1>5 DEF Spells

(* Although they differ in the order of C and D, the two strings spell the *)
(* extensions of the isa yaml.                                             *)
LEMMA IsaSpells ==
    ASSUME cfg \in Configs
    PROVE  Range(dut_isa) = cfg.ispec /\ Range(sail_isa) = cfg.ispec
<1>1. /\ Spells(Added("I"), {"I"}) /\ Spells(Added("M"), {"M"}) /\ Spells(Added("A"), {"A"})
      /\ Spells(Added("F"), {"F"}) /\ Spells(Added("D"), {"D"}) /\ Spells(Added("C"), {"C"})
      /\ Spells(Added("Zicsr"), {"Zicsr"}) /\ Spells(Added("Zifencei"), {"Zifencei"})
      /\ Spells(Added("Zicond"), {"Zicond"}) /\ Spells(Added("Zba"), {"Zba"})
      /\ Spells(Added("Zbb"), {"Zbb"}) /\ Spells(Added("Zbc"), {"Zbc"})
      /\ Spells(Added("Zbs"), {"Zbs"})
  BY AddedSpells DEF Ext
<1> DEFINE f == Added("I") \o Added("M") \o Added("A") \o Added("F")
           F == {"I"} \cup {"M"} \cup {"A"} \cup {"F"}
           E == F \cup {"D"} \cup {"C"} \cup {"Zicsr"} \cup {"Zifencei"} \cup {"Zicond"}
                  \cup {"Zba"} \cup {"Zbb"} \cup {"Zbc"} \cup {"Zbs"}
<1>2. Spells(f, F)
  BY <1>1, CatSpells, Zenon
<1> HIDE DEF f, F
<1>3. Spells(f \o Added("D") \o Added("C"), F \cup {"D"} \cup {"C"})
  BY <1>1, <1>2, CatSpells, Zenon
<1>4. Spells(f \o Added("C") \o Added("D"), F \cup {"D"} \cup {"C"})
  <2>1. Spells(f \o Added("C") \o Added("D"), F \cup {"C"} \cup {"D"})
    BY <1>1, <1>2, CatSpells, Zenon
  <2> QED
    BY <2>1 DEF Spells
<1>5. ASSUME NEW x, Spells(x, F \cup {"D"} \cup {"C"})
      PROVE  Spells(x \o Added("Zicsr") \o Added("Zifencei") \o Added("Zicond") \o Added("Zba")
                      \o Added("Zbb") \o Added("Zbc") \o Added("Zbs"), E)
  <2> DEFINE y == x \o Added("Zicsr") \o Added("Zifencei") \o Added("Zicond")
             Y == F \cup {"D"} \cup {"C"} \cup {"Zicsr"} \cup {"Zifencei"} \cup {"Zicond"}
  <2>1. Spells(y, Y)
    BY <1>1, <1>5, CatSpells, Zenon
  <2> HIDE DEF y, Y
  <2>2. Spells(y \o Added("Zba") \o Added("Zbb") \o Added("Zbc") \o Added("Zbs"),
               Y \cup {"Zba"} \cup {"Zbb"} \cup {"Zbc"} \cup {"Zbs"})
    BY <1>1, <2>1, CatSpells, Zenon
  <2> QED
    BY <2>2, Zenon DEF y, Y
<1>6. Spells(dut_isa, E) /\ Spells(sail_isa, E)
  BY <1>3, <1>4, <1>5, Zenon DEF dut_isa, sail_isa, f
<1>7. E = Ext
  BY DEF Ext, F
<1>8. cfg.ispec \subseteq Ext
  BY RiscofAssumption DEF Config
<1> HIDE DEF E
<1> QED
  BY <1>6, <1>7, <1>8 DEF Spells

(* The programs and signatures a session starts with have their types. *)
LEMMA NoFiles == NoProg \in Prog /\ NoSig \in Sig
<1>1. <<>> \in Seq(Ext) /\ 0 \in Sessions
  BY RiscofAssumption DEF Sessions
<1> QED
  BY <1>1 DEF NoProg, Prog, NoSig, Sig

(* Types at the start, *)
LEMMA InitTypes == Init => TypeOK
<1> SUFFICES ASSUME Init PROVE TypeOK
  OBVIOUS
<1>1. <<>> \in Seq(Ext) /\ 0 \in Sessions
  BY RiscofAssumption DEF Sessions
<1> QED
  BY <1>1, NoFiles DEF Init, TypeOK, Side

(* when a session starts, *)
LEMMA StartTypes ==
    ASSUME TypeOK, NEW c \in Configs, StartSession(c)
    PROVE  TypeOK'
<1>1. <<>> \in Seq(Ext) /\ session' \in Sessions
  BY RiscofAssumption DEF Sessions, StartSession, TypeOK
<1>2. isa' \in [Side -> Seq(Ext)] /\ job' \in [Test -> {"none"}]
  BY <1>1 DEF StartSession
<1>3. elf' \in [Side \X Test -> Prog] /\ hex' \in [Test -> Prog] /\ sig' \in [Side \X Test -> Sig]
      /\ sail_work' \in BOOLEAN
  BY NoFiles DEF StartSession, TypeOK, dirs
<1> QED
  BY <1>1, <1>2, <1>3 DEF StartSession, TypeOK, Side

(* in a step that writes no files, *)
LEMMA FrameworkTypes ==
    ASSUME TypeOK, ConstructPlugin \/ RunTests \/ MakeEnds \/ Timeout
    PROVE  TypeOK'
<1>1. model \in {"cv32e40x", "spike", "sail_cSim"}
  BY ModelType DEF TypeOK
<1>2. CASE ConstructPlugin
  BY <1>2 DEF ConstructPlugin, TurnOver, Exit, TypeOK, plugin, dirs, Side
<1>3. CASE RunTests
  <2>1. cv32e40x_runTests \/ spike_runTests
    BY <1>1, <1>3, RunTestsOf
  <2>2. job' \in [Test -> Running \cup {"none", "ready", "done", "failed", "not_cleaned", "killed"}]
    BY <2>1 DEF cv32e40x_runTests, spike_runTests
  <2>3. pc' \in {"idle", "tests", "make", "compare"} /\ side' \in Side
        /\ status' \in {"none", "running", "exit_0", "exit_1"}
    BY <2>1, <1>3 DEF RunTests, cv32e40x_runTests, spike_runTests, AfterMake, Exit, TypeOK, Side
  <2> QED
    BY <1>3, <2>2, <2>3 DEF RunTests, TypeOK, plugin, dirs
<1>4. CASE MakeEnds \/ Timeout
  <2>1. pc' \in {"idle", "tests", "compare"} /\ side' \in Side
        /\ status' \in {"none", "running", "exit_0", "exit_1"}
    BY <1>4 DEF MakeEnds, Timeout, MakeReturns, AfterMake, Exit, TypeOK, Side
  <2>2. job' \in [Test -> Running \cup {"none", "ready", "done", "failed", "not_cleaned", "killed"}]
        /\ timed_out' \in BOOLEAN
    BY <1>4 DEF MakeEnds, Timeout, TypeOK
  <2> QED
    BY <1>4, <2>1, <2>2 DEF MakeEnds, Timeout, TypeOK, plugin, dirs
<1> QED
  BY <1>2, <1>3, <1>4

(* when a plugin builds, *)
LEMMA BuildTypes ==
    ASSUME TypeOK, BuildPlugin
    PROVE  TypeOK'
<1>1. model \in {"cv32e40x", "spike", "sail_cSim"}
  BY ModelType DEF TypeOK
<1>2. isa' \in [Side -> Seq(Ext)]
  BY <1>1, IsaType DEF BuildPlugin, cv32e40x_build, spike_build, sail_cSim_isa, TypeOK
<1>3. sail_work' \in BOOLEAN
  BY DEF BuildPlugin
<1>4. pc' \in {"idle", "build", "tests"} /\ side' \in Side
      /\ status' \in {"none", "running", "exit_0", "exit_1"}
  BY DEF BuildPlugin, TurnOver, Exit, TypeOK, Side
<1> QED
  BY <1>2, <1>3, <1>4 DEF BuildPlugin, TypeOK, dirs

(* Whether there are compressed instructions is known of every plugin. *)
LEMMA RvcType ==
    ASSUME TypeOK
    PROVE  Rvc \in BOOLEAN
<1>1. model \in {"cv32e40x", "spike", "sail_cSim"}
  BY ModelType DEF TypeOK
<1>2. spike_rvc \in BOOLEAN /\ sail_rvc \in BOOLEAN /\ cv32e40x_rvc \in BOOLEAN
  BY DEF spike_rvc, sail_rvc, cv32e40x_rvc
<1> QED
  BY <1>1, <1>2 DEF Rvc

(* in the steps of a recipe *)
LEMMA RecipeTypes ==
    ASSUME TypeOK, NEW t \in Test,
           StartJob(t) \/ Compile(t) \/ MakeHex(t) \/ Simulate(t) \/ CleanUp(t)
    PROVE  TypeOK'
<1> DEFINE Jobs == Running \cup {"none", "ready", "done", "failed", "not_cleaned", "killed"}
<1>1. UNCHANGED <<pc, side, session, cfg, isa, sail_work, result, status, timed_out>>
  BY DEF StartJob, Compile, MakeHex, Simulate, CleanUp, plugin
<1>2. job' \in [Test -> Jobs]
  <2>1. PICK step \in Jobs : job' = [job EXCEPT ![t] = step]
    <3>1. CASE StartJob(t) \/ Compile(t) \/ MakeHex(t) \/ CleanUp(t)
      BY <3>1 DEF StartJob, Compile, MakeHex, CleanUp, Then, Running
    <3>2. CASE Simulate(t)
      BY <3>2 DEF Simulate, AfterSim, Then, Running
    <3> QED
      BY <3>1, <3>2
  <2> QED
    BY <2>1 DEF TypeOK
<1>3. elf' \in [Side \X Test -> Prog]
  <2>1. CASE Compile(t)
    <3>1. <<side, t>> \in Side \X Test
      BY DEF TypeOK
    <3>2. [test |-> t, session |-> session, march |-> isa[side]] \in Prog
      BY DEF TypeOK, Prog
    <3>3. PICK p \in Prog : elf' = [elf EXCEPT ![<<side, t>>] = p]
      BY <2>1, <3>1, <3>2, NoFiles DEF Compile, Cwd, TypeOK
    <3> QED
      BY <3>1, <3>3 DEF TypeOK
  <2> QED
    BY <2>1 DEF StartJob, MakeHex, Simulate, CleanUp, dirs, TypeOK
<1>4. hex' \in [Test -> Prog]
  <2>1. CASE MakeHex(t)
    <3>1. elf[<<side, t>>] \in Prog
      BY DEF TypeOK
    <3> QED
      BY <2>1, <3>1 DEF MakeHex, Cwd, TypeOK
  <2> QED
    BY <2>1 DEF StartJob, Compile, Simulate, CleanUp, dirs, TypeOK
<1>5. sig' \in [Side \X Test -> Sig]
  <2>1. CASE Simulate(t)
    <3>1. Program(t) \in Prog /\ <<side, t>> \in Side \X Test
      BY DEF TypeOK, Program, Cwd
    <3>2. \A v \in 1 .. 2 : [prog |-> Program(t), rvc |-> Rvc, value |-> v] \in Sig
      BY <3>1, RvcType DEF Sig
    <3>3. sig' = sig \/ \E v \in 1 .. 2 :
             sig' = [sig EXCEPT ![<<side, t>>] = [prog |-> Program(t), rvc |-> Rvc, value |-> v]]
      BY <2>1 DEF Simulate
    <3>4. sig' = sig \/ \E g \in Sig : sig' = [sig EXCEPT ![<<side, t>>] = g]
      BY <3>2, <3>3
    <3> QED
      BY <3>1, <3>4 DEF TypeOK
  <2> QED
    BY <2>1 DEF StartJob, Compile, MakeHex, CleanUp, dirs, TypeOK
<1> QED
  BY <1>1, <1>2, <1>3, <1>4, <1>5 DEF TypeOK

(* and in the report. *)
LEMMA StepTypes == TypeOK /\ [Next]_vars => TypeOK'
<1> SUFFICES ASSUME TypeOK, [Next]_vars PROVE TypeOK'
  OBVIOUS
<1>1. CASE Compare
  <2>1. result' \in [Test -> {"none", "Passed", "Failed"}]
    BY <1>1 DEF Compare, TypeOK
  <2> QED
    BY <1>1, <2>1 DEF Compare, Exit, TypeOK, plugin, dirs
<1>2. CASE UNCHANGED vars
  BY <1>2 DEF vars, plugin, dirs, TypeOK
<1> QED
  BY <1>1, <1>2, StartTypes, FrameworkTypes, BuildTypes, RecipeTypes DEF Next, Framework

(* Plugins, recipes, programs, signatures and reports have their types,    *)
(* and a session ends with an exit status and not with a bare SystemExit.  *)
THEOREM TypeCorrect == Spec => []TypeOK
<1> QED
  BY InitTypes, StepTypes, PTL DEF Spec

-----------------------------------------------------------------------------
(* The isa string that a side's build function puts together. *)
IsaOf(s) == IF s = "dut" THEN dut_isa ELSE sail_isa

(* A program that is none, or of an earlier session, or for the machine of *)
(* side s.                                                                 *)
For(p, s) ==
    p.session <= session /\ (p = NoProg \/ p.session # session \/ p.march = IsaOf(s))

(* A signature that is none, or of such an earlier program, or from the    *)
(* machine of side s.                                                      *)
SigFor(g, s) ==
    /\ g.prog.session <= session
    /\ \/ g = NoSig \/ g.prog.session # session
       \/ g.prog.march = IsaOf(s) /\ ("C" \in cfg.ispec => g.rvc)

(* From its build on a plugin has its isa string. *)
Built ==
    /\ (pc = "build" /\ side = "ref") \/ pc \in {"tests", "make", "compare"}
          => isa["dut"] = IsaOf("dut")
    /\ pc \in {"tests", "make", "compare"} => isa["ref"] = IsaOf("ref")

(* Only cv32e40x makes hex files. *)
HexOfDut == pc = "make" => \A t \in Test : job[t] = "hex" => side = "dut"

(* Every program and signature of this session is for its side's machine. *)
FilesFor ==
    \A t \in Test : /\ For(hex[t], "dut")
                    /\ \A s \in Side : For(elf[<<s, t>>], s) /\ SigFor(sig[<<s, t>>], s)

(* A verdict is about signatures that are there. *)
Reported ==
    \A t \in Test : result[t] # "none" =>
        pc = "idle" /\ \A s \in Side : sig[<<s, t>>] # NoSig

MachInv == Built /\ HexOfDut /\ FilesFor /\ Reported

(* Nothing is built or reported at the start. *)
LEMMA InitMach == Init => MachInv
  BY DEF Init, MachInv, Built, HexOfDut, FilesFor, For, SigFor, NoProg, NoSig, Reported

(* Signatures from the two sides' machines are from one machine, since     *)
(* both isa strings spell the extensions of the isa yaml.                  *)
LEMMA SameFromMach == TypeOK /\ MachInv => SameMachine
<1> SUFFICES ASSUME TypeOK, MachInv, NEW t \in Test, result[t] # "none", NEW s \in Side,
                    sig[<<s, t>>].prog.session = session
             PROVE  /\ Range(sig[<<s, t>>].prog.march) = cfg.ispec
                    /\ "C" \in cfg.ispec => sig[<<s, t>>].rvc
  BY DEF SameMachine
<1>1. sig[<<s, t>>] # NoSig
  BY DEF MachInv, Reported
<1>2. sig[<<s, t>>].prog.march = IsaOf(s) /\ ("C" \in cfg.ispec => sig[<<s, t>>].rvc)
  BY <1>1 DEF MachInv, FilesFor, SigFor
<1>3. Range(IsaOf(s)) = cfg.ispec
  BY IsaSpells DEF IsaOf, TypeOK
<1> QED
  BY <1>2, <1>3

(* A session starts with neither built, and with programs and signatures   *)
(* of earlier sessions only.                                               *)
LEMMA StartMach ==
    ASSUME TypeOK, MachInv, NEW c \in Configs, StartSession(c)
    PROVE  MachInv'
<1>1. /\ pc' = "init" /\ cfg' = c /\ result' = [t \in Test |-> "none"]
      /\ session' = session + 1 /\ session \in Nat
  BY RiscofAssumption DEF StartSession, TypeOK, Sessions
<1>2. Built' /\ HexOfDut' /\ Reported'
  BY <1>1 DEF Built, HexOfDut, Reported
<1>3. CASE c.clean
  <2>1. /\ elf' = [st \in Side \X Test |-> NoProg] /\ hex' = [t \in Test |-> NoProg]
        /\ sig' = [st \in Side \X Test |-> NoSig]
    BY <1>3 DEF StartSession
  <2>2. FilesFor'
    BY <1>1, <2>1 DEF FilesFor, For, SigFor, NoProg, NoSig
  <2> QED
    BY <1>2, <2>2 DEF MachInv
<1>4. CASE ~c.clean
  <2>1. UNCHANGED <<elf, hex, sig>>
    BY <1>4 DEF StartSession, dirs
  <2>2. ASSUME NEW t \in Test
        PROVE  For(hex[t], "dut")'
    <3>1. hex[t].session <= session /\ hex[t].session \in Nat
      BY RiscofAssumption DEF MachInv, FilesFor, For, TypeOK, Prog, Sessions
    <3> QED
      BY <1>1, <2>1, <3>1 DEF For
  <2>3. ASSUME NEW t \in Test, NEW s \in Side
        PROVE  For(elf[<<s, t>>], s)' /\ SigFor(sig[<<s, t>>], s)'
    <3>1. elf[<<s, t>>].session <= session /\ elf[<<s, t>>].session \in Nat
      BY RiscofAssumption DEF MachInv, FilesFor, For, TypeOK, Prog, Sessions
    <3>2. sig[<<s, t>>].prog.session <= session /\ sig[<<s, t>>].prog.session \in Nat
      BY RiscofAssumption DEF MachInv, FilesFor, SigFor, TypeOK, Sig, Prog, Sessions
    <3>3. For(elf[<<s, t>>], s)'
      BY <1>1, <2>1, <3>1 DEF For
    <3>4. SigFor(sig[<<s, t>>], s)'
      BY <1>1, <2>1, <3>2 DEF SigFor
    <3> QED
      BY <3>3, <3>4
  <2>4. FilesFor'
    BY <2>2, <2>3 DEF FilesFor
  <2> QED
    BY <1>2, <2>4 DEF MachInv
<1> QED
  BY <1>3, <1>4

(* The isa strings are those of the configuration, which only a new        *)
(* session changes.                                                        *)
LEMMA IsaKept == cfg' = cfg => \A s : IsaOf(s)' = IsaOf(s)
  BY DEF IsaOf, dut_isa, sail_isa, Added

(* A step that leaves the directories alone and does not report keeps the  *)
(* programs and the report as they are.                                    *)
LEMMA QuietMach ==
    ASSUME MachInv, UNCHANGED <<session, cfg, elf, hex, sig, result>>, pc # "idle"
    PROVE  FilesFor' /\ Reported'
<1>1. \A s : IsaOf(s)' = IsaOf(s)
  BY IsaKept
<1>2. FilesFor'
  BY <1>1 DEF MachInv, FilesFor, For, SigFor
<1> QED
  BY <1>2 DEF MachInv, Reported

(* A plugin's build gives it its string. *)
LEMMA BuildMach ==
    ASSUME TypeOK, MachInv, BuildPlugin
    PROVE  MachInv'
<1>1. UNCHANGED <<session, cfg, elf, hex, sig, result>> /\ pc = "build"
  BY DEF BuildPlugin, dirs
<1>2. FilesFor' /\ Reported'
  BY <1>1, QuietMach
<1>3. pc' # "make" /\ pc' # "compare"
      /\ (pc' = "tests" => side = "ref")
      /\ (pc' = "build" => side = "dut" /\ side' = "ref")
  BY DEF BuildPlugin, TurnOver, Exit, TypeOK, Side
<1>4. dut_isa' = dut_isa /\ sail_isa' = sail_isa
  BY <1>1 DEF dut_isa, sail_isa, Added
<1>5. CASE side = "dut"
  <2>1. model \in {"cv32e40x", "spike"}
    BY <1>5, ModelType DEF TypeOK
  <2>2. isa' = [isa EXCEPT !["dut"] = dut_isa]
    BY <2>1 DEF BuildPlugin, cv32e40x_build, spike_build
  <2>3. isa'["dut"] = dut_isa
    BY <2>2 DEF TypeOK, Side
  <2>4. Built'
    BY <1>3, <1>4, <1>5, <2>3 DEF Built, IsaOf
  <2> QED
    BY <1>2, <1>3, <2>4 DEF MachInv, HexOfDut
<1>6. CASE side = "ref"
  <2>1. model = "sail_cSim"
    BY <1>6, ModelType DEF TypeOK
  <2>2. isa' = [isa EXCEPT !["ref"] = sail_isa]
    BY <2>1 DEF BuildPlugin, sail_cSim_isa
  <2>3. isa'["ref"] = sail_isa /\ isa'["dut"] = isa["dut"]
    BY <2>2 DEF TypeOK, Side
  <2>4. isa["dut"] = dut_isa
    BY <1>1, <1>6 DEF MachInv, Built, IsaOf
  <2>5. Built'
    BY <1>3, <1>4, <2>3, <2>4 DEF Built, IsaOf
  <2> QED
    BY <1>2, <1>3, <2>5 DEF MachInv, HexOfDut
<1> QED
  BY <1>5, <1>6 DEF TypeOK, Side

(* The framework's other steps leave what is built alone. *)
LEMMA FrameworkMach ==
    ASSUME TypeOK, MachInv, ConstructPlugin \/ RunTests \/ MakeEnds \/ Timeout
    PROVE  MachInv'
<1>1. UNCHANGED <<session, cfg, isa, elf, hex, sig, result>> /\ pc # "idle"
  BY DEF ConstructPlugin, RunTests, MakeEnds, Timeout, plugin, dirs
<1>2. FilesFor' /\ Reported'
  BY <1>1, QuietMach
<1>3. IsaOf("dut")' = IsaOf("dut") /\ IsaOf("ref")' = IsaOf("ref")
  BY <1>1, IsaKept
<1>4. CASE ConstructPlugin
  <2>1. pc' \in {"idle", "init"} \/ (pc' = "build" /\ side' = "dut")
    BY <1>4 DEF ConstructPlugin, TurnOver, Exit
  <2> QED
    BY <1>2, <2>1 DEF MachInv, Built, HexOfDut
<1>5. CASE RunTests
  <2>1. cv32e40x_runTests \/ spike_runTests
    BY <1>5, ModelType, RunTestsOf DEF TypeOK
  <2>2. job' = [t \in Test |-> IF t \in Recipes THEN "ready" ELSE "none"]
    BY <2>1 DEF cv32e40x_runTests, spike_runTests
  <2>3. pc = "tests" /\ pc' \in {"idle", "tests", "make", "compare"}
    BY <2>1, <1>5 DEF RunTests, cv32e40x_runTests, spike_runTests, AfterMake, Exit
  <2>4. HexOfDut'
    BY <2>2 DEF HexOfDut
  <2>5. Built'
    BY <1>1, <1>3, <2>3 DEF MachInv, Built
  <2> QED
    BY <1>2, <2>4, <2>5 DEF MachInv
<1>6. CASE MakeEnds \/ Timeout
  <2>1. pc = "make" /\ pc' \in {"idle", "tests", "compare"}
    BY <1>6 DEF MakeEnds, Timeout, MakeReturns, AfterMake, Exit
  <2> QED
    BY <1>1, <1>2, <1>3, <2>1 DEF MachInv, Built, HexOfDut
<1> QED
  BY <1>4, <1>5, <1>6

(* A step of a recipe that does not make it the turn of the hex file on    *)
(* the reference's side leaves what is built alone.                        *)
LEMMA RecipeMach ==
    ASSUME TypeOK, MachInv, NEW t \in Test, NEW step, Then(t, step),
           UNCHANGED <<pc, side, cfg, isa>>, step = "hex" => side = "dut"
    PROVE  Built' /\ HexOfDut'
<1>1. IsaOf("dut")' = IsaOf("dut") /\ IsaOf("ref")' = IsaOf("ref")
  BY IsaKept
<1>2. Built'
  BY <1>1 DEF MachInv, Built
<1>3. HexOfDut'
  BY DEF MachInv, HexOfDut, Then, TypeOK
<1> QED
  BY <1>2, <1>3

(* A program is compiled for the machine of its side, *)
LEMMA CompileMach ==
    ASSUME TypeOK, MachInv, NEW t \in Test, Compile(t)
    PROVE  MachInv'
<1>1. PICK p \in {[test |-> t, session |-> session, march |-> isa[side]], NoProg,
                  elf[<<side, t>>]} :
         elf' = [elf EXCEPT ![<<side, t>>] = p]
  BY DEF Compile, Cwd
<1>2. UNCHANGED <<session, cfg, isa, hex, sig, result, pc, side>> /\ pc = "make"
  BY DEF Compile, plugin
<1>3. Built' /\ HexOfDut'
  <2>1. Then(t, IF model = "cv32e40x" THEN "hex" ELSE "sim")
    BY DEF Compile
  <2>2. (IF model = "cv32e40x" THEN "hex" ELSE "sim") = "hex" => side = "dut"
    BY DEF model, TypeOK, Side
  <2> QED
    BY <1>2, <2>1, <2>2, RecipeMach
<1>4. For(p, side)
  <2>1. isa[side] = IsaOf(side) /\ session \in Nat
    BY <1>2, RiscofAssumption DEF MachInv, Built, TypeOK, Side, Sessions
  <2>2. For([test |-> t, session |-> session, march |-> isa[side]], side)
    BY <2>1 DEF For
  <2>3. For(elf[<<side, t>>], side)
    BY DEF MachInv, FilesFor, TypeOK
  <2>4. For(NoProg, side)
    BY <2>1 DEF For, NoProg
  <2> QED
    BY <1>1, <2>2, <2>3, <2>4
<1>5. \A s : IsaOf(s)' = IsaOf(s)
  BY <1>2, IsaKept
<1>6. ASSUME NEW u \in Test, NEW s \in Side
      PROVE  For(elf'[<<s, u>>], s)
  <2>1. CASE s = side /\ u = t
    BY <1>1, <1>4, <2>1 DEF TypeOK
  <2>2. CASE ~(s = side /\ u = t)
    BY <1>1, <2>2 DEF MachInv, FilesFor, TypeOK
  <2> QED
    BY <2>1, <2>2
<1>7. FilesFor'
  BY <1>2, <1>5, <1>6 DEF MachInv, FilesFor, For, SigFor
<1>8. Reported'
  BY <1>2 DEF MachInv, Reported
<1> QED
  BY <1>3, <1>7, <1>8 DEF MachInv

(* a hex file is made from the device's elf file, *)
LEMMA MakeHexMach ==
    ASSUME TypeOK, MachInv, NEW t \in Test, MakeHex(t)
    PROVE  MachInv'
<1>1. hex' \in {hex, [hex EXCEPT ![t] = elf[<<side, t>>]]}
  BY DEF MakeHex, Cwd
<1>2. UNCHANGED <<session, cfg, isa, elf, sig, result, pc, side>> /\ pc = "make" /\ job[t] = "hex"
  BY DEF MakeHex, plugin
<1>3. side = "dut"
  BY <1>2 DEF MachInv, HexOfDut
<1>4. Built' /\ HexOfDut'
  BY <1>2, RecipeMach DEF MakeHex
<1>5. \A s : IsaOf(s)' = IsaOf(s)
  BY <1>2, IsaKept
<1>6. ASSUME NEW u \in Test
      PROVE  For(hex'[u], "dut")
  <2>1. For(elf[<<side, t>>], "dut") /\ For(hex[u], "dut")
    BY <1>3 DEF MachInv, FilesFor, Side
  <2> QED
    BY <1>1, <2>1 DEF TypeOK
<1>7. FilesFor'
  BY <1>2, <1>5, <1>6 DEF MachInv, FilesFor, For, SigFor
<1> QED
  BY <1>2, <1>4, <1>7 DEF MachInv, Reported

(* and with C in the isa yaml every machine has compressed instructions.   *)
LEMMA RvcWithC ==
    ASSUME TypeOK, MachInv, pc = "make", "C" \in cfg.ispec
    PROVE  Rvc
<1>1. Range(dut_isa) = cfg.ispec /\ Range(sail_isa) = cfg.ispec
  BY IsaSpells DEF TypeOK
<1>2. isa["dut"] = dut_isa /\ isa["ref"] = sail_isa
  BY DEF MachInv, Built, IsaOf
<1>3. spike_rvc /\ sail_rvc /\ cv32e40x_rvc
  BY <1>1, <1>2 DEF spike_rvc, sail_rvc, cv32e40x_rvc, WithC
<1>4. model \in {"cv32e40x", "spike", "sail_cSim"}
  BY ModelType DEF TypeOK
<1> QED
  BY <1>3, <1>4 DEF Rvc

(* A signature comes from a program for the machine of its side. *)
LEMMA SimulateMach ==
    ASSUME TypeOK, MachInv, NEW t \in Test, Simulate(t)
    PROVE  MachInv'
<1>1. UNCHANGED <<session, cfg, isa, elf, hex, result, pc, side>> /\ pc = "make"
  BY DEF Simulate, plugin
<1>2. Built' /\ HexOfDut'
  <2>1. PICK ok \in BOOLEAN : Then(t, AfterSim(ok))
    BY DEF Simulate
  <2>2. AfterSim(ok) # "hex"
    BY DEF AfterSim
  <2> QED
    BY <1>1, <2>1, <2>2, RecipeMach
<1>3. \A s : IsaOf(s)' = IsaOf(s)
  BY <1>1, IsaKept
<1>4. Reported'
  BY <1>1 DEF MachInv, Reported
<1>5. CASE sig' = sig
  <2>1. FilesFor'
    BY <1>1, <1>3, <1>5 DEF MachInv, FilesFor, For, SigFor
  <2> QED
    BY <1>2, <1>4, <2>1 DEF MachInv
<1>6. CASE sig' # sig
  <2>1. PICK v \in 1 .. 2 :
           /\ Program(t) # NoProg
           /\ sig' = [sig EXCEPT ![<<side, t>>] = [prog |-> Program(t), rvc |-> Rvc, value |-> v]]
    BY <1>6 DEF Simulate
  <2>2. For(Program(t), side)
    <3>1. CASE model = "cv32e40x"
      <4>1. side = "dut"
        BY <3>1 DEF model, TypeOK, Side
      <4> QED
        BY <3>1, <4>1 DEF Program, Cwd, MachInv, FilesFor
    <3>2. CASE model # "cv32e40x"
      BY <3>2 DEF Program, Cwd, MachInv, FilesFor, TypeOK
    <3> QED
      BY <3>1, <3>2
  <2> DEFINE new == [prog |-> Program(t), rvc |-> Rvc, value |-> v]
  <2>3. SigFor(new, side)
    <3>1. new.prog = Program(t) /\ new.rvc = Rvc
      OBVIOUS
    <3> HIDE DEF new
    <3>2. "C" \in cfg.ispec => Rvc
      BY <1>1, RvcWithC
    <3> QED
      BY <2>1, <2>2, <3>1, <3>2 DEF For, SigFor
  <2>4. sig' = [sig EXCEPT ![<<side, t>>] = new]
    BY <2>1
  <2> HIDE DEF new
  <2>5. ASSUME NEW u \in Test, NEW s \in Side
        PROVE  SigFor(sig'[<<s, u>>], s)
    <3>1. CASE s = side /\ u = t
      BY <2>3, <2>4, <3>1 DEF TypeOK
    <3>2. CASE ~(s = side /\ u = t)
      BY <2>4, <3>2 DEF MachInv, FilesFor, TypeOK
    <3> QED
      BY <3>1, <3>2
  <2>6. FilesFor'
    BY <1>1, <1>3, <2>5 DEF MachInv, FilesFor, For, SigFor
  <2> QED
    BY <1>2, <1>4, <2>6 DEF MachInv
<1> QED
  BY <1>5, <1>6

(* The report reads signatures of all tests, or there is none. *)
LEMMA CompareMach ==
    ASSUME TypeOK, MachInv, Compare
    PROVE  MachInv'
<1>1. UNCHANGED <<session, cfg, isa, elf, hex, sig>> /\ pc' = "idle" /\ pc = "compare"
  BY DEF Compare, plugin, dirs, Exit
<1>2. ASSUME NEW t \in Test, result'[t] # "none"
      PROVE  \A s \in Side : sig[<<s, t>>] # NoSig
  <2>1. CASE \E s \in Side, u \in cfg.tests : sig[<<s, u>>] = NoSig
    <3>1. result' = result
      BY <2>1 DEF Compare
    <3> QED
      BY <3>1, <1>2 DEF MachInv, Reported
  <2>2. CASE ~\E s \in Side, u \in cfg.tests : sig[<<s, u>>] = NoSig
    <3>1. t \in cfg.tests
      BY <2>2, <1>2 DEF Compare
    <3> QED
      BY <3>1, <2>2
  <2> QED
    BY <2>1, <2>2
<1>3. Reported'
  BY <1>1, <1>2 DEF Reported
<1>4. \A s : IsaOf(s)' = IsaOf(s)
  BY <1>1, IsaKept
<1>5. FilesFor'
  BY <1>1, <1>4 DEF MachInv, FilesFor, For, SigFor
<1> QED
  BY <1>1, <1>3, <1>5 DEF MachInv, Built, HexOfDut

(* Every step keeps the sides' programs apart. *)
LEMMA StepMach == TypeOK /\ MachInv /\ [Next]_vars => MachInv'
<1> SUFFICES ASSUME TypeOK, MachInv, [Next]_vars PROVE MachInv'
  OBVIOUS
<1>1. ASSUME NEW t \in Test, StartJob(t) \/ CleanUp(t)
      PROVE  MachInv'
  <2>1. UNCHANGED <<pc, side, session, cfg, isa, elf, hex, sig, result>> /\ pc = "make"
    BY <1>1 DEF StartJob, CleanUp, plugin, dirs
  <2>2. Then(t, "compile") \/ Then(t, "done") \/ Then(t, "not_cleaned")
    BY <1>1 DEF StartJob, CleanUp, Then
  <2>3. Built' /\ HexOfDut'
    BY <2>1, <2>2, RecipeMach
  <2>4. FilesFor' /\ Reported'
    BY <2>1, QuietMach
  <2> QED
    BY <2>3, <2>4 DEF MachInv
<1>2. CASE UNCHANGED vars
  <2>1. UNCHANGED <<pc, side, session, cfg, isa, job, elf, hex, sig, result>>
    BY <1>2 DEF vars, plugin, dirs
  <2>2. \A s : IsaOf(s)' = IsaOf(s)
    BY <2>1, IsaKept
  <2>3. FilesFor'
    BY <2>1, <2>2 DEF MachInv, FilesFor, For, SigFor
  <2>4. Built'
    BY <2>1, <2>2 DEF MachInv, Built
  <2> QED
    BY <2>1, <2>3, <2>4 DEF MachInv, HexOfDut, Reported
<1> QED
  BY <1>1, <1>2, StartMach, BuildMach, FrameworkMach, CompileMach, MakeHexMach, SimulateMach,
     CompareMach DEF Next, Framework

(* Signatures of this session's programs that are compared come from       *)
(* programs for the extensions of the isa yaml, and with C in it from      *)
(* machines with compressed instructions, for every set of extensions, in  *)
(* fresh and in old work directories, whatever is killed, fails or runs    *)
(* beside them.                                                            *)
THEOREM AlwaysSameMachine == Spec => []SameMachine
<1> QED
  BY InitTypes, StepTypes, InitMach, StepMach, SameFromMach, PTL DEF Spec
=============================================================================
