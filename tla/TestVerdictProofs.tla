-------------------------- MODULE TestVerdictProofs --------------------------
(***************************************************************************)
(* A passed verdict is earned, for every number of start-up and drain      *)
(* clocks, every quit count and every set of exit values.                  *)
(***************************************************************************)
EXTENDS TestVerdict, TLAPS

(* The copies never run ahead of the flags, which are never cleared ...    *)
CopiesLag ==
    /\ db.passed => vp.passed
    /\ db.failed => vp.failed
    /\ db.valid  => vp.valid

(* ... and the edge that ends the run phase has brought them up to date.   *)
CopiesExact ==
    /\ db.passed <=> vp.passed
    /\ db.failed <=> vp.failed
    /\ db.valid  <=> vp.valid
    /\ vp.valid => db.value = vp.value

(* What the final phase lets through without an error. *)
StatusGood ==
    /\ ~db.failed
    /\ db.valid => db.value = 0
    /\ db.passed \/ db.valid

(***************************************************************************)
(* PassIsEarned compares the verdict with the flags, between which lie two *)
(* copies; the invariant follows them: flags to database, database to      *)
(* error count, error count to verdict.                                    *)
(***************************************************************************)
IInv ==
    /\ TypeOK
    /\ CopiesLag
    /\ run \in {"ended", "final"} => CopiesExact
    /\ sim_finished => run = "final"
    /\ run = "final" /\ err_count = 0 => StatusGood
    /\ verdict = "PASSED" => run = "final" /\ err_count = 0 /\ fatal_count = 0

-----------------------------------------------------------------------------

(* No flag, no copy and no verdict after power-up. *)
LEMMA InitIInv == Init => IInv
  <1> SUFFICES ASSUME Init PROVE IInv
    OBVIOUS
  <1>1. TypeOK
    BY VerdictAssumption DEF Init, TypeOK, NoFlag, Flags
  <1>2. CopiesLag
    BY DEF Init, CopiesLag, NoFlag
  <1> QED
    BY <1>1, <1>2 DEF Init, IInv

(***************************************************************************)
(* A writer acts only while the run phase lasts and only raises flags.     *)
(***************************************************************************)
LEMMA WriteStep ==
    ASSUME IInv, Write
    PROVE  IInv'
  <1>1. Running /\ bus_busy' \in BOOLEAN
    BY DEF Write, WritePassed, WriteFailed, WriteExitValue, set_exit_valid,
           TimeoutExit, ProgramStore, IInv, TypeOK
  <1>2. PICK f : /\ WriteStatus(f)
                 /\ f \in Flags
                 /\ vp.passed => f.passed
                 /\ vp.failed => f.failed
                 /\ vp.valid  => f.valid
    <2>1. vp \in Flags /\ 0 \in ExitCode /\ 1 \in ExitCode
      BY VerdictAssumption DEF IInv, TypeOK
    <2>2. CASE WritePassed
      <3> DEFINE g == [vp EXCEPT !.passed = TRUE, !.valid = TRUE, !.value = 0]
      <3>1. /\ g \in Flags
            /\ vp.passed => g.passed
            /\ vp.failed => g.failed
            /\ vp.valid  => g.valid
        BY <2>1 DEF Flags
      <3>2. WriteStatus(g)
        BY <2>2 DEF WritePassed
      <3> HIDE DEF g
      <3> QED
        BY <3>1, <3>2
    <2>3. CASE WriteFailed
      <3> DEFINE g == [vp EXCEPT !.failed = TRUE, !.valid = TRUE, !.value = 1]
      <3>1. /\ g \in Flags
            /\ vp.passed => g.passed
            /\ vp.failed => g.failed
            /\ vp.valid  => g.valid
        BY <2>1 DEF Flags
      <3>2. WriteStatus(g)
        BY <2>3 DEF WriteFailed
      <3> HIDE DEF g
      <3> QED
        BY <3>1, <3>2
    <2>4. CASE WriteExitValue
      <3>1. PICK v \in ExitCode : WriteStatus([vp EXCEPT !.valid = TRUE, !.value = v])
        BY <2>4 DEF WriteExitValue
      <3> DEFINE g == [vp EXCEPT !.valid = TRUE, !.value = v]
      <3>2. /\ g \in Flags
            /\ vp.passed => g.passed
            /\ vp.failed => g.failed
            /\ vp.valid  => g.valid
        BY <2>1 DEF Flags
      <3>3. WriteStatus(g)
        BY <3>1
      <3> HIDE DEF g
      <3> QED
        BY <3>2, <3>3
    <2>5. CASE set_exit_valid
      <3> DEFINE g == [vp EXCEPT !.valid = TRUE, !.value = 0]
      <3>1. /\ g \in Flags
            /\ vp.passed => g.passed
            /\ vp.failed => g.failed
            /\ vp.valid  => g.valid
        BY <2>1 DEF Flags
      <3>2. WriteStatus(g)
        BY <2>5 DEF set_exit_valid
      <3> HIDE DEF g
      <3> QED
        BY <3>1, <3>2
    <2>6. CASE TimeoutExit
      <3> DEFINE g == [vp EXCEPT !.valid = TRUE, !.value = 0]
      <3>1. /\ g \in Flags
            /\ vp.passed => g.passed
            /\ vp.failed => g.failed
            /\ vp.valid  => g.valid
        BY <2>1 DEF Flags
      <3>2. WriteStatus(g)
        BY <2>6 DEF TimeoutExit
      <3> HIDE DEF g
      <3> QED
        BY <3>1, <3>2
    <2> QED
      BY <2>2, <2>3, <2>4, <2>5, <2>6 DEF Write
  <1>3. /\ vp' = f /\ exits' = exits \cup {f.value}
        /\ UNCHANGED <<reset_n, db, run, clks, err_count, fatal_count, sim_finished, verdict>>
    BY <1>2 DEF WriteStatus
  <1>4. TypeOK'
    BY <1>1, <1>2, <1>3 DEF IInv, TypeOK, Flags
  <1>5. CopiesLag'
    BY <1>2, <1>3 DEF IInv, CopiesLag
  <1>6. run' \notin {"ended", "final"}
    BY <1>1, <1>3 DEF Running
  <1> QED
    BY <1>3, <1>4, <1>5, <1>6 DEF IInv

(***************************************************************************)
(* The edge that leaves the run phase copies the flags as they are.        *)
(***************************************************************************)
LEMMA ClockStep ==
    ASSUME IInv, Clock
    PROVE  IInv'
  <1>1. /\ Running /\ db' = Latched /\ bus_busy' = FALSE /\ RunPhase
        /\ UNCHANGED <<reset_n, vp, err_count, fatal_count, sim_finished, verdict, exits>>
    BY DEF Clock
  <1>2. /\ run' \in {"starting", "waiting", "draining", "ended"}
        /\ clks' \in Nat
    <2>1. clks \in Nat /\ DRAIN_CLKS \in Nat
      BY VerdictAssumption DEF IInv, TypeOK
    <2>2. ASSUME NEW n \in Nat, NEW here, NEW next, CountEdge(n, here, next)
          PROVE  run' \in {here, next} /\ clks' \in Nat
      <3>1. CASE n > 1
        BY <2>2, <3>1 DEF CountEdge
      <3>2. CASE ~(n > 1)
        BY <2>2, <3>2 DEF CountEdge
      <3> QED
        BY <3>1, <3>2
    <2>3. CASE run = "waiting" /\ UNCHANGED <<run, clks>>
      BY <2>1, <2>3
    <2>4. CASE CountEdge(clks, "starting", "waiting")
      BY <2>1, <2>2, <2>4
    <2>5. CASE CountEdge(DRAIN_CLKS, "draining", "ended")
      BY <2>1, <2>2, <2>5
    <2>6. CASE CountEdge(clks, "draining", "ended")
      BY <2>1, <2>2, <2>6
    <2> QED
      BY <1>1, <2>3, <2>4, <2>5, <2>6, Zenon DEF RunPhase
  <1>3. vp \in Flags /\ db \in Flags /\ CopiesLag
    BY DEF IInv, TypeOK
  <1>4. /\ Latched.passed = (db.passed \/ vp.passed)
        /\ Latched.failed = (db.failed \/ vp.failed)
        /\ Latched.valid  = (db.valid \/ vp.valid)
        /\ Latched.value  = IF vp.valid THEN vp.value ELSE db.value
    BY DEF Latched
  <1>5. Latched \in Flags
    BY <1>3 DEF Latched, Flags
  <1>6. TypeOK'
    BY <1>1, <1>2, <1>5 DEF IInv, TypeOK
  <1>7. CopiesLag'
    BY <1>1, <1>3, <1>4, Zenon DEF CopiesLag
  <1>8. CopiesExact'
    BY <1>1, <1>3, <1>4, Zenon DEF CopiesLag, CopiesExact
  <1>9. ~sim_finished /\ verdict # "PASSED"
    BY <1>1 DEF IInv, Running
  <1> QED
    BY <1>1, <1>2, <1>6, <1>7, <1>8, <1>9 DEF IInv

(***************************************************************************)
(* The final phase reports an error unless the copied status is good.      *)
(***************************************************************************)
LEMMA FinalStep ==
    ASSUME IInv, phase_ended
    PROVE  IInv'
  <1>1. /\ run = "ended" /\ run' = "final" /\ sim_finished' = TRUE
        /\ err_count' = err_count + StatusErrors
        /\ UNCHANGED <<reset_n, bus_busy, vp, db, clks, fatal_count, verdict, exits>>
    BY DEF phase_ended
  <1>2. StatusErrors \in Nat /\ (StatusErrors = 0 => StatusGood)
    <2> DEFINE a == IF db.failed THEN 1 ELSE 0
               b == IF db.valid /\ db.value # 0 THEN 1 ELSE 0
               c == IF ~db.passed /\ ~db.valid /\ ~db.failed THEN 1 ELSE 0
    <2>1. a \in Nat /\ (a = 0 => ~db.failed)
      BY SMT
    <2>2. b \in Nat /\ (b = 0 => ~(db.valid /\ db.value # 0))
      BY SMT
    <2>3. c \in Nat /\ (c = 0 => ~(~db.passed /\ ~db.valid /\ ~db.failed))
      BY SMT
    <2>4. StatusErrors = a + b + c
      BY DEF StatusErrors
    <2> HIDE DEF a, b, c
    <2>5. StatusErrors \in Nat /\ (StatusErrors = 0 => a = 0 /\ b = 0 /\ c = 0)
      BY <2>1, <2>2, <2>3, <2>4
    <2> QED
      BY <2>1, <2>2, <2>3, <2>5, Zenon DEF StatusGood
  <1>3. err_count \in Nat
    BY DEF IInv, TypeOK
  <1>4. err_count' \in Nat /\ (err_count' = 0 => StatusErrors = 0)
    BY <1>1, <1>2, <1>3
  <1>5. TypeOK'
    BY <1>1, <1>4 DEF IInv, TypeOK
  <1>6. CopiesLag' /\ CopiesExact'
    BY <1>1 DEF IInv, CopiesLag, CopiesExact
  <1>7. err_count' = 0 => StatusGood'
    BY <1>1, <1>2, <1>4 DEF StatusGood
  <1>8. verdict' # "PASSED"
    BY <1>1 DEF IInv
  <1> QED
    BY <1>1, <1>5, <1>6, <1>7, <1>8 DEF IInv

(***************************************************************************)
(* The other steps leave flags and copies alone.                           *)
(***************************************************************************)
LEMMA OtherStep ==
    ASSUME IInv, ReleaseReset \/ UvmError \/ watchdog_timer \/ end_of_test
    PROVE  IInv'
  <1>1. UNCHANGED <<vp, db, bus_busy, sim_finished, exits>>
    BY DEF ReleaseReset, UvmError, watchdog_timer, end_of_test
  <1>2. CopiesLag' /\ (CopiesExact => CopiesExact') /\ (StatusGood => StatusGood')
    BY <1>1 DEF IInv, CopiesLag, CopiesExact, StatusGood
  <1>3. CASE ReleaseReset
    <2>1. TypeOK'
      BY <1>3, VerdictAssumption DEF ReleaseReset, IInv, TypeOK
    <2> QED
      BY <1>2, <1>3, <2>1 DEF ReleaseReset, IInv, Running
  <1>4. CASE UvmError
    <2>1. TypeOK'
      <3>1. err_count \in Nat /\ err_count' = err_count + 1
        BY <1>4, Zenon DEF UvmError, IInv, TypeOK
      <3>2. err_count' \in Nat
        BY <3>1
      <3>3. run' \in {run, "aborted"}
        BY <1>4, Zenon DEF UvmError
      <3> QED
        BY <1>4, <3>2, <3>3 DEF UvmError, IInv, TypeOK
    <2> QED
      BY <1>2, <1>4, <2>1 DEF UvmError, IInv, Running
  <1>5. CASE watchdog_timer
    <2>1. TypeOK'
      <3>1. fatal_count \in Nat /\ fatal_count' = fatal_count + 1
        BY <1>5, Zenon DEF watchdog_timer, IInv, TypeOK
      <3>2. fatal_count' \in Nat
        BY <3>1
      <3> QED
        BY <1>5, <3>2 DEF watchdog_timer, IInv, TypeOK
    <2> QED
      BY <1>2, <1>5, <2>1 DEF watchdog_timer, IInv, Running
  <1>6. CASE end_of_test
    <2>1. TypeOK'
      BY <1>6 DEF end_of_test, IInv, TypeOK
    <2> QED
      BY <1>2, <1>6, <2>1 DEF end_of_test, IInv
  <1> QED
    BY <1>3, <1>4, <1>5, <1>6

(* Every behaviour of the test keeps the invariant that links the flags,   *)
(* their copies, the error count and the verdict.                          *)
THEOREM Invariance == Spec => []IInv
  <1>1. IInv /\ [Next]_vars => IInv'
    <2> SUFFICES ASSUME IInv, [Next]_vars PROVE IInv'
      OBVIOUS
    <2>1. CASE Next
      BY <2>1, WriteStep, ClockStep, FinalStep, OtherStep DEF Next
    <2>2. CASE UNCHANGED vars
      BY <2>2 DEF vars, IInv, TypeOK, CopiesLag, CopiesExact, StatusGood
    <2> QED
      BY <2>1, <2>2
  <1> QED
    BY InitIInv, <1>1, PTL DEF Spec

(***************************************************************************)
(* A test only passes on a status that was signalled and that is good when *)
(* the test ends: no interleaving of writers, edges, errors and timeouts   *)
(* lets the verdict disagree with the flags.                               *)
(***************************************************************************)
THEOREM PassAlwaysEarned == Spec => []PassIsEarned
  <1>1. IInv => PassIsEarned
    BY DEF IInv, PassIsEarned, CopiesExact, StatusGood
  <1> QED
    BY <1>1, Invariance, PTL

(***************************************************************************)
(* The flags, the report counts and the places of the phases stay in range *)
(* whatever the program writes and whichever timer fires when.             *)
(***************************************************************************)
THEOREM TypeCorrect == Spec => []TypeOK
  <1>1. IInv => TypeOK
    BY DEF IInv
  <1> QED
    BY <1>1, Invariance, PTL
=============================================================================
