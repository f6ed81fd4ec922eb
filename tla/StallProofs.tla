----------------------------- MODULE StallProofs ----------------------------
(***************************************************************************)
(* Proofs about the two stallers.  GntStall: for both builds, every        *)
(* MAX_STALL and every set of register settings.  RvalidStall: for every   *)
(* depth, every limit of outstanding transfers up to the depth, every      *)
(* width of the data words and every delay.  The theorems are about the    *)
(* safety part of each specification, so that they hold for the port that  *)
(* MmRamPort puts together, too.                                           *)
(***************************************************************************)
EXTENDS GntStall, RvalidStall, SequenceTheorems, NaturalsInduction,
        WellFoundedInduction, TLAPS

-----------------------------------------------------------------------------
(* Words. *)

(* A set of numbers with 0 and with every successor has all of them. *)
LEMMA SetInduction ==
    ASSUME NEW P, P \subseteq Nat, 0 \in P, \A n \in P : n + 1 \in P
    PROVE  P = Nat
  <1> SUFFICES ASSUME P # Nat PROVE FALSE
    OBVIOUS
  <1> DEFINE R == {ss \in Nat \X Nat : ss[1] < ss[2]}
             T == Nat \ P
  <1>1. IsWellFoundedOn(R, Nat)
    BY NatLessThanWellFounded DEF OpToRel
  <1> HIDE DEF R
  <1>2. PICK x \in T : \A y \in T : ~(<<y, x>> \in R)
    <2>1. T \subseteq Nat /\ T # {}
      OBVIOUS
    <2> HIDE DEF T
    <2> QED
      BY <1>1, <2>1, WFMin
  <1>3. \A y \in T : ~(y < x)
    BY <1>2 DEF R
  <1>4. x # 0 /\ x - 1 \in Nat
    BY <1>2
  <1>5. x - 1 \in P
    BY <1>3, <1>4
  <1>6. (x - 1) + 1 \in P
    BY <1>5
  <1> QED
    BY <1>2, <1>6

(* The values of a loop over 1 .. N, from u: each round computes its value *)
(* from the last one and its index.                                        *)
Iterates(f, u, N, G) == f[0] = u /\ \A n \in 1 .. N : f[n] = G[<<f[n - 1], n>>]

(* Such a loop has a value after each round. *)
LEMMA LoopExists ==
    \A S, u, N, G :
        u \in S /\ N \in Nat /\ G \in [S \X (1 .. N) -> S]
        => \E f \in [0 .. N -> S] : Iterates(f, u, N, G)
  <1> SUFFICES ASSUME NEW S, NEW u \in S, NEW N \in Nat, NEW G \in [S \X (1 .. N) -> S]
               PROVE  \E f \in [0 .. N -> S] : Iterates(f, u, N, G)
    OBVIOUS
  <1> DEFINE Q(m) == \E f \in [0 .. m -> S] :
                        f[0] = u /\ \A n \in 1 .. m : f[n] = G[<<f[n - 1], n>>]
             P == {m \in Nat : m <= N => Q(m)}
  <1>1. 0 \in P
    <2> DEFINE z == [x \in 0 .. 0 |-> u]
    <2>1. z \in [0 .. 0 -> S] /\ z[0] = u /\ \A n \in 1 .. 0 : FALSE
      OBVIOUS
    <2> HIDE DEF z
    <2>2. Q(0)
      BY <2>1
    <2> QED
      BY <2>2
  <1>2. ASSUME NEW m \in P PROVE m + 1 \in P
    <2> SUFFICES ASSUME m + 1 <= N PROVE Q(m + 1)
      OBVIOUS
    <2>1. PICK f \in [0 .. m -> S] :
             f[0] = u /\ \A n \in 1 .. m : f[n] = G[<<f[n - 1], n>>]
      OBVIOUS
    <2>2. m \in Nat /\ m + 1 \in 1 .. N
      OBVIOUS
    <2> DEFINE g == [x \in 0 .. m + 1 |-> IF x = m + 1 THEN G[<<f[m], m + 1>>] ELSE f[x]]
    <2>3. G[<<f[m], m + 1>>] \in S
      BY <2>1, <2>2
    <2>4. g \in [0 .. m + 1 -> S]
      BY <2>1, <2>2, <2>3
    <2>5. g[m + 1] = G[<<f[m], m + 1>>] /\ \A x \in 0 .. m : g[x] = f[x]
      BY <2>2
    <2> HIDE DEF g
    <2>6. g[0] = u
      BY <2>1, <2>2, <2>5
    <2>7. ASSUME NEW n \in 1 .. m + 1 PROVE g[n] = G[<<g[n - 1], n>>]
      <3>1. CASE n = m + 1
        <4>1. n - 1 = m /\ m \in 0 .. m
          BY <2>2, <3>1
        <4> QED
          BY <2>5, <3>1, <4>1
      <3>2. CASE n # m + 1
        <4>1. n \in 1 .. m /\ n \in 0 .. m /\ n - 1 \in 0 .. m
          BY <2>2, <3>2
        <4> QED
          BY <2>1, <2>5, <4>1
      <3> QED
        BY <3>1, <3>2
    <2> QED
      BY <2>4, <2>6, <2>7
  <1>3. P = Nat
    <2>1. P \subseteq Nat
      OBVIOUS
    <2> HIDE DEF P
    <2> QED
      BY <1>1, <1>2, <2>1, SetInduction
  <1>4. N \in P => Q(N)
    OBVIOUS
  <1> QED
    BY <1>3, <1>4 DEF Iterates

(***************************************************************************)
(* The powers of two are those: their recursive definition has a solution. *)
(***************************************************************************)
LEMMA Powers ==
    /\ Pow2 \in [0 .. XLEN -> Nat \ {0}]
    /\ Pow2[0] = 1
    /\ \A n \in 1 .. XLEN : Pow2[n] = 2 * Pow2[n - 1]
  <1> DEFINE S == Nat \ {0}
             Loop(f) == [n \in 0 .. XLEN |-> IF n = 0 THEN 1 ELSE 2 * f[n - 1]]
             G == [x \in S \X (1 .. XLEN) |-> 2 * x[1]]
  <1>1. XLEN \in Nat
    BY XlenAssumption
  <1>2. G \in [S \X (1 .. XLEN) -> S]
    OBVIOUS
  <1>3. \A s \in S, n \in 1 .. XLEN : G[<<s, n>>] = 2 * s
    OBVIOUS
  <1> HIDE DEF G
  <1>4. PICK f \in [0 .. XLEN -> S] : f[0] = 1 /\ \A n \in 1 .. XLEN : f[n] = G[<<f[n - 1], n>>]
    <2>1. 1 \in S
      OBVIOUS
    <2> HIDE DEF S
    <2>2. \E f \in [0 .. XLEN -> S] : Iterates(f, 1, XLEN, G)
      BY <1>1, <1>2, <2>1, LoopExists, Zenon
    <2> QED
      BY <2>2 DEF Iterates
  <1>5. \A n \in 1 .. XLEN : f[n] = 2 * f[n - 1]
    <2> SUFFICES ASSUME NEW n \in 1 .. XLEN PROVE f[n] = 2 * f[n - 1]
      OBVIOUS
    <2>1. f[n - 1] \in S
      BY <1>1, <1>4
    <2> QED
      BY <1>3, <1>4, <2>1
  <1>6. f = Loop(f)
    BY <1>1, <1>4, <1>5
  <1>7. Pow2 = Loop(Pow2)
    <2>1. Pow2 = CHOOSE g : g = Loop(g)
      BY DEF Pow2
    <2> HIDE DEF Loop
    <2> QED
      BY <1>6, <2>1
  <1>8. /\ DOMAIN Pow2 = 0 .. XLEN /\ Pow2[0] = 1
        /\ \A n \in 1 .. XLEN : Pow2[n] = 2 * Pow2[n - 1]
    <2>1. DOMAIN Loop(Pow2) = 0 .. XLEN
      OBVIOUS
    <2>2. \A n \in 0 .. XLEN : Loop(Pow2)[n] = IF n = 0 THEN 1 ELSE 2 * Pow2[n - 1]
      OBVIOUS
    <2>3. 0 \in 0 .. XLEN /\ \A n \in 1 .. XLEN : n \in 0 .. XLEN /\ n # 0
      BY <1>1
    <2> HIDE DEF Loop
    <2> QED
      BY <1>7, <2>1, <2>2, <2>3
  <1> DEFINE P == {n \in Nat : n <= XLEN => Pow2[n] \in S}
  <1>9. 0 \in P
    BY <1>8
  <1>10. ASSUME NEW n \in P PROVE n + 1 \in P
    <2> SUFFICES ASSUME n + 1 <= XLEN PROVE Pow2[n + 1] \in S
      OBVIOUS
    <2>1. n \in Nat /\ n + 1 \in 1 .. XLEN /\ Pow2[n] \in S /\ (n + 1) - 1 = n
      BY <1>1
    <2> QED
      BY <1>8, <2>1
  <1>11. P = Nat
    <2>1. P \subseteq Nat
      OBVIOUS
    <2> HIDE DEF P
    <2> QED
      BY <1>9, <1>10, <2>1, SetInduction
  <1>12. \A n \in 0 .. XLEN : Pow2[n] \in S
    BY <1>1, <1>11
  <1>13. Pow2 = [n \in 0 .. XLEN |-> Pow2[n]]
    BY <1>7
  <1> QED
    BY <1>8, <1>12, <1>13

(* Zero is a word of every width. *)
LEMMA ZeroWord == 0 \in Word
  <1>1. XLEN \in 0 .. XLEN
    BY XlenAssumption
  <1>2. Pow2[XLEN] \in Nat \ {0}
    BY <1>1, Powers
  <1> QED
    BY <1>2 DEF Word

-----------------------------------------------------------------------------
(* The grant staller. *)

(***************************************************************************)
(* Whether the grant process has taken notice of the present request, so   *)
(* that the counter is counting for it.  A simulator with delays does so   *)
(* in the first cycle of a request, Verilator in the second.               *)
(***************************************************************************)
Counting == VERILATOR => req_core_i_q /\ ~grant_core_o_q

(***************************************************************************)
(* The strengthening that makes WaitBounded inductive: while a request is  *)
(* counted for and not granted the counter is positive, and it pays for    *)
(* the cycles still to wait; a request not counted for yet has not waited. *)
(***************************************************************************)
DelayInv ==
    /\ req_core_i /\ ~grant_core_o /\ Counting =>
          grant_delay_cnt >= 1 /\ waited + grant_delay_cnt <= MAX_STALL + Lateness
    /\ req_core_i /\ ~grant_core_o /\ ~Counting => waited = 0
    /\ req_core_i /\ Counting => grant_delay_cnt >= 0

GntInv == GntTypeOK /\ DelayInv /\ WaitBounded

-----------------------------------------------------------------------------

(***************************************************************************)
(* set_delay_value draws a natural number up to MAX_STALL from any setting *)
(* software may program.                                                   *)
(***************************************************************************)
LEMMA DelayBound ==
    ASSUME NEW k \in Knobs, NEW d \in set_delay_value(k)
    PROVE  d \in 0 .. MAX_STALL
  <1>1. /\ MAX_STALL \in Nat
        /\ k.gnt \in Nat /\ k.max \in Nat
        /\ k.gnt <= MAX_STALL /\ k.max <= MAX_STALL
    BY KnobsAssumption, MaxStallAssumption DEF KnobRegs
  <1>2. d = 0 \/ d = k.gnt \/ d \in 0 .. k.max
    BY DEF set_delay_value, Delays
  <1> QED
    BY <1>1, <1>2

(***************************************************************************)
(* The initial states satisfy the invariant.                               *)
(***************************************************************************)
LEMMA GntInitInv == GntInit => GntInv
  <1> SUFFICES ASSUME GntInit PROVE GntInv
    OBVIOUS
  <1>1. MAX_STALL \in Nat
    BY MaxStallAssumption
  <1>2. /\ grant_delay_cnt \in (0 - Lateness) .. MAX_STALL
        /\ waited \in Nat
        /\ waited <= MAX_STALL + Lateness
    BY <1>1 DEF GntInit, Lateness
  <1>3. GntTypeOK /\ WaitBounded
    BY <1>2, Zenon DEF GntInit, GntTypeOK, WaitBounded
  <1>4. DelayInv
    BY DEF GntInit, DelayInv
  <1> QED
    BY <1>3, <1>4 DEF GntInv

(***************************************************************************)
(* While WaitBounded holds the count of refused cycles is not capped.      *)
(***************************************************************************)
LEMMA WaitedCounts ==
    ASSUME GntInv, GntClock
    PROVE  waited' = IF req_core_i /\ ~core_gnt THEN waited + 1 ELSE 0
  <1>1. MAX_STALL \in Nat /\ Lateness \in Nat
    BY MaxStallAssumption DEF Lateness
  <1>2. waited \in Nat /\ waited <= MAX_STALL + Lateness
    BY Zenon DEF GntInv, GntTypeOK, WaitBounded
  <1>3. waited < WAIT_CAP
    BY <1>1, <1>2 DEF WAIT_CAP
  <1> QED
    BY <1>3, Zenon DEF GntClock, WaitedEdge

(***************************************************************************)
(* A clock edge preserves the invariant in a simulator with delays.        *)
(***************************************************************************)
LEMMA SimulatorStep ==
    ASSUME GntInv, GntClock, ~VERILATOR
    PROVE  GntInv'
  <1>0. Lateness = 0 /\ Counting /\ Counting'
    BY Zenon DEF Lateness, Counting
  <1>1. GrantProcess(req_core_i', req_core_i, grant_core_o, knobs')
    BY DEF GntClock, GntEdge
  <1>2. /\ knobs' \in Knobs /\ knobs \in Knobs
        /\ req_core_i' \in BOOLEAN /\ req_core_i \in BOOLEAN
        /\ grant_core_o \in BOOLEAN
        /\ req_core_i_q' = req_core_i
        /\ grant_core_o_q' = grant_core_o
        /\ MAX_STALL \in Nat
        /\ grant_delay_cnt \in 0 .. MAX_STALL
        /\ waited \in Nat
        /\ waited' = IF req_core_i /\ ~core_gnt THEN waited + 1 ELSE 0
        /\ grant_core_o => core_gnt
    <2>1. MAX_STALL \in Nat
      BY MaxStallAssumption
    <2>2. GntTypeOK
      BY DEF GntInv
    <2>3. req_core_i' \in BOOLEAN
      BY Zenon DEF GntClock, RequesterEdge
    <2>4. grant_core_o => core_gnt
      BY Zenon DEF core_gnt
    <2>5. waited' = IF req_core_i /\ ~core_gnt THEN waited + 1 ELSE 0
      BY WaitedCounts
    <2>6. knobs' \in Knobs /\ req_core_i_q' = req_core_i /\ grant_core_o_q' = grant_core_o
      BY DEF GntClock, GntEdge
    <2> QED
      BY <1>0, <2>1, <2>2, <2>3, <2>4, <2>5, <2>6 DEF GntTypeOK
  <1>3. /\ req_core_i /\ ~grant_core_o =>
             grant_delay_cnt >= 1 /\ waited + grant_delay_cnt <= MAX_STALL
        /\ waited <= MAX_STALL
    BY <1>0, <1>2 DEF GntInv, DelayInv, WaitBounded
  <1>4. waited' \in Nat /\ waited' <= MAX_STALL
    BY <1>2, <1>3
  <1>5. /\ grant_core_o' \in BOOLEAN
        /\ grant_delay_cnt' \in 0 .. MAX_STALL
        /\ req_core_i' /\ ~grant_core_o' =>
             grant_delay_cnt' >= 1 /\ waited' + grant_delay_cnt' <= MAX_STALL
    <2>1. CASE NoRequest(req_core_i')
      BY <2>1, <1>2 DEF NoRequest
    <2>2. CASE NewRequest(req_core_i', req_core_i, grant_core_o, knobs')
      <3>1. PICK d \in set_delay_value(knobs') :
              grant_delay_cnt' = d /\ grant_core_o' = (d = 0)
        BY <2>2 DEF NewRequest
      <3>2. d \in 0 .. MAX_STALL
        BY <1>2, DelayBound
      <3>3. waited' = 0
        BY <2>2, <1>2 DEF NewRequest
      <3> QED
        BY <3>1, <3>2, <3>3, <1>2
    <2>3. CASE HeldRequest(req_core_i', req_core_i, grant_core_o)
      <3>1. grant_delay_cnt >= 1 /\ waited + grant_delay_cnt <= MAX_STALL
        BY <2>3, <1>3 DEF HeldRequest
      <3>2. CASE grant_delay_cnt = 1
        BY <3>2, <2>3, <1>2 DEF HeldRequest
      <3>3. CASE grant_delay_cnt # 1
        <4>1. grant_delay_cnt' = grant_delay_cnt - 1 /\ grant_core_o' = grant_core_o
          BY <3>3, <2>3 DEF HeldRequest
        <4>2. waited' <= waited + 1
          BY <1>2
        <4> QED
          BY <4>1, <4>2, <3>1, <3>3, <1>2, <1>4
      <3> QED
        BY <3>2, <3>3
    <2> QED
      BY <1>1, <2>1, <2>2, <2>3 DEF GrantProcess
  <1>6. GntTypeOK'
    <2>1. (grant_delay_cnt \in (0 - Lateness) .. MAX_STALL)'
      BY <1>0, <1>5
    <2> QED
      BY <1>2, <1>4, <1>5, <2>1 DEF GntTypeOK
  <1>7. DelayInv' /\ WaitBounded'
    <2>1. waited' \in Nat /\ grant_delay_cnt' \in Int /\ MAX_STALL + Lateness = MAX_STALL
      BY <1>0, <1>2, <1>4, <1>5
    <2>2. (waited + grant_delay_cnt <= MAX_STALL)' <=>
            (waited + grant_delay_cnt <= MAX_STALL + Lateness)'
      BY <2>1
    <2> QED
      BY <1>0, <1>4, <1>5, <2>1, <2>2 DEF DelayInv, WaitBounded
  <1> QED
    BY <1>6, <1>7 DEF GntInv

(***************************************************************************)
(* A clock edge preserves the invariant in the Verilator build.            *)
(***************************************************************************)
LEMMA VerilatorStep ==
    ASSUME GntInv, GntClock, VERILATOR
    PROVE  GntInv'
  <1>0. /\ Lateness = 1
        /\ Counting <=> req_core_i_q /\ ~grant_core_o_q
        /\ Counting' <=> req_core_i_q' /\ ~grant_core_o_q'
    BY Zenon DEF Lateness, Counting
  <1>1. GrantProcess(req_core_i, req_core_i_q, grant_core_o_q, knobs)
    BY DEF GntClock, GntEdge
  <1>2. /\ knobs' \in Knobs /\ knobs \in Knobs
        /\ req_core_i' \in BOOLEAN /\ req_core_i \in BOOLEAN
        /\ req_core_i_q \in BOOLEAN
        /\ grant_core_o \in BOOLEAN /\ grant_core_o_q \in BOOLEAN
        /\ req_core_i_q' = req_core_i
        /\ grant_core_o_q' = grant_core_o
        /\ MAX_STALL \in Nat
        /\ grant_delay_cnt \in -1 .. MAX_STALL
        /\ waited \in Nat
        /\ waited' = IF req_core_i /\ ~core_gnt THEN waited + 1 ELSE 0
        /\ grant_core_o => core_gnt
    <2>1. MAX_STALL \in Nat
      BY MaxStallAssumption
    <2>2. GntTypeOK
      BY DEF GntInv
    <2>3. req_core_i' \in BOOLEAN
      BY Zenon DEF GntClock, RequesterEdge
    <2>4. grant_core_o => core_gnt
      BY Zenon DEF core_gnt
    <2>5. waited' = IF req_core_i /\ ~core_gnt THEN waited + 1 ELSE 0
      BY WaitedCounts
    <2>6. knobs' \in Knobs /\ req_core_i_q' = req_core_i /\ grant_core_o_q' = grant_core_o
      BY DEF GntClock, GntEdge
    <2> QED
      BY <1>0, <2>1, <2>2, <2>3, <2>4, <2>5, <2>6 DEF GntTypeOK
  <1>3. /\ req_core_i /\ ~grant_core_o /\ req_core_i_q /\ ~grant_core_o_q =>
             grant_delay_cnt >= 1 /\ waited + grant_delay_cnt <= MAX_STALL + 1
        /\ req_core_i /\ ~grant_core_o /\ ~(req_core_i_q /\ ~grant_core_o_q) =>
             waited = 0
        /\ req_core_i /\ req_core_i_q /\ ~grant_core_o_q => grant_delay_cnt >= 0
        /\ waited <= MAX_STALL + 1
    BY <1>0, <1>2 DEF GntInv, DelayInv, WaitBounded
  <1>4. waited' \in Nat /\ waited' <= MAX_STALL + 1
    BY <1>2, <1>3
  <1>5. /\ grant_core_o' \in BOOLEAN
        /\ grant_delay_cnt' \in -1 .. MAX_STALL
        /\ req_core_i /\ ~grant_core_o => grant_delay_cnt' >= 0
        /\ req_core_i /\ ~grant_core_o /\ ~grant_core_o' =>
             grant_delay_cnt' >= 1 /\ waited' + grant_delay_cnt' <= MAX_STALL + 1
    <2>1. CASE NoRequest(req_core_i)
      BY <2>1, <1>2 DEF NoRequest
    <2>2. CASE NewRequest(req_core_i, req_core_i_q, grant_core_o_q, knobs)
      <3>1. PICK d \in set_delay_value(knobs) :
              grant_delay_cnt' = d /\ grant_core_o' = (d = 0)
        BY <2>2 DEF NewRequest
      <3>2. d \in 0 .. MAX_STALL
        BY <1>2, DelayBound
      <3>3. req_core_i /\ ~grant_core_o => waited' <= 1
        BY <2>2, <1>2, <1>3 DEF NewRequest
      <3> QED
        BY <3>1, <3>2, <3>3, <1>2, <1>4
    <2>3. CASE HeldRequest(req_core_i, req_core_i_q, grant_core_o_q)
      <3>1. req_core_i /\ req_core_i_q /\ ~grant_core_o_q
        BY <2>3 DEF HeldRequest
      <3>2. CASE grant_delay_cnt = 1
        BY <3>2, <2>3, <1>2 DEF HeldRequest
      <3>3. CASE grant_delay_cnt # 1
        <4>1. grant_delay_cnt' = grant_delay_cnt - 1 /\ grant_core_o' = grant_core_o
          BY <3>3, <2>3 DEF HeldRequest
        <4>2. waited' <= waited + 1
          BY <1>2
        <4> QED
          BY <4>1, <4>2, <3>1, <3>3, <1>2, <1>3, <1>4
      <3> QED
        BY <3>2, <3>3
    <2> QED
      BY <1>1, <2>1, <2>2, <2>3 DEF GrantProcess
  <1>6. req_core_i' /\ ~(req_core_i /\ ~grant_core_o) => waited' = 0
    BY <1>2
  <1>7. GntTypeOK'
    <2>1. (grant_delay_cnt \in (0 - Lateness) .. MAX_STALL)'
      BY <1>0, <1>5
    <2> QED
      BY <1>2, <1>4, <1>5, <2>1 DEF GntTypeOK
  <1>8. DelayInv' /\ WaitBounded'
    BY <1>0, <1>2, <1>4, <1>5, <1>6 DEF DelayInv, WaitBounded
  <1> QED
    BY <1>7, <1>8 DEF GntInv

(***************************************************************************)
(* GntInv is an invariant of the grant staller in both builds.               *)
(***************************************************************************)
THEOREM GntInvariance == GntSafety => []GntInv
  <1>1. GntInv /\ [GntClock]_gntVars => GntInv'
    <2> SUFFICES ASSUME GntInv, [GntClock]_gntVars PROVE GntInv'
      OBVIOUS
    <2>1. CASE GntClock
      BY <2>1, SimulatorStep, VerilatorStep, BuildAssumption
    <2>2. CASE UNCHANGED gntVars
      BY <2>2 DEF gntVars, GntInv, GntTypeOK, DelayInv, WaitBounded, Counting
    <2> QED
      BY <2>1, <2>2
  <1> QED
    BY GntInitInv, <1>1, PTL DEF GntSafety

(***************************************************************************)
(* The grant staller's registers keep their types: in particular the delay *)
(* counter never runs away below zero.                                     *)
(***************************************************************************)
THEOREM GntTypeCorrect == GntSafety => []GntTypeOK
  BY GntInvariance, PTL DEF GntInv

(***************************************************************************)
(* No request is refused longer than the longest programmed delay, plus    *)
(* the one cycle that Verilator needs to see it: the grant staller cannot  *)
(* starve a channel.                                                       *)
(***************************************************************************)
THEOREM NoStarvation == GntSafety => []WaitBounded
  BY GntInvariance, PTL DEF GntInv

-----------------------------------------------------------------------------
(* The response staller. *)

(* RvalidTypeOK and CountsAgree are inductive together. *)
RvalidInv == RvalidTypeOK /\ CountsAgree

-----------------------------------------------------------------------------

(***************************************************************************)
(* A drawn delay fits its field of the slot.                               *)
(***************************************************************************)
LEMMA DelayFits ==
    ASSUME NEW k \in Knobs, NEW d \in get_random_delay(k)
    PROVE  d \in 0 .. DELAY_RANGE - 1
  <1>1. DELAY_RANGE \in Nat \ {0} /\ k.valid \in Nat /\ k.max \in Nat
    BY FifoAssumption, KnobsAssumption DEF KnobRegs
  <1>2. PICK x \in Delays(k, k.valid) : d = x % DELAY_RANGE
    BY DEF get_random_delay
  <1>3. x \in Nat
    BY <1>1, <1>2 DEF Delays
  <1> QED
    BY <1>1, <1>2, <1>3

(***************************************************************************)
(* Pointer arithmetic: an increment stays in range, a pointer names a      *)
(* slot, and the pointers that differ by less than the depth name          *)
(* different slots.                                                        *)
(***************************************************************************)
LEMMA Pointers ==
    ASSUME NEW p \in Ptrs
    PROVE  /\ PtrAdd(p, 1) \in Ptrs
           /\ Slot(p) \in Slots
           /\ \A n \in 0 .. FIFO_DEPTH : PtrAdd(p, n) \in Ptrs
           /\ \A m, n \in 0 .. FIFO_DEPTH - 1 :
                 Slot(PtrAdd(p, m)) = Slot(PtrAdd(p, n)) => m = n
  BY FifoAssumption DEF Ptrs, Slots, PtrAdd, Slot

(* The buffer is empty out of reset. *)
LEMMA RvalidInitInv == RvalidInit => RvalidInv
  <1> SUFFICES ASSUME RvalidInit PROVE RvalidInv
    OBVIOUS
  <1>1. /\ FIFO_DEPTH \in Nat \ {0} /\ MAX_OUTSTANDING \in Nat
        /\ DELAY_RANGE \in Nat \ {0} /\ 0 \in Word
    BY FifoAssumption, ZeroWord
  <1>2. fifo \in [Slots -> Entry]
    BY <1>1 DEF RvalidInit, FifoInit, Entry
  <1>3. 0 \in Ptrs /\ 0 \in 0 .. MAX_OUTSTANDING
    BY <1>1 DEF Ptrs
  <1>4. RvalidTypeOK
    BY <1>2, <1>3 DEF RvalidInit, FifoInit, RvalidTypeOK
  <1>5. CountsAgree
    BY DEF RvalidInit, FifoInit, CountsAgree, Occupancy
  <1> QED
    BY <1>4, <1>5 DEF RvalidInv

(***************************************************************************)
(* The slots stay well typed through the three updates of an edge.         *)
(***************************************************************************)
LEMMA FifoType ==
    ASSUME RvalidTypeOK, NEW push \in BOOLEAN, NEW we \in BOOLEAN, NEW exokay \in BOOLEAN,
           NEW d \in 0 .. DELAY_RANGE - 1
    PROVE  CountedDown(Captured(Pushed(push, we, exokay, d))) \in [Slots -> Entry]
  <1>1. /\ FIFO_DEPTH \in Nat \ {0} /\ DELAY_RANGE \in Nat \ {0} /\ 0 \in Word
        /\ wptr \in Ptrs /\ rptr \in Ptrs /\ wptr_rdata \in Slots
        /\ fifo \in [Slots -> Entry] /\ rdata_i \in Word
    BY FifoAssumption, ZeroWord DEF RvalidTypeOK
  <1>2. Slot(wptr) \in Slots /\ Slot(rptr) \in Slots
    BY <1>1, Pointers
  <1> DEFINE f1 == Pushed(push, we, exokay, d)
             f2 == Captured(f1)
  <1>3. f1 \in [Slots -> Entry]
    BY <1>1, <1>2 DEF Pushed, Entry
  <1> HIDE DEF f1
  <1>4. f2 \in [Slots -> Entry]
    BY <1>1, <1>3 DEF Captured, Entry
  <1> HIDE DEF f2
  <1>5. current_delay \in 0 .. DELAY_RANGE - 1
    BY <1>1, <1>2 DEF current_delay, Entry
  <1>6. CountedDown(f2) \in [Slots -> Entry]
    BY <1>1, <1>2, <1>4, <1>5 DEF CountedDown, Entry
  <1> QED
    BY <1>6 DEF f2, f1

(***************************************************************************)
(* An edge with given inputs preserves the invariant.                      *)
(***************************************************************************)
LEMMA EdgePreserves ==
    ASSUME RvalidInv, rdata_i' \in Word,
           NEW push \in BOOLEAN, NEW we \in BOOLEAN, NEW exokay \in BOOLEAN,
           NEW d \in 0 .. DELAY_RANGE - 1,
           push => MayIssue, FifoEdge(push, we, exokay, d), CoreCountEdge(push)
    PROVE  RvalidInv'
  <1>1. /\ FIFO_DEPTH \in Nat \ {0} /\ MAX_OUTSTANDING \in 1 .. FIFO_DEPTH
        /\ wptr \in Ptrs /\ rptr \in Ptrs /\ wptr_rdata \in Slots
        /\ outstanding \in 0 .. MAX_OUTSTANDING
        /\ Occupancy = outstanding
    BY FifoAssumption DEF RvalidInv, RvalidTypeOK, CountsAgree
  <1>2. fifo' \in [Slots -> Entry]
    BY FifoType DEF FifoEdge, RvalidInv
  <1>3. wptr' \in Ptrs /\ rptr' \in Ptrs /\ wptr_rdata' \in Slots
    BY <1>1, Pointers DEF FifoEdge
  <1>4. rvalid_i_q' \in BOOLEAN
    BY DEF FifoEdge
  <1>5. rvalid_o => wptr # rptr
    BY DEF rvalid_o, fifo_empty
  <1>6. /\ outstanding' \in 0 .. MAX_OUTSTANDING
        /\ Occupancy' = outstanding'
    <2>1. /\ wptr' = IF push THEN PtrAdd(wptr, 1) ELSE wptr
          /\ rptr' = IF rvalid_o THEN PtrAdd(rptr, 1) ELSE rptr
          /\ outstanding' = outstanding + (IF push THEN 1 ELSE 0)
                                        - (IF rvalid_o THEN 1 ELSE 0)
          /\ push => outstanding < MAX_OUTSTANDING
      BY DEF FifoEdge, CoreCountEdge, MayIssue
    <2> QED
      BY <1>1, <1>5, <2>1 DEF Ptrs, PtrAdd, Occupancy
  <1>7. RvalidTypeOK'
    BY <1>2, <1>3, <1>4, <1>6 DEF RvalidTypeOK
  <1> QED
    BY <1>6, <1>7 DEF RvalidInv, CountsAgree

(***************************************************************************)
(* What a clock edge does, as facts for the proofs below.                  *)
(***************************************************************************)
LEMMA ClockEdge ==
    ASSUME RvalidClock
    PROVE  \E push, we, exokay \in BOOLEAN, d \in 0 .. DELAY_RANGE - 1 :
              /\ push => MayIssue
              /\ FifoEdge(push, we, exokay, d)
              /\ CoreCountEdge(push)
              /\ rdata_i' \in Word
  <1>1. PICK push \in BOOLEAN, we \in BOOLEAN, exokay \in BOOLEAN, k \in Knobs :
           /\ push => MayIssue
           /\ \E d \in get_random_delay(k) : FifoEdge(push, we, exokay, d)
           /\ CoreCountEdge(push)
    BY DEF RvalidClock
  <1>2. PICK d \in get_random_delay(k) : FifoEdge(push, we, exokay, d)
    BY <1>1
  <1>3. d \in 0 .. DELAY_RANGE - 1
    BY DelayFits
  <1> QED
    BY <1>1, <1>2, <1>3 DEF RvalidClock

(***************************************************************************)
(* RvalidInv is an invariant of the response staller.                           *)
(***************************************************************************)
THEOREM RvalidInvariance == RvalidSafety => []RvalidInv
  <1>1. RvalidInv /\ [RvalidClock]_rvalidVars => RvalidInv'
    <2> SUFFICES ASSUME RvalidInv, [RvalidClock]_rvalidVars PROVE RvalidInv'
      OBVIOUS
    <2>1. CASE RvalidClock
      BY <2>1, ClockEdge, EdgePreserves
    <2>2. CASE UNCHANGED rvalidVars
      BY <2>2 DEF rvalidVars, RvalidInv, RvalidTypeOK, CountsAgree, Occupancy
    <2> QED
      BY <2>1, <2>2
  <1> QED
    BY RvalidInitInv, <1>1, PTL DEF RvalidSafety

(***************************************************************************)
(* The registers and slots of the response staller keep their types: the   *)
(* pointers stay in range and no delay counter is decremented below zero.  *)
(***************************************************************************)
THEOREM RvalidTypeCorrect == RvalidSafety => []RvalidTypeOK
  BY RvalidInvariance, PTL DEF RvalidInv

(***************************************************************************)
(* The buffer holds exactly the transfers the core has outstanding; since  *)
(* these are at most as many as it has slots, it never overflows although  *)
(* nothing in it reacts to fifo_full.                                      *)
(***************************************************************************)
THEOREM NeverOverflows == RvalidSafety => []CountsAgree
  BY RvalidInvariance, PTL DEF RvalidInv

-----------------------------------------------------------------------------

(***************************************************************************)
(* What an edge does to the entries: the pushed one holds the transfer,    *)
(* and of every other slot the response it stands for, with the read data  *)
(* either stored or still on the bus, is the same after the edge as before.*)
(***************************************************************************)
LEMMA EntryKept ==
    ASSUME RvalidInv, NEW push \in BOOLEAN, NEW we \in BOOLEAN, NEW exokay \in BOOLEAN,
           NEW d \in 0 .. DELAY_RANGE - 1, FifoEdge(push, we, exokay, d),
           NEW s \in Slots, push => s # Slot(wptr)
    PROVE  ResponseAt(s)' = ResponseAt(s)
  <1>1. /\ fifo \in [Slots -> Entry] /\ wptr_rdata \in Slots /\ rvalid_i_q \in BOOLEAN
        /\ Slot(wptr) \in Slots /\ Slot(rptr) \in Slots
    BY Pointers DEF RvalidInv, RvalidTypeOK
  <1> DEFINE f1 == Pushed(push, we, exokay, d)
             f2 == Captured(f1)
             f3 == CountedDown(f2)
  <1>2. f1 \in [Slots -> Entry] /\ f1[s] = fifo[s]
    <2>1. 0 \in Word
      BY ZeroWord
    <2> QED
      BY <1>1, <2>1 DEF Pushed, Entry
  <1>3. DOMAIN f1 = Slots
    BY <1>2
  <1> HIDE DEF f1
  <1>4. /\ f2 \in [Slots -> Entry]
        /\ f2[s].exokay = fifo[s].exokay
        /\ f2[s].data = DataAt(s)
    <2>1. rdata_i \in Word /\ 0 \in Word
      BY FifoAssumption, ZeroWord DEF RvalidInv, RvalidTypeOK
    <2> QED
      BY <1>1, <1>2, <2>1 DEF Captured, DataAt, Entry
  <1> HIDE DEF f2
  <1>5. /\ f3[s].exokay = fifo[s].exokay
        /\ f3[s].data = DataAt(s)
    BY <1>1, <1>4 DEF CountedDown, Entry
  <1>6. fifo' = f3
    BY DEF FifoEdge, f2, f1
  <1>7. ~(s = wptr_rdata' /\ rvalid_i_q')
    BY <1>1 DEF FifoEdge
  <1>8. DataAt(s)' = DataAt(s)
    BY <1>5, <1>6, <1>7 DEF DataAt
  <1> QED
    BY <1>5, <1>6, <1>8 DEF ResponseAt

(***************************************************************************)
(* The pushed slot stands for the response of the accepted transfer: zero  *)
(* for a write, and for a read the data that the RAM shows in the next     *)
(* cycle.                                                                  *)
(***************************************************************************)
LEMMA EntryPushed ==
    ASSUME RvalidInv, NEW we \in BOOLEAN, NEW exokay \in BOOLEAN,
           NEW d \in 0 .. DELAY_RANGE - 1, FifoEdge(TRUE, we, exokay, d),
           NEW s \in Slots, s = Slot(wptr)
    PROVE  ResponseAt(s)'
              = [rdata |-> IF we THEN 0 ELSE rdata_i', exokay |-> exokay]
  <1>1. /\ fifo \in [Slots -> Entry] /\ wptr_rdata \in Slots /\ rvalid_i_q \in BOOLEAN
        /\ Slot(rptr) \in Slots /\ 0 \in Word /\ rdata_i \in Word
    BY Pointers, FifoAssumption, ZeroWord DEF RvalidInv, RvalidTypeOK
  <1> DEFINE f1 == Pushed(TRUE, we, exokay, d)
             f2 == Captured(f1)
             f3 == CountedDown(f2)
  <1>2. /\ f1 \in [Slots -> Entry]
        /\ f1[s].we = we /\ f1[s].data = 0 /\ f1[s].exokay = exokay
    BY <1>1 DEF Pushed, Entry
  <1> HIDE DEF f1
  <1>3. /\ f2 \in [Slots -> Entry]
        /\ f2[s].we = we /\ f2[s].exokay = exokay
        /\ we => f2[s].data = 0
    BY <1>1, <1>2 DEF Captured, Entry
  <1> HIDE DEF f2
  <1>4. /\ f3[s].we = we /\ f3[s].exokay = exokay
        /\ we => f3[s].data = 0
    BY <1>1, <1>3 DEF CountedDown, Entry
  <1>5. /\ fifo' = f3 /\ wptr_rdata' = s /\ rvalid_i_q' = ~we
    BY DEF FifoEdge, f2, f1
  <1>6. DataAt(s)' = IF we THEN 0 ELSE rdata_i'
    BY <1>4, <1>5 DEF DataAt
  <1> QED
    BY <1>4, <1>5, <1>6 DEF ResponseAt

(***************************************************************************)
(* A function on 1 .. n is a sequence of length n.                         *)
(***************************************************************************)
LEMMA SeqOfFunction ==
    ASSUME NEW S, NEW n \in Nat, NEW f \in [1 .. n -> S]
    PROVE  f \in Seq(S) /\ Len(f) = n
  <1>1. f \in Seq(S)
    BY SeqDef
  <1>2. DOMAIN f = 1 .. Len(f) /\ Len(f) \in Nat
    BY <1>1, LenProperties
  <1> QED
    BY <1>1, <1>2

(***************************************************************************)
(* The i-th owed response sits i - 1 slots after the read pointer, and     *)
(* what the buffer owes is a sequence of responses.                        *)
(***************************************************************************)
OwedIsSequence ==
    /\ Occupancy \in 0 .. FIFO_DEPTH
    /\ \A i \in 1 .. Occupancy : Slot(PtrAdd(rptr, i - 1)) \in Slots
    /\ Owed \in Seq([rdata : Word, exokay : BOOLEAN])
    /\ Len(Owed) = Occupancy

(* OwedIsSequence follows from the invariant. *)
LEMMA OwedType == RvalidInv => OwedIsSequence
  <1> SUFFICES ASSUME RvalidInv PROVE OwedIsSequence
    OBVIOUS
  <1>1. Occupancy \in 0 .. FIFO_DEPTH /\ FIFO_DEPTH \in Nat
    BY FifoAssumption DEF RvalidInv, RvalidTypeOK, CountsAgree
  <1>2. ASSUME NEW i \in 1 .. Occupancy PROVE Slot(PtrAdd(rptr, i - 1)) \in Slots
    <2>1. rptr \in Ptrs /\ i - 1 \in 0 .. FIFO_DEPTH
      BY <1>1 DEF RvalidInv, RvalidTypeOK
    <2> QED
      BY <2>1, Pointers
  <1>3. ASSUME NEW s \in Slots
        PROVE  ResponseAt(s) \in [rdata : Word, exokay : BOOLEAN]
    <2>1. fifo[s] \in Entry /\ rdata_i \in Word /\ 0 \in Word
      BY FifoAssumption, ZeroWord DEF RvalidInv, RvalidTypeOK
    <2> QED
      BY <2>1 DEF ResponseAt, DataAt, Entry
  <1>4. Owed \in [1 .. Occupancy -> [rdata : Word, exokay : BOOLEAN]]
    BY <1>2, <1>3 DEF Owed
  <1>5. Owed \in Seq([rdata : Word, exokay : BOOLEAN]) /\ Len(Owed) = Occupancy
    <2>1. Occupancy \in Nat
      BY <1>1
    <2> QED
      BY <2>1, <1>4, SeqOfFunction
  <1> QED
    BY <1>1, <1>2, <1>5 DEF OwedIsSequence

(***************************************************************************)
(* The entry at a distance from the read pointer below the occupancy is    *)
(* not the one the write pointer names, which is at a distance equal to    *)
(* the occupancy.                                                          *)
(***************************************************************************)
LEMMA WriteSlot ==
    ASSUME RvalidInv
    PROVE  /\ wptr = PtrAdd(rptr, Occupancy)
           /\ MayIssue => \A n \in 0 .. Occupancy - 1 : Slot(PtrAdd(rptr, n)) # Slot(wptr)
  <1>1. /\ FIFO_DEPTH \in Nat \ {0} /\ wptr \in Ptrs /\ rptr \in Ptrs
        /\ Occupancy = outstanding /\ outstanding \in 0 .. MAX_OUTSTANDING
        /\ MAX_OUTSTANDING \in 1 .. FIFO_DEPTH
    BY FifoAssumption DEF RvalidInv, RvalidTypeOK, CountsAgree
  <1>2. wptr = PtrAdd(rptr, Occupancy)
    BY <1>1 DEF Ptrs, PtrAdd, Occupancy
  <1>3. ASSUME MayIssue, NEW n \in 0 .. Occupancy - 1
        PROVE  Slot(PtrAdd(rptr, n)) # Slot(wptr)
    <2>1. Occupancy \in 0 .. FIFO_DEPTH - 1 /\ n \in 0 .. FIFO_DEPTH - 1 /\ n # Occupancy
      BY <1>1, <1>3 DEF MayIssue
    <2> QED
      BY <1>1, <1>2, <2>1, Pointers
  <1> QED
    BY <1>2, <1>3

(***************************************************************************)
(* The responses that remain owed when the cycle ends, with the response   *)
(* on the bus taken: the entry at distance i from the new read pointer is  *)
(* the entry that was there before, for all but the newly pushed one.      *)
(***************************************************************************)
LEMMA OwedAfterEdge ==
    ASSUME RvalidInv, RvalidInv', rdata_i' \in Word,
           NEW push \in BOOLEAN, NEW we \in BOOLEAN, NEW exokay \in BOOLEAN,
           NEW d \in 0 .. DELAY_RANGE - 1,
           push => MayIssue, FifoEdge(push, we, exokay, d), CoreCountEdge(push)
    PROVE  Owed' = Channel!Unanswered \o
              (IF push THEN <<[rdata |-> IF we THEN 0 ELSE rdata_i', exokay |-> exokay]>>
                       ELSE << >>)
  <1> DEFINE R == [rdata : Word, exokay : BOOLEAN]
             pop == IF rvalid_o THEN 1 ELSE 0
             new == [rdata |-> IF we THEN 0 ELSE rdata_i', exokay |-> exokay]
             acc == IF push THEN <<new>> ELSE << >>
             kept == Channel!Unanswered
  <1>0. OwedIsSequence'
    BY OwedType, PTL
  <1>1. /\ FIFO_DEPTH \in Nat \ {0} /\ Occupancy \in 0 .. FIFO_DEPTH
        /\ rptr \in Ptrs /\ wptr \in Ptrs
        /\ rvalid_o => Occupancy > 0
    <2>1. rptr \in Ptrs /\ wptr \in Ptrs /\ FIFO_DEPTH \in Nat \ {0}
      BY FifoAssumption DEF RvalidInv, RvalidTypeOK
    <2>2. rvalid_o => Occupancy > 0
      BY <2>1 DEF rvalid_o, fifo_empty, Occupancy, Ptrs
    <2> QED
      BY <2>1, <2>2, OwedType DEF OwedIsSequence
  <1>2. new \in R
    <2>1. 0 \in Word
      BY ZeroWord
    <2> QED
      BY <2>1
  <1> HIDE DEF new
  <1>3. /\ Occupancy' = Occupancy - pop + Len(acc)
        /\ Occupancy' \in Nat /\ pop \in 0 .. 1 /\ pop <= Occupancy
        /\ Len(acc) = IF push THEN 1 ELSE 0
    <2>1. Occupancy = outstanding /\ Occupancy' = outstanding'
      BY DEF RvalidInv, CountsAgree
    <2>2. Len(acc) = IF push THEN 1 ELSE 0
      OBVIOUS
    <2>3. outstanding' = outstanding + (IF push THEN 1 ELSE 0) - pop
      BY DEF CoreCountEdge
    <2>4. outstanding' \in Nat
      BY FifoAssumption DEF RvalidInv, RvalidTypeOK
    <2> HIDE DEF acc
    <2> QED
      BY <1>1, <2>1, <2>2, <2>3, <2>4
  <1>4. /\ kept \in Seq(R) /\ Len(kept) = Occupancy - pop
        /\ \A i \in 1 .. Occupancy - pop : kept[i] = Owed[i + pop]
    <2>1. Owed \in Seq(R) /\ Len(Owed) = Occupancy
      BY OwedType DEF OwedIsSequence
    <2>2. CASE rvalid_o
      <3>1. Owed # << >>
        BY <1>1, <2>1, <2>2
      <3>2. kept = Tail(Owed)
        BY <2>2 DEF Channel!Unanswered
      <3> QED
        BY <1>1, <2>1, <2>2, <3>1, <3>2, HeadTailProperties
    <2>3. CASE ~rvalid_o
      <3>1. kept = Owed
        BY <2>3 DEF Channel!Unanswered
      <3> QED
        BY <1>1, <2>1, <2>3, <3>1
    <2> QED
      BY <2>2, <2>3
  <1>5. acc \in Seq(R) /\ (push => acc[1] = new)
    <2>1. <<new>> \in Seq(R) /\ <<new>>[1] = new /\ << >> \in Seq(R)
      BY <1>2
    <2> QED
      BY <2>1
  <1> HIDE DEF acc, kept
  <1>6. ASSUME NEW i \in 1 .. Occupancy'
        PROVE  PtrAdd(rptr', i - 1) = PtrAdd(rptr, i - 1 + pop)
    <2>1. i \in Int /\ 1 <= i /\ i <= FIFO_DEPTH
      BY <1>3, FifoAssumption DEF RvalidInv, RvalidTypeOK, CountsAgree
    <2>2. rptr' = IF rvalid_o THEN PtrAdd(rptr, 1) ELSE rptr
      BY DEF FifoEdge
    <2> QED
      BY <1>1, <2>1, <2>2 DEF Ptrs, PtrAdd
  <1>7. ASSUME NEW i \in 1 .. Occupancy'
        PROVE  Owed'[i] = (kept \o acc)[i]
    <2> DEFINE n == i - 1 + pop
               s == Slot(PtrAdd(rptr, n))
    <2>1. n \in 0 .. Occupancy - 1 + Len(acc)
      BY <1>1, <1>3
    <2>2. s \in Slots
      <3>1. Slot(PtrAdd(rptr', i - 1)) \in Slots
        BY <1>0 DEF OwedIsSequence
      <3> QED
        BY <1>6, <3>1
    <2>3. PICK t \in Slots : t = s
      BY <2>2
    <2>4. Owed'[i] = ResponseAt(t)'
      BY <1>6, <2>3 DEF Owed
    <2>5. CASE n < Occupancy
      <3>1. n + 1 \in 1 .. Occupancy /\ i \in 1 .. Occupancy - pop
        BY <1>1, <1>3, <2>1, <2>5
      <3>2. push => t # Slot(wptr)
        BY <2>1, <2>3, <2>5, <1>1, WriteSlot
      <3>3. ResponseAt(t)' = ResponseAt(t)
        BY <3>2, EntryKept
      <3>4. Owed[n + 1] = ResponseAt(t)
        BY <1>1, <2>1, <2>3, <3>1 DEF Owed
      <3>5. (kept \o acc)[i] = kept[i]
        BY <1>1, <1>3, <1>4, <1>5, <3>1, ConcatProperties
      <3> QED
        BY <1>4, <2>4, <3>1, <3>3, <3>4, <3>5
    <2>6. CASE n >= Occupancy
      <3>1. push /\ n = Occupancy /\ i = Len(kept) + 1
        BY <1>1, <1>3, <1>4, <2>1, <2>6
      <3>2. t = Slot(wptr)
        BY <2>3, <3>1, WriteSlot
      <3>3. ResponseAt(t)' = new
        <4>1. FifoEdge(TRUE, we, exokay, d)
          BY <3>1
        <4> QED
          BY <3>2, <4>1, EntryPushed DEF new
      <3>4. (kept \o acc)[i] = acc[1]
        BY <1>1, <1>3, <1>4, <1>5, <3>1, ConcatProperties
      <3> QED
        BY <1>5, <2>4, <3>1, <3>3, <3>4
    <2> QED
      <3>1. n \in Int /\ Occupancy \in Int
        BY <1>1, <1>3
      <3>2. n < Occupancy \/ n >= Occupancy
        BY <3>1
      <3> QED
        BY <2>5, <2>6, <3>2
  <1>8. Owed' = kept \o acc
    <2>1. Owed' \in Seq(R) /\ Len(Owed') = Occupancy'
      BY <1>0 DEF OwedIsSequence
    <2>2. kept \o acc \in Seq(R) /\ Len(kept \o acc) = Occupancy'
      BY <1>1, <1>3, <1>4, <1>5, ConcatProperties
    <2> QED
      BY <1>7, <2>1, <2>2, SeqEqual
  <1> QED
    BY <1>8 DEF kept, acc, new

(***************************************************************************)
(* At most one response is added to the owed ones at an edge.              *)
(***************************************************************************)
LEMMA OwedAccepts ==
    ASSUME RvalidInv, RvalidInv', rdata_i' \in Word,
           NEW push \in BOOLEAN, NEW we \in BOOLEAN, NEW exokay \in BOOLEAN,
           NEW d \in 0 .. DELAY_RANGE - 1,
           push => MayIssue, FifoEdge(push, we, exokay, d), CoreCountEdge(push)
    PROVE  \E acc \in Channel!Accepted : Owed' = Channel!Unanswered \o acc
  <1> DEFINE new == [rdata |-> IF we THEN 0 ELSE rdata_i', exokay |-> exokay]
             acc == IF push THEN <<new>> ELSE << >>
  <1>1. acc \in Channel!Accepted
    BY ZeroWord DEF Channel!Accepted
  <1>2. Owed' = Channel!Unanswered \o acc
    BY OwedAfterEdge
  <1> QED
    BY <1>1, <1>2

(***************************************************************************)
(* The response on the bus is the first of the owed ones.                  *)
(***************************************************************************)
LEMMA BusIsHead ==
    RvalidInv /\ rvalid_o => Owed # << >> /\ BusResponse = Head(Owed)
  <1> SUFFICES ASSUME RvalidInv, rvalid_o PROVE Owed # << >> /\ BusResponse = Head(Owed)
    OBVIOUS
  <1>1. rptr \in Ptrs /\ wptr \in Ptrs /\ FIFO_DEPTH \in Nat \ {0}
    BY FifoAssumption DEF RvalidInv, RvalidTypeOK
  <1>2. Occupancy \in Int /\ Occupancy >= 1
    BY <1>1 DEF rvalid_o, fifo_empty, Occupancy, Ptrs
  <1>3. PtrAdd(rptr, 1 - 1) = rptr
    BY <1>1 DEF Ptrs, PtrAdd
  <1>4. Owed \in Seq([rdata : Word, exokay : BOOLEAN]) /\ Len(Owed) = Occupancy
    BY OwedType DEF OwedIsSequence
  <1>5. Owed[1] = BusResponse
    BY <1>2, <1>3 DEF Owed, BusResponse
  <1>6. Owed # << >>
    BY <1>2, <1>4
  <1> QED
    BY <1>4, <1>5, <1>6

(***************************************************************************)
(* A clock edge of the ring buffer is a clock edge of the channel.         *)
(***************************************************************************)
LEMMA ClockRefines ==
    ASSUME RvalidInv, RvalidInv', RvalidClock
    PROVE  Channel!Clock
  <1>1. \E acc \in Channel!Accepted : Owed' = Channel!Unanswered \o acc
    BY ClockEdge, OwedAccepts
  <1>2. rvalid_o' \in BOOLEAN
    BY DEF rvalid_o
  <1>3. rvalid_o' => Owed' # << >> /\ BusResponse' = Head(Owed')
    <2>1. (RvalidInv /\ rvalid_o => Owed # << >> /\ BusResponse = Head(Owed))'
      BY BusIsHead, PTL
    <2> QED
      BY <2>1
  <1> QED
    BY <1>1, <1>2, <1>3 DEF Channel!Clock

(***************************************************************************)
(* InOrderResponses holds for every depth, outstanding limit, set of data  *)
(* words and range of delays: riscv_rvalid_stall implements the response   *)
(* channel.  Each accepted transfer is answered once, in order, with its   *)
(* own read data, whatever is accepted, delayed or popped meanwhile.       *)
(***************************************************************************)
THEOREM ChannelRefinement == RvalidSafety => InOrderResponses
  <1>1. RvalidInit => Channel!Init
    <2> SUFFICES ASSUME RvalidInit PROVE Channel!Init
      OBVIOUS
    <2>1. wptr = 0 /\ rptr = 0
      BY DEF RvalidInit, FifoInit
    <2>2. rvalid_o = FALSE /\ Occupancy = 0
      BY <2>1 DEF rvalid_o, fifo_empty, Occupancy
    <2>3. Owed = << >>
      BY <2>2 DEF Owed
    <2> QED
      BY <2>2, <2>3 DEF Channel!Init
  <1>2. RvalidInv /\ RvalidInv' /\ [RvalidClock]_rvalidVars => [Channel!Next]_(Channel!vars)
    <2> SUFFICES ASSUME RvalidInv, RvalidInv', [RvalidClock]_rvalidVars
                 PROVE  [Channel!Next]_(Channel!vars)
      OBVIOUS
    <2>1. CASE RvalidClock
      BY <2>1, ClockRefines DEF Channel!Next
    <2>2. CASE UNCHANGED rvalidVars
      BY <2>2 DEF rvalidVars, Channel!vars, Owed, rvalid_o, BusResponse, Occupancy,
                  fifo_empty, current_delay, ResponseAt, DataAt
    <2> QED
      BY <2>1, <2>2
  <1> QED
    BY <1>1, <1>2, RvalidInvariance, PTL DEF RvalidSafety, InOrderResponses, Channel!Spec

=============================================================================
